------------------------------ MODULE DeviceCall ------------------------------
(***************************************************************************)
(* What the gateway promises the client that sends a device a command      *)
(* (ClientRequest SEND_DEVICE_COMMAND, answered by GatewayResponse with    *)
(* command_status), whatever carries the command: MQTT to a sensor or gRPC *)
(* and TCP to an actuator.                                                 *)
(*                                                                         *)
(* A call is opened once and answered once.  The answer is SUCCESS only if *)
(* the device accepted the command.  Nothing is promised about FAILED: the *)
(* device may have accepted the command before, or may still accept it     *)
(* after the answer, and it may accept it more than once.                  *)
(***************************************************************************)
EXTENDS FiniteSets

CONSTANT Calls

VARIABLES
    stage,      \* what the client of each call has seen
    accepted    \* the calls whose command the device has accepted

absVars == <<stage, accepted>>

Stages == {"idle", "open", "SUCCESS", "FAILED"}

AbsTypeOK ==
    /\ stage \in [Calls -> Stages]
    /\ accepted \subseteq Calls

AbsInit ==
    /\ stage = [c \in Calls |-> "idle"]
    /\ accepted = {}

Open(c) ==
    /\ stage[c] = "idle"
    /\ stage' = [stage EXCEPT ![c] = "open"]
    /\ UNCHANGED accepted

\* The device accepts the command of a call that was opened, answered or not.
Accept(c) ==
    /\ stage[c] # "idle"
    /\ accepted' = accepted \cup {c}
    /\ UNCHANGED stage

AnswerSuccess(c) ==
    /\ stage[c] = "open"
    /\ c \in accepted
    /\ stage' = [stage EXCEPT ![c] = "SUCCESS"]
    /\ UNCHANGED accepted

\* A device that is not registered is refused at once, before the call opens.
AnswerFailed(c) ==
    /\ stage[c] \in {"idle", "open"}
    /\ stage' = [stage EXCEPT ![c] = "FAILED"]
    /\ UNCHANGED accepted

AbsNext ==
    \E c \in Calls :
        Open(c) \/ Accept(c) \/ AnswerSuccess(c) \/ AnswerFailed(c)

AbsSpec == AbsInit /\ [][AbsNext]_absVars

=============================================================================
