------------------------------ MODULE ClientPath ------------------------------
(***************************************************************************)
(* The way of a command from a user to the gateway and back.               *)
(*                                                                         *)
(*   client   the web page or the command-line client, which starts an     *)
(*            HTTP request and waits                                       *)
(*   API      a thread of a pool, which opens a TCP connection of its own  *)
(*            to the gateway and waits five seconds at most                *)
(*   gateway  the abstract DeviceCall, which may take longer than that,    *)
(*            or never answer; it writes its answer behind a length        *)
(*                                                                         *)
(* Each call is one command, or the refresh of a sensor's data.  Its       *)
(* records are used again for the refresh that follows a sensor's command, *)
(* which starts when all of them are done with the command.                *)
(***************************************************************************)
EXTENDS Integers, FiniteSets

CONSTANTS
    Calls,      \* what users do
    Relays,     \* the lamps
    Sensors,
    Listed,     \* the status of each device when the page was loaded
    Threads     \* the size of the pool that runs the API's endpoints (40)

VARIABLES
    stage, accepted,            \* the gateway and the devices: DeviceCall
    action, shown, captured, loading,   \* the clients
    http,                       \* the API's threads and their answers
    conn                        \* the connections of the API to the gateway

gatewayVars == <<stage, accepted>>
pageVars == <<shown, captured, loading>>
vars == <<stage, accepted, action, shown, captured, loading, http, conn>>

Gateway == INSTANCE DeviceCall

Devices == Relays \cup Sensors
Statuses == {"on", "off"}       \* ON and OFF of a relay, ACTIVE and IDLE of a sensor

ASSUME ThreadsAssumption == Threads \in Nat \ {0}
ASSUME CallsAreFinite == IsFiniteSet(Calls)
ASSUME ListedAssumption == Listed \in [Devices -> Statuses]
ASSUME DevicesAssumption == Devices # {} /\ Relays \cap Sensors = {}

Opposite(s) == IF s = "on" THEN "off" ELSE "on"

\* What the gateway's bytes are when its connection ends: all of its answer, the
\* message type alone, or any other part of it (none, a length, half a field).
Parts == {"whole", "type", "torn"}

\* What the API answers: the command_status of a 200 ("" without one), the
\* status of a refreshed sensor, or an HTTP error.
CommandAnswers == {"SUCCESS", "FAILED", ""}
Answers == {"none", "error"} \cup CommandAnswers \cup Statuses
IsOk(answer) == answer \notin {"none", "error"}

Kinds == {"cli", "relay", "sensor", "frequency", "mount"}
Action(kind, d, target, pc) ==
    [pc |-> pc, kind |-> kind, device |-> d, target |-> target, seen |-> "nothing"]
Idle == Action("cli", CHOOSE d \in Devices : TRUE, "on", "idle")
NoRequest == [pc |-> "none", what |-> "command", answer |-> "none"]
Request(what) == [pc |-> "queued", what |-> what, answer |-> "none"]
NoConnection == [pc |-> "none", sent |-> "torn", status |-> "none"]

Init ==
    /\ Gateway!AbsInit
    /\ action = [c \in Calls |-> Idle]
    /\ shown = Listed /\ captured = Listed
    /\ loading = [d \in Devices |-> FALSE]
    /\ http = [c \in Calls |-> NoRequest]
    /\ conn = [c \in Calls |-> NoConnection]

-----------------------------------------------------------------------------
(* Clients: what the user does                                             *)

\* Each call c in the domain of what starts as an action with a new request.
StartAll(starts) ==
    /\ \A c \in DOMAIN starts : action[c].pc = "idle"
    /\ action' = [c \in Calls |-> IF c \in DOMAIN starts THEN starts[c] ELSE action[c]]
    /\ http' = [c \in Calls |-> IF c \in DOMAIN starts THEN Request(starts[c].pc) ELSE http[c]]
    /\ UNCHANGED <<gatewayVars, conn>>
Start(c, a) == StartAll([x \in {c} |-> a])

\* send_device_command, from a menu; the page does not see for which device.
SendDeviceCommand(c) ==
    /\ Start(c, Action("cli", Idle.device, Idle.target, "command"))
    /\ UNCHANGED pageVars

\* The buttons of DeviceStatus, which are disabled while it is loading.
Click(c, d, kind, target) ==
    /\ ~loading[d]
    /\ Start(c, Action(kind, d, target, "command"))
    /\ loading' = [loading EXCEPT ![d] = TRUE]
    /\ UNCHANGED <<shown, captured>>
ToggleRelay(c, d) == d \in Relays /\ Click(c, d, "relay", Opposite(shown[d]))
ToggleSensorState(c, d) == d \in Sensors /\ Click(c, d, "sensor", Opposite(shown[d]))
UpdateFrequency(c, d) == d \in Sensors /\ Click(c, d, "frequency", shown[d])

\* handleTurnOnAll, handleTurnOffAll: the toggleRelay that each lamp left
\* behind, whether it is loading or not, for the status it had then.
TurnAll(status) ==
    LET lamps == {d \in Relays : shown[d] # status}
    IN  \E call \in [lamps -> Calls] :
          /\ lamps # {}
          /\ \A d, e \in lamps : call[d] = call[e] => d = e
          /\ StartAll([c \in {call[d] : d \in lamps} |->
                LET d == CHOOSE e \in lamps : call[e] = c
                IN  Action("relay", d, Opposite(captured[d]), "command")])
          /\ loading' = [d \in Devices |-> d \in lamps \/ loading[d]]
          /\ UNCHANGED <<shown, captured>>

\* The effect after a new device object is rendered: device._toggleRelay.
RenderEffect(d) ==
    /\ captured[d] # shown[d]
    /\ captured' = [captured EXCEPT ![d] = shown[d]]
    /\ UNCHANGED <<gatewayVars, action, shown, loading, http, conn>>

\* The first fetchSensorData of a sensor's component.
Mount(c, d) ==
    /\ d \in Sensors
    /\ Start(c, Action("mount", d, shown[d], "fetch"))
    /\ UNCHANGED pageVars

-----------------------------------------------------------------------------
(* Clients: what the answer does                                           *)

\* Mutant of Success: whatever comes with status code 200.
SuccessIfOk(answer) == IsOk(answer)
\* The result of send_device_command.
Success(answer) == answer = "SUCCESS"

EndAction(c, seen) == action' = [action EXCEPT ![c].pc = "ended", ![c].seen = seen]

\* Mutant of NewStatus: the opposite of what is shown by now.
NewStatusByNow(c) == Opposite(shown[action[c].device])
\* onStatusChange and setSensorState: for the command that was sent.
NewStatus(c) == action[c].target

\* The promise of a PUT is settled; an error of a CLI's is a failure.
CommandSettled(c, answer) ==
    LET d == action[c].device
        kind == action[c].kind
    IN  /\ action[c].pc = "command"
        /\ \/ /\ kind = "cli"
              /\ EndAction(c, IF Success(answer) THEN "success" ELSE "failure")
              /\ UNCHANGED <<shown, loading, http, conn>>
           \/ /\ kind = "relay" /\ IsOk(answer)
              /\ EndAction(c, "done")
              /\ shown' = [shown EXCEPT ![d] = NewStatus(c)]
              /\ loading' = [loading EXCEPT ![d] = FALSE]
              /\ UNCHANGED <<http, conn>>
           \/ /\ kind = "sensor" /\ IsOk(answer)
              /\ action' = [action EXCEPT ![c].pc = "fetch"]
              /\ shown' = [shown EXCEPT ![d] = NewStatus(c)]
              /\ http' = [http EXCEPT ![c] = Request("fetch")]
              /\ conn' = [conn EXCEPT ![c] = NoConnection]
              /\ UNCHANGED loading
           \* onIntervalChange is not given: an error after every answer.
           \/ /\ kind = "frequency" \/ (kind \in {"relay", "sensor"} /\ ~IsOk(answer))
              /\ EndAction(c, "alert")
              /\ loading' = [loading EXCEPT ![d] = FALSE]
              /\ UNCHANGED <<shown, http, conn>>
        /\ UNCHANGED <<gatewayVars, captured>>

\* fetchSensorData, whose errors are only logged, and the finally block.
FetchSettled(c, answer) ==
    LET d == action[c].device
    IN  /\ action[c].pc = "fetch"
        /\ EndAction(c, "done")
        /\ shown' = [shown EXCEPT ![d] = IF IsOk(answer) THEN answer ELSE @]
        /\ loading' = [loading EXCEPT ![d] = @ /\ action[c].kind = "mount"]
        /\ UNCHANGED <<gatewayVars, captured, http, conn>>

Settled(c, answer) == CommandSettled(c, answer) \/ FetchSettled(c, answer)
HttpAnswer(c) == http[c].pc = "answered" /\ Settled(c, http[c].answer)
\* The HTTP connection breaks, or the API ends; what it began goes on.
HttpFails(c) == Settled(c, "error")

-----------------------------------------------------------------------------
(* API                                                                     *)

Busy == {c \in Calls : http[c].pc \in {"connect", "wait"}}

\* Mutant of ThreadFree: a thread for every request.
ThreadAlwaysFree == TRUE
ThreadFree == Cardinality(Busy) < Threads

StartThread(c) ==
    /\ http[c].pc = "queued"
    /\ ThreadFree
    /\ http' = [http EXCEPT ![c].pc = "connect"]
    /\ UNCHANGED <<gatewayVars, action, pageVars, conn>>

Reply(c, answer) ==
    http' = [http EXCEPT ![c].pc = "answered", ![c].answer = answer]

Connect(c) ==
    /\ http[c].pc = "connect"
    /\ http' = [http EXCEPT ![c].pc = "wait"]
    /\ conn' = [conn EXCEPT ![c].pc = "request"]
    /\ UNCHANGED <<gatewayVars, action, pageVars>>

ConnectFails(c) ==
    /\ http[c].pc = "connect"
    /\ Reply(c, "error")
    /\ UNCHANGED <<gatewayVars, action, pageVars, conn>>

\* Mutant of TimeOut: only a connection that is being opened times out.
TimeOutConnecting(c) == ConnectFails(c)
\* The five seconds are up before the gateway's answer.
TimeOut(c) ==
    /\ http[c].pc = "wait" /\ conn[c].pc = "request"
    /\ Reply(c, "error")
    /\ UNCHANGED <<gatewayVars, action, pageVars, conn>>

\* Mutant of AnswerOn: one connection for all, with answers nobody waited for.
AnswerOnShared(c) ==
    LET late == {d \in Calls : conn[d].pc = "served" /\ http[d].answer = "error"}
    IN  IF late = {} THEN conn[c] ELSE conn[CHOOSE d \in late : TRUE]
\* read_delimited_message, from a connection of its own.
AnswerOn(c) == conn[c]

\* read_delimited_message does not compare lengths: after the message type
\* alone the response is empty, which is an answer to a command.
Parsed(answer, what) ==
    IF answer.sent = "whole" THEN answer.status
    ELSE IF answer.sent = "type" /\ what = "command" THEN "" ELSE "error"

Receive(c) ==
    /\ http[c].pc = "wait" /\ AnswerOn(c).pc = "served"
    /\ Reply(c, Parsed(AnswerOn(c), http[c].what))
    /\ UNCHANGED <<gatewayVars, action, pageVars, conn>>

-----------------------------------------------------------------------------
(* Gateway                                                                 *)

\* The gateway has a request; it does not know whether the API still waits.
Serving(c, what) == conn[c].pc = "request" /\ http[c].what = what
\* The connection ends, after all of the answer or a part of it.
Served(c, sent, status) ==
    conn' = [conn EXCEPT ![c] = [pc |-> "served", sent |-> sent, status |-> status]]

GatewayOpens(c) ==
    /\ Serving(c, "command")
    /\ Gateway!Open(c)
    /\ UNCHANGED <<action, pageVars, http, conn>>

\* At any time after that, as DeviceCall says.
DeviceAccepts(c) ==
    /\ c \notin accepted /\ Gateway!Accept(c)
    /\ UNCHANGED <<action, pageVars, http, conn>>

GatewayAnswers(c, sent) ==
    /\ Serving(c, "command")
    /\ Gateway!AnswerSuccess(c) \/ Gateway!AnswerFailed(c)
    /\ Served(c, sent, stage'[c])
    /\ UNCHANGED <<action, pageVars, http>>

\* GET_DEVICE_STATUS: the last reading's status, or no device (404).
GatewayReads(c, sent, status) ==
    /\ Serving(c, "fetch")
    /\ Served(c, sent, status)
    /\ UNCHANGED <<gatewayVars, action, pageVars, http>>

\* The gateway ends before it answers.
GatewayEnds(c) ==
    /\ conn[c].pc = "request"
    /\ Served(c, "torn", "error")
    /\ UNCHANGED <<gatewayVars, action, pageVars, http>>

-----------------------------------------------------------------------------

ClientStep(c) ==
    \/ SendDeviceCommand(c)
    \/ \E d \in Devices :
          ToggleRelay(c, d) \/ ToggleSensorState(c, d) \/ UpdateFrequency(c, d) \/ Mount(c, d)
    \/ HttpAnswer(c) \/ HttpFails(c)
ApiStep(c) ==
    StartThread(c) \/ Connect(c) \/ ConnectFails(c) \/ TimeOut(c) \/ Receive(c)
GatewayStep(c) ==
    \/ GatewayOpens(c) \/ DeviceAccepts(c) \/ GatewayEnds(c)
    \/ \E sent \in Parts :
          \/ GatewayAnswers(c, sent)
          \/ \E status \in Statuses \cup {"error"} : GatewayReads(c, sent, status)

Next ==
    \/ \E c \in Calls : ClientStep(c) \/ ApiStep(c) \/ GatewayStep(c)
    \/ \E status \in Statuses : TurnAll(status)
    \/ \E d \in Devices : RenderEffect(d)

Spec == Init /\ [][Next]_vars

\* The API's threads run and their socket operations time out; the browser or
\* the client gets the answer.  Nothing is asked of the gateway or of users.
Fairness ==
    \A c \in Calls : WF_vars(ApiStep(c)) /\ WF_vars(HttpAnswer(c))
FairSpec == Spec /\ Fairness

-----------------------------------------------------------------------------
(* Properties                                                              *)

\* The types of the variables; and no more of the API's threads are in use
\* than its pool has, however many requests wait (the endpoints are not async).
ActionType ==
    [pc : {"idle", "command", "fetch", "ended"}, kind : Kinds, device : Devices,
     target : Statuses, seen : {"nothing", "success", "failure", "done", "alert"}]
HttpType ==
    [pc : {"none", "queued", "connect", "wait", "answered"},
     what : {"command", "fetch"}, answer : Answers]
ConnType ==
    [pc : {"none", "request", "served"}, sent : Parts, status : Answers]
ClientTypeOK ==
    /\ Gateway!AbsTypeOK
    /\ action \in [Calls -> ActionType]
    /\ shown \in [Devices -> Statuses] /\ captured \in [Devices -> Statuses]
    /\ loading \in [Devices -> BOOLEAN]
    /\ http \in [Calls -> HttpType]
    /\ conn \in [Calls -> ConnType]
    /\ Cardinality(Busy) <= Threads

\* The status that the API answers a command with is the gateway's answer to
\* this very command, never a part of it and never the late answer to a
\* command the API has given up (send_protobuf_request).
AnswerIsTheGateways ==
    \A c \in Calls :
        http[c].answer \in {"SUCCESS", "FAILED"} => stage[c] = http[c].answer

\* What the page shows of a lamp changes only to the target of a command that
\* was sent to it and came back with 200, however toggles of the same lamp
\* overlap and whatever is shown by then (toggleRelay, handleStatusChange).
ShownWasCommanded ==
    [][\A d \in Relays : shown'[d] # shown[d] =>
        \E c \in Calls :
            /\ action[c].pc = "command" /\ action[c].device = d
            /\ action[c].target = shown'[d] /\ IsOk(http[c].answer)]_vars

\* Whoever sends a command through the command-line client and the API is
\* promised what the gateway promises (DeviceCall): one result, and success only
\* for a command the device accepted; broken connections, timeouts and torn
\* answers are failures (send_device_command, send_protobuf_request).
OfClient(c) == action[c].pc # "idle" /\ action[c].kind = "cli"
Seen(c) ==
    IF ~OfClient(c) THEN "idle"
    ELSE IF action[c].pc # "ended" THEN "open"
    ELSE IF action[c].seen = "success" THEN "SUCCESS" ELSE "FAILED"
Client == INSTANCE DeviceCall WITH
    stage <- [c \in Calls |-> Seen(c)],
    accepted <- {c \in accepted : OfClient(c)}
ClientImplementsDeviceCall == Client!AbsSpec

\* Every action comes to its end, and in the end no component of the page is
\* left loading with its buttons disabled, although the gateway may never
\* answer and the API has few threads (the timeout of create_connection, the
\* finally blocks of DeviceStatus).
EveryActionEnds ==
    /\ \A c \in Calls : action[c].pc \in {"command", "fetch"} ~> action[c].pc = "ended"
    /\ <>[](\A d \in Devices : ~loading[d])

=============================================================================
