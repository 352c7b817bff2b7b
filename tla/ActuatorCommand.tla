--------------------------- MODULE ActuatorCommand ---------------------------
(***************************************************************************)
(* A client's command to a relay: a thread of the gateway, a gRPC call to  *)
(* the bridge, a TCP exchange with the relay, and back.                    *)
(*                                                                         *)
(*   gateway thread  send_command_to_device, send_grpc_command             *)
(*   bridge worker   LigarDispositivo, DesligarDispositivo,                *)
(*                   ConsultarEstado, send_tcp_command_to_device           *)
(*   Java relay      handleTcpCommand, a thread for each connection        *)
(*   relay board     processTCPCommands, one connection in each loop       *)
(*   registration    sendDeviceInfo, sendDiscoveryResponse, and the        *)
(*                   gateway's register_device, a thread for each message  *)
(*                                                                         *)
(* Each action is what one thread does between two points at which another *)
(* thread can be seen.  currentStatus of the Java relay has no lock: each  *)
(* read of it and each write is a step.  (It is not volatile, either; the  *)
(* stale reads Java would allow are not modelled.)                         *)
(*                                                                         *)
(* A call stands for everything done for it: the thread of the gateway,    *)
(* the worker of the bridge and the connection to the relay.               *)
(***************************************************************************)
EXTENDS Integers, Sequences, FiniteSets

CONSTANTS
    Actuators,  \* the relays
    Calls,      \* the requests clients make
    Requests,   \* the command types clients use
    Workers,    \* the size of the bridge's thread pool (10)
    MaxInfos,   \* bound: DeviceInfo messages with the same status of a relay
    MaxFaults,  \* bound: restarts of relays and ends of the bridge
    None        \* no value

CommandTypes == {"TURN_ON", "TURN_OFF", "GET_STATUS", "OTHER"}
Statuses == {"ON", "OFF"}

ASSUME SetsAssumption == Requests \subseteq CommandTypes
ASSUME BoundAssumption ==
    /\ Workers \in Nat \ {0} /\ MaxInfos \in Nat \ {0} /\ MaxFaults \in Nat
ASSUME NoneAssumption ==
    None \notin Actuators /\ None \notin CommandTypes /\ None \notin Statuses

VARIABLES
    boards,             \* the relays that run relay-actuator-board.ino, which
                        \* never changes; the others run RelayActuator.java
    connected_devices,  \* gateway: the status in the entry of each relay, or None
    infos,              \* gateway: threads that have still to register a
                        \* DeviceInfo, by its relay and status
    calls,              \* gateway: the thread that serves each call
    bridgeUp,           \* bridge: its process runs
    rpc,                \* bridge: how far the worker of each call is, or its answer
    relay,              \* relay: lampStatus, currentStatus
    gatewayKnown,       \* relay: gatewayDiscovered, gatewayIp # null
    backlog,            \* board: connections not yet accepted, oldest first
    handler,            \* Java relay: the thread of each connection
    executed,           \* history: the calls a relay has carried out
    held,               \* history: the statuses of its relay while a call is or
                        \* was open; forgotten when it has failed
    before,             \* history: the calls that were over when a call to a board
                        \* began
    stray,              \* bridge: the worker of each call that outlived its process:
                        \* "no", "connecting", or it has "sent" the command
    faults              \* the number of faults so far

gatewayVars == <<connected_devices, infos>>
bridgeVars  == <<bridgeUp, rpc>>
relayVars   == <<relay, gatewayKnown, backlog, handler, executed, held>>
boundVars   == <<boards, before, stray, faults>>

vars == <<gatewayVars, calls, bridgeVars, relayVars, boundVars>>

-----------------------------------------------------------------------------
(* Types                                                                   *)

Threads ==
    [pc : {"idle", "found", "waiting", "SUCCESS", "FAILED"},
     device_id : Actuators \cup {None}, command_type : CommandTypes \cup {None}]
Answers == Statuses \cup {"ERROR"}
NoHandler == [pc |-> "none", oldStatus |-> "OFF"]
Handlers ==
    [pc : {"none", "open", "test", "set", "compare", "announce", "respond"},
     oldStatus : Statuses]

TypeOK ==
    /\ boards \subseteq Actuators
    /\ connected_devices \in [Actuators -> Statuses \cup {None}]
    /\ infos \in [Actuators -> [Statuses -> 0 .. MaxInfos]]
    /\ calls \in [Calls -> Threads]
    /\ bridgeUp \in BOOLEAN
    /\ rpc \in [Calls -> {"none", "lost", "queued", "connecting", "reading"} \cup Answers]
    /\ relay \in [Actuators -> Statuses]
    /\ gatewayKnown \in [Actuators -> BOOLEAN]
    /\ backlog \in [Actuators -> Seq(Calls)]
    /\ handler \in [Calls -> Handlers]
    /\ executed \subseteq Calls
    /\ held \in [Calls -> SUBSET Statuses]
    /\ before \in [Calls -> SUBSET Calls]
    /\ stray \in [Calls -> {"no", "connecting", "sent"}]
    /\ faults \in Nat

Init ==
    /\ boards \in SUBSET Actuators
    /\ connected_devices = [a \in Actuators |-> None]
    /\ infos = [a \in Actuators |-> [st \in Statuses |-> 0]]
    /\ calls = [c \in Calls |-> [pc |-> "idle", device_id |-> None, command_type |-> None]]
    /\ bridgeUp = TRUE
    /\ rpc = [c \in Calls |-> "none"]
    /\ relay = [a \in Actuators |-> "OFF"]
    /\ gatewayKnown = [a \in Actuators |-> FALSE]
    /\ backlog = [a \in Actuators |-> << >>]
    /\ handler = [c \in Calls |-> NoHandler]
    /\ executed = {}
    /\ held = [c \in Calls |-> {}]
    /\ before = [c \in Calls |-> {}]
    /\ stray = [c \in Calls |-> "no"]
    /\ faults = 0

Registered(a) == connected_devices[a] # None
Finished(c) == calls[c].pc \in {"SUCCESS", "FAILED"}
Device(c) == calls[c].device_id
Command(c) == calls[c].command_type
Forget(c) == held' = [held EXCEPT ![c] = {}]

-----------------------------------------------------------------------------
(* The gateway's registry                                                  *)

\* Mutant of Announced: the initial state of a relay is announced.
AnnouncedInitial(a) == "OFF"
\* sendDeviceInfo, sendDiscoveryResponse: the status at the time of sending.
Announced(a) == relay[a]

\* A DeviceInfo reaches a thread of the gateway; or it cannot be sent, which the
\* relay only logs.
\* Bound: at most MaxInfos with the same status wait to be registered.
SendDeviceInfo(a, sent) ==
    /\ sent => infos[a][Announced(a)] < MaxInfos
    /\ infos' = IF sent THEN [infos EXCEPT ![a][Announced(a)] = @ + 1] ELSE infos

\* handle_tcp_connection, register_device: the threads overtake one another.
RegisterDevice(a, st) ==
    /\ infos[a][st] > 0
    /\ infos' = [infos EXCEPT ![a][st] = @ - 1]
    /\ connected_devices' = [connected_devices EXCEPT ![a] = st]
    /\ UNCHANGED <<calls, bridgeVars, relayVars, boundVars>>

\* main: a relay whose announcements do not arrive is removed.
RemoveOffline(a) ==
    /\ Registered(a)
    /\ connected_devices' = [connected_devices EXCEPT ![a] = None]
    /\ UNCHANGED <<infos, calls, bridgeVars, relayVars, boundVars>>

\* listenForDiscoveryRequests, processDiscoveryMessages: the relay learns the
\* gateway's address and announces itself.  (Once it is known, an announcement that
\* cannot be sent changes nothing.)
Discover(a, sent) ==
    /\ sent \/ ~gatewayKnown[a]
    /\ gatewayKnown' = [gatewayKnown EXCEPT ![a] = TRUE]
    /\ SendDeviceInfo(a, sent)
    /\ UNCHANGED <<relay, backlog, handler, executed, held>>
    /\ UNCHANGED <<connected_devices, calls, bridgeVars, boundVars>>

\* startStatusScheduler; loop of the board: every five seconds.  (The same.)
Renew(a) ==
    /\ gatewayKnown[a]
    /\ SendDeviceInfo(a, TRUE)
    /\ UNCHANGED <<connected_devices, calls, bridgeVars, relayVars, boundVars>>

-----------------------------------------------------------------------------
(* The thread of the gateway                                               *)

\* send_command_to_device finds no such device and answers FAILED.
SendToUnknown(c, a) ==
    /\ calls[c].pc = "idle"
    /\ ~Registered(a)
    /\ calls' = [calls EXCEPT ![c].pc = "FAILED"]
    /\ UNCHANGED <<gatewayVars, bridgeVars, relayVars, boundVars>>

\* send_command_to_device finds the relay; or handle_client_request does, for
\* GET_DEVICE_STATUS, and goes on with GET_STATUS.
FindDevice(c, a, t) ==
    /\ calls[c].pc = "idle"
    /\ Registered(a)
    /\ calls' = [calls EXCEPT ![c] = [pc |-> "found", device_id |-> a, command_type |-> t]]
    /\ held' = [held EXCEPT ![c] = {relay[a]}]
    /\ before' = [before EXCEPT ![c] = {d \in Calls : a \in boards /\ Finished(d)}]
    /\ UNCHANGED <<relay, gatewayKnown, backlog, handler, executed, boards, stray, faults>>
    /\ UNCHANGED <<gatewayVars, bridgeVars>>

\* send_grpc_command looks the relay up again and calls the bridge.  A relay
\* that has been removed since has an empty address, with which the worker can
\* only fail ("lost").  An unknown command is not sent; without a bridge the
\* call ends in RpcError.
CallBridge(c) ==
    /\ calls[c].pc = "found"
    /\ IF Command(c) = "OTHER" \/ ~bridgeUp
       THEN /\ calls' = [calls EXCEPT ![c].pc = "FAILED"]
            /\ Forget(c)
            /\ UNCHANGED rpc
       ELSE /\ calls' = [calls EXCEPT ![c].pc = "waiting"]
            /\ rpc' = [rpc EXCEPT ![c] = IF Registered(Device(c)) THEN "queued" ELSE "lost"]
            /\ UNCHANGED held
    /\ UNCHANGED <<relay, gatewayKnown, backlog, handler, executed>>
    /\ UNCHANGED <<gatewayVars, bridgeUp, boundVars>>

\* Mutant of FinishCall: whatever the bridge answers is the status.
FinishAnyAnswer(c) ==
    /\ calls[c].pc = "waiting"
    /\ rpc[c] \in Answers
    /\ calls' = [calls EXCEPT ![c].pc = IF rpc[c] \in Statuses THEN "SUCCESS" ELSE "FAILED"]
    /\ connected_devices' = [connected_devices EXCEPT ![Device(c)] = rpc[c]]
    /\ rpc' = [rpc EXCEPT ![c] = "none"]
    /\ IF rpc[c] \in Statuses THEN UNCHANGED held ELSE Forget(c)
    /\ UNCHANGED <<relay, gatewayKnown, backlog, handler, executed>>
    /\ UNCHANGED <<infos, bridgeUp, boundVars>>

\* send_grpc_command: an answer ON or OFF is a success, and is the status of
\* the entry, if there still is one.
FinishCall(c) ==
    /\ calls[c].pc = "waiting"
    /\ rpc[c] \in Answers
    /\ calls' = [calls EXCEPT ![c].pc = IF rpc[c] \in Statuses THEN "SUCCESS" ELSE "FAILED"]
    /\ connected_devices' =
          IF rpc[c] \in Statuses /\ Registered(Device(c))
          THEN [connected_devices EXCEPT ![Device(c)] = rpc[c]]
          ELSE connected_devices
    /\ rpc' = [rpc EXCEPT ![c] = "none"]
    /\ IF rpc[c] \in Statuses THEN UNCHANGED held ELSE Forget(c)
    /\ UNCHANGED <<relay, gatewayKnown, backlog, handler, executed>>
    /\ UNCHANGED <<infos, bridgeUp, boundVars>>

-----------------------------------------------------------------------------
(* The bridge                                                              *)

Busy == {c \in Calls : rpc[c] \in {"connecting", "reading"}}

\* serve: a thread of the pool takes the call.  (One without an address fails
\* before anybody sees it.)
StartWorker(c) ==
    /\ bridgeUp
    /\ rpc[c] \in {"queued", "lost"}
    /\ Cardinality(Busy) < Workers
    /\ rpc' = [rpc EXCEPT ![c] = IF rpc[c] = "queued" THEN "connecting" ELSE "ERROR"]
    /\ UNCHANGED <<gatewayVars, calls, bridgeUp, relayVars, boundVars>>

\* The Java relay accepts at once and starts a thread, the board when its loop
\* comes to the connection.
Deliver(c) ==
    IF Device(c) \in boards
    THEN /\ backlog' = [backlog EXCEPT ![Device(c)] = Append(@, c)]
         /\ UNCHANGED handler
    ELSE /\ handler' = [handler EXCEPT ![c].pc = "open"]
         /\ UNCHANGED backlog

\* send_tcp_command_to_device: connected, and the command sent.
Connect(c) ==
    /\ rpc[c] = "connecting"
    /\ rpc' = [rpc EXCEPT ![c] = "reading"]
    /\ Deliver(c)
    /\ UNCHANGED <<relay, gatewayKnown, executed, held>>
    /\ UNCHANGED <<gatewayVars, calls, bridgeUp, boundVars>>

\* Mutant of GiveUp: the timeout covers the connection, not the answer.
GiveUpConnecting(c) ==
    /\ rpc[c] = "connecting"
    /\ rpc' = [rpc EXCEPT ![c] = "ERROR"]
    /\ UNCHANGED <<gatewayVars, calls, bridgeUp, relayVars, boundVars>>

\* Mutant of GiveUp: the exception is taken for an answer.
GiveUpQuietly(c) ==
    /\ rpc[c] \in {"connecting", "reading"}
    /\ rpc' = [rpc EXCEPT ![c] =
          IF rpc[c] = "reading" /\ Command(c) = "TURN_ON" THEN "ON" ELSE "ERROR"]
    /\ UNCHANGED <<gatewayVars, calls, bridgeUp, relayVars, boundVars>>

\* The relay refuses, closes the connection, or five seconds are over: at any
\* moment.  What was sent may still reach the relay.
GiveUp(c) ==
    /\ rpc[c] \in {"connecting", "reading"}
    /\ rpc' = [rpc EXCEPT ![c] = "ERROR"]
    /\ UNCHANGED <<gatewayVars, calls, bridgeUp, relayVars, boundVars>>

\* Mutant of AnswerTo: the answer of LigarDispositivo in DesligarDispositivo.
AnswerAlwaysOn(t, st) == IF t = "GET_STATUS" THEN st ELSE "ON"
\* What each method answers to a DeviceUpdate: only ConsultarEstado looks at
\* the status in it.
AnswerTo(t, st) ==
    CASE t = "TURN_ON"  -> "ON"
      [] t = "TURN_OFF" -> "OFF"
      [] OTHER          -> st

\* The DeviceUpdate reaches the worker, if it still waits.
Respond(c) ==
    rpc' = IF rpc[c] = "reading"
           THEN [rpc EXCEPT ![c] = AnswerTo(Command(c), relay'[Device(c)])]
           ELSE rpc

\* Bound: every fault is counted.
Fault == faults < MaxFaults /\ faults' = faults + 1 /\ UNCHANGED <<boards, before>>

\* The process ends, at once or by server.stop(0): the calls to it end in
\* RpcError, except for the answers that have been delivered.  server.stop(0)
\* lets the threads of the pool run on; those that were connecting may still send
\* their commands, and nobody learns what became of them.
BridgeStop(delivered, running) ==
    /\ bridgeUp
    /\ bridgeUp' = FALSE
    /\ delivered \subseteq {c \in Calls : rpc[c] \in Answers}
    /\ running \subseteq {c \in Calls : rpc[c] = "connecting"}
    /\ rpc' = [c \in Calls |->
          IF rpc[c] = "none" \/ c \in delivered THEN rpc[c] ELSE "ERROR"]
    /\ stray' = [c \in Calls |-> IF c \in running THEN "connecting" ELSE stray[c]]
    /\ Fault
    /\ UNCHANGED <<gatewayVars, calls, relayVars>>

\* A worker that outlived its process connects and sends the command.
StrayConnect(c) ==
    /\ stray[c] = "connecting"
    /\ stray' = [stray EXCEPT ![c] = "sent"]
    /\ Deliver(c)
    /\ UNCHANGED <<relay, gatewayKnown, executed, held>>
    /\ UNCHANGED <<gatewayVars, calls, bridgeVars, boards, before, faults>>

BridgeStart ==
    /\ ~bridgeUp
    /\ bridgeUp' = TRUE
    /\ UNCHANGED <<gatewayVars, calls, rpc, relayVars, boundVars>>

-----------------------------------------------------------------------------
(* The relays                                                              *)

\* The relay is switched, which the calls that are open may see.
Switch(a, st) ==
    /\ relay' = [relay EXCEPT ![a] = st]
    /\ held' = [c \in Calls |->
          IF Device(c) = a /\ ~Finished(c) THEN held[c] \cup {st} ELSE held[c]]

StatusAfter(a, t) ==
    CASE t = "TURN_ON"  -> "ON"
      [] t = "TURN_OFF" -> "OFF"
      [] OTHER          -> relay[a]

\* Mutant of NextConnection: the newest connection first.
NewestConnection(a, c) ==
    /\ a \in boards
    /\ backlog[a] # << >>
    /\ c = backlog[a][Len(backlog[a])]
    /\ backlog' = [backlog EXCEPT ![a] = SubSeq(@, 1, Len(@) - 1)]
\* tcpServer.available(): the oldest connection.
NextConnection(a, c) ==
    /\ a \in boards
    /\ backlog[a] # << >>
    /\ c = Head(backlog[a])
    /\ backlog' = [backlog EXCEPT ![a] = Tail(@)]

\* processTCPCommands, processCommand: carry out the command and respond.
BoardCommand(a, c) ==
    /\ NextConnection(a, c)
    /\ Switch(a, StatusAfter(a, Command(c)))
    /\ executed' = executed \cup {c}
    /\ Respond(c)
    /\ UNCHANGED <<gatewayKnown, handler>>
    /\ UNCHANGED <<gatewayVars, calls, bridgeUp, boundVars>>

\* processTCPCommands: the command, or the rest of it, does not arrive within
\* 100 ms and the connection is closed.
BoardDrop(a, c) ==
    /\ NextConnection(a, c)
    /\ UNCHANGED <<relay, gatewayKnown, handler, executed, held>>
    /\ UNCHANGED <<gatewayVars, calls, bridgeVars, boundVars>>

HandlerStep(c, from, to) ==
    /\ handler[c].pc = from
    /\ handler' = [handler EXCEPT ![c].pc = to]
    /\ UNCHANGED <<gatewayKnown, backlog>>

\* handleTcpCommand: oldStatus = currentStatus.
ReadOldStatus(c) ==
    /\ handler[c].pc = "open"
    /\ handler' = [handler EXCEPT ![c] = [pc |-> "test", oldStatus |-> relay[Device(c)]]]
    /\ UNCHANGED <<relay, gatewayKnown, backlog, executed, held>>
    /\ UNCHANGED <<gatewayVars, calls, bridgeVars, boundVars>>

\* The command has something to change only in the other status.
Changes(t, st) == <<t, st>> \in {<<"TURN_ON", "OFF">>, <<"TURN_OFF", "ON">>}

\* Whether the command has something to change.
TestStatus(c) ==
    /\ HandlerStep(c, "test", IF Changes(Command(c), relay[Device(c)]) THEN "set" ELSE "compare")
    /\ executed' = IF Changes(Command(c), relay[Device(c)]) THEN executed ELSE executed \cup {c}
    /\ UNCHANGED <<relay, held>>
    /\ UNCHANGED <<gatewayVars, calls, bridgeVars, boundVars>>

SetStatus(c) ==
    /\ HandlerStep(c, "set", "compare")
    /\ Switch(Device(c), StatusAfter(Device(c), Command(c)))
    /\ executed' = executed \cup {c}
    /\ UNCHANGED <<gatewayVars, calls, bridgeVars, boundVars>>

\* currentStatus != oldStatus, of which nothing is needed afterwards.
CompareStatus(c) ==
    /\ handler[c].pc = "compare"
    /\ handler' = [handler EXCEPT ![c] =
          [NoHandler EXCEPT !.pc =
             IF relay[Device(c)] # handler[c].oldStatus THEN "announce" ELSE "respond"]]
    /\ UNCHANGED <<relay, gatewayKnown, backlog, executed, held>>
    /\ UNCHANGED <<gatewayVars, calls, bridgeVars, boundVars>>

\* sendStatusUpdate: before the response, if the gateway is known and reached.
AnnounceChange(c, sent) ==
    /\ HandlerStep(c, "announce", "respond")
    /\ sent => gatewayKnown[Device(c)]
    /\ SendDeviceInfo(Device(c), sent)
    /\ UNCHANGED <<relay, executed, held>>
    /\ UNCHANGED <<connected_devices, calls, bridgeVars, boundVars>>

\* The response reads currentStatus once more.
JavaRespond(c) ==
    /\ handler[c].pc = "respond"
    /\ handler' = [handler EXCEPT ![c] = NoHandler]
    /\ UNCHANGED <<gatewayKnown, backlog>>
    /\ UNCHANGED <<relay, executed, held>>
    /\ Respond(c)
    /\ UNCHANGED <<gatewayVars, calls, bridgeUp, boundVars>>

\* A power cycle: OFF, no gateway, no connections.  The bridge's worker, if it
\* reads, learns it from its timeout.
RelayRestart(a) ==
    /\ Switch(a, "OFF")
    /\ gatewayKnown' = [gatewayKnown EXCEPT ![a] = FALSE]
    /\ backlog' = [backlog EXCEPT ![a] = << >>]
    /\ handler' = [c \in Calls |->
          IF Device(c) = a THEN NoHandler ELSE handler[c]]
    /\ Fault
    /\ UNCHANGED <<executed, stray>>
    /\ UNCHANGED <<gatewayVars, calls, bridgeVars>>

-----------------------------------------------------------------------------

JavaStep(c) ==
    \/ ReadOldStatus(c) \/ TestStatus(c) \/ SetStatus(c)
    \/ CompareStatus(c) \/ JavaRespond(c)
    \/ \E sent \in BOOLEAN : AnnounceChange(c, sent)

Next ==
    \/ \E a \in Actuators, st \in Statuses : RegisterDevice(a, st)
    \/ \E a \in Actuators : RemoveOffline(a) \/ Renew(a)
    \/ \E a \in Actuators, sent \in BOOLEAN : Discover(a, sent)
    \/ \E c \in Calls, a \in Actuators : SendToUnknown(c, a)
    \/ \E c \in Calls, a \in Actuators, t \in Requests : FindDevice(c, a, t)
    \/ \E c \in Calls : CallBridge(c) \/ FinishCall(c)
    \/ \E c \in Calls : StartWorker(c) \/ Connect(c) \/ GiveUp(c) \/ StrayConnect(c)
    \/ \E delivered, running \in SUBSET Calls : BridgeStop(delivered, running)
    \/ BridgeStart
    \/ \E a \in Actuators, c \in Calls : BoardCommand(a, c) \/ BoardDrop(a, c)
    \/ \E c \in Calls :
          \/ ReadOldStatus(c) \/ TestStatus(c) \/ SetStatus(c)
          \/ CompareStatus(c) \/ JavaRespond(c)
    \/ \E c \in Calls, sent \in BOOLEAN : AnnounceChange(c, sent)
    \/ \E a \in Actuators : RelayRestart(a)

Spec == Init /\ [][Next]_vars

\* The threads of the gateway, of the bridge and of the relays run; time passes
\* for whoever waits on a socket; discovery and renewals come round for ever, and
\* one of many announcements arrives.
\* Nothing makes a client send, a relay fall silent, the bridge stop or start,
\* or a relay answer in time.
Fairness ==
    /\ \A a \in Actuators :
          /\ WF_vars(Discover(a, TRUE) \/ Renew(a))
          /\ WF_vars(\E c \in Calls : BoardCommand(a, c) \/ BoardDrop(a, c))
          /\ \A st \in Statuses : WF_vars(RegisterDevice(a, st))
    /\ \A c \in Calls :
          /\ WF_vars(CallBridge(c) \/ FinishCall(c)) /\ WF_vars(JavaStep(c))
          /\ SF_vars(StartWorker(c)) /\ WF_vars(GiveUp(c))

FairSpec == Spec /\ Fairness

-----------------------------------------------------------------------------
(* Properties                                                              *)

\* What a successful call tells its client was true of the relay at some moment
\* while the call was open: although the bridge answers ON or OFF without
\* looking at the status it received, and the threads of the Java relay test
\* and set it without a lock (AnswerTo; handleTcpCommand).
AnswerWasTrue ==
    \A c \in Calls :
        /\ rpc[c] \in Statuses => rpc[c] \in held[c]
        /\ calls[c].pc = "SUCCESS" =>
              /\ Command(c) = "TURN_ON" => "ON" \in held[c]
              /\ Command(c) = "TURN_OFF" => "OFF" \in held[c]

\* A board never carries out a command its client was told had FAILED after a
\* command that was given later: commands queue in its backlog.  (The Java
\* relay's threads may, and so may workers that outlive the bridge.)
NeverTooLate(c) ==
    c \in executed' \ executed =>
        \A d \in executed : Device(d) = Device(c) => c \notin before[d]
LateCommandsNeverOverride ==
    [][\A c \in Calls : Device(c) \in boards /\ stray[c] = "no" => NeverTooLate(c)]_vars

\* Every call ends, whatever the relay does and however many calls wait for a
\* thread of the bridge (TIMEOUT_TCP; the gateway itself sets no deadline).
EveryCallReturns == \A c \in Calls : calls[c].pc = "found" ~> Finished(c)

\* The list shows for good the status a relay has for good, as long as it shows
\* the relay: a late DeviceInfo, or an answer of the bridge that is out of date,
\* is corrected by the renewals (register_device, send_grpc_command).
ListedAs(a, st) == connected_devices[a] \in {st, None}
StatusConverges ==
    \A a \in Actuators, st \in Statuses :
        <>[](relay[a] = st) => <>[]ListedAs(a, st)

\* Each call does what DeviceCall promises: it is answered once, and SUCCESS
\* only after the relay has carried it out (send_command_to_device).
Stage(c) ==
    CASE calls[c].pc \in {"found", "waiting"} -> "open"
      [] OTHER                                -> calls[c].pc
DeviceCalls == INSTANCE DeviceCall WITH
    stage <- [c \in Calls |-> Stage(c)],
    accepted <- executed
ImplementsDeviceCall == DeviceCalls!AbsSpec

=============================================================================
