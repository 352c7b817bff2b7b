------------------------ MODULE ActuatorCommand_proofs ------------------------
(***************************************************************************)
(* Proofs about ActuatorCommand, for every value of its constants.         *)
(*                                                                         *)
(* The inductive invariant IInv has a part for each call, CallOK, and one  *)
(* for the boards' queues, QueueOK.  CallOK says that the relay's status is *)
(* among those an open call has seen, and what a worker's answer and the   *)
(* place of a relay's thread say about them.  QueueOK says that a board's  *)
(* queue is in an order in which no call is behind a later one, except for *)
(* those whose worker outlived the bridge.                                 *)
(***************************************************************************)
EXTENDS ActuatorCommand, TLAPS

Early == {"lost", "queued", "connecting"}
Begun(c) == calls[c].pc \notin {"idle", "found"}

\* The relay was in the status the command asks for while the call was open.
Carried(c) ==
    /\ Command(c) = "TURN_ON" => "ON" \in held[c]
    /\ Command(c) = "TURN_OFF" => "OFF" \in held[c]

CallOK(c) ==
    /\ rpc[c] # "none" => calls[c].pc = "waiting"
    /\ calls[c].pc \in {"found", "waiting", "SUCCESS"} => Device(c) \in Actuators
    /\ calls[c].pc \in {"found", "waiting"} => relay[Device(c)] \in held[c]
    /\ c \in executed => Begun(c) /\ rpc[c] \notin Early
    /\ rpc[c] \in Statuses => c \in executed /\ rpc[c] \in held[c] /\ Carried(c)
    /\ calls[c].pc = "SUCCESS" => c \in executed /\ Carried(c)
    /\ handler[c].pc # "none" =>
          /\ Begun(c) /\ rpc[c] \notin Early
          /\ Device(c) \in Actuators \ boards
    /\ handler[c].pc \in {"compare", "announce", "respond"} =>
          c \in executed /\ (calls[c].pc = "waiting" => Carried(c))
    /\ stray[c] = "connecting" =>
          /\ Begun(c) /\ rpc[c] \notin Early
          /\ handler[c].pc = "none" /\ c \notin executed
          /\ Device(c) \in Actuators

Positions(a) == 1 .. Len(backlog[a])

QueuedOK ==
    \A a \in Actuators : \A i \in Positions(a) :
        /\ a \in boards
        /\ Device(backlog[a][i]) = a
        /\ Begun(backlog[a][i])
        /\ rpc[backlog[a][i]] \notin Early
        /\ stray[backlog[a][i]] # "connecting"
        /\ backlog[a][i] \notin executed
InOrder ==
    \A a \in Actuators : \A i, j \in Positions(a) :
        /\ backlog[a][i] = backlog[a][j] => i = j
        /\ stray[backlog[a][i]] = "no" /\ backlog[a][i] \in before[backlog[a][j]] => i < j
BeforeOK == \A d \in Calls : \A c \in before[d] : Finished(c)
NoneLeftBehind ==
    \A a \in Actuators : \A i \in Positions(a) : \A d \in executed :
        stray[backlog[a][i]] = "no" /\ backlog[a][i] \in before[d] => Device(d) # a

QueueOK == QueuedOK /\ InOrder /\ BeforeOK /\ NoneLeftBehind

IInv == TypeOK /\ (\A c \in Calls : CallOK(c)) /\ QueueOK

\* The invariant holds at first.
LEMMA InitInv == Init => IInv
  <1> SUFFICES ASSUME Init PROVE IInv
    OBVIOUS
  <1> USE NoneAssumption, BoundAssumption DEF Init
  <1>1. TypeOK
    BY DEF TypeOK, Threads, Handlers, NoHandler, Statuses
  <1>2. \A c \in Calls : CallOK(c)
    BY DEF CallOK, Statuses, Early, Begun, NoHandler
  <1>3. QueueOK
    <2>1. \A a \in Actuators : Positions(a) = {}
      BY DEF Positions
    <2> QED  BY <2>1 DEF QueueOK, QueuedOK, InOrder, BeforeOK, NoneLeftBehind
  <1> QED  BY <1>1, <1>2, <1>3 DEF IInv

-----------------------------------------------------------------------------
(* What a step leaves alone                                                *)

\* A call of which nothing changes but what it has seen of the relay.
Bystander(d) ==
    /\ calls'[d] = calls[d] /\ rpc'[d] = rpc[d] /\ handler'[d] = handler[d]
    /\ d \in executed' <=> d \in executed
    /\ boards' = boards
    /\ stray'[d] = "connecting" => stray[d] = "connecting"
    /\ held[d] \subseteq held'[d]
    /\ calls[d].pc \in {"found", "waiting"} => relay'[Device(d)] \in held'[d]

\* A call of which nothing changes stays in order.
LEMMA BystanderOK ==
    ASSUME NEW d \in Calls, CallOK(d), Bystander(d)
    PROVE  CallOK(d)'
  BY DEF CallOK, Bystander, Carried, Begun, Finished, Device, Command

\* Every open call sees the relay being switched.
LEMMA Switched ==
    ASSUME TypeOK, NEW a \in Actuators, NEW st \in Statuses, Switch(a, st)
    PROVE  /\ relay' \in [Actuators -> Statuses]
           /\ held' \in [Calls -> SUBSET Statuses]
           /\ relay'[a] = st
           /\ \A c \in Calls :
                 /\ held[c] \subseteq held'[c]
                 /\ Device(c) = a /\ ~Finished(c) => st \in held'[c]
                 /\ Device(c) \in Actuators /\ ~Finished(c) /\ relay[Device(c)] \in held[c]
                       => relay'[Device(c)] \in held'[c]
  BY DEF TypeOK, Switch

\* Calls only go on: one that has begun keeps its relay and goes nowhere
\* before the connection, and one that is finished remains so.  A worker that has
\* sent its command connects no more.
Onward ==
    \A c \in Calls :
        /\ Begun(c) => Begun(c)' /\ Device(c)' = Device(c)
        /\ Begun(c) /\ rpc[c] \notin Early => rpc'[c] \notin Early
        /\ Finished(c) => Finished(c)'
        /\ stray'[c] = "no" => stray[c] = "no"
        /\ stray'[c] = "connecting" => stray[c] = "connecting" \/ rpc[c] \in Early

\* The queues lose nothing but some of their oldest connections.
Shorter ==
    \A a \in Actuators : \E k \in Nat :
        \A i \in 1 .. Len(backlog'[a]) :
            /\ i + k \in Positions(a)
            /\ backlog'[a][i] = backlog[a][i + k]

\* A command that has just been carried out is in no queue any more, and none
\* of an earlier call is in the queue of its relay.
Unqueued ==
    \A d \in executed' \ executed :
        /\ Begun(d)
        /\ \A a \in Actuators : \A i \in 1 .. Len(backlog'[a]) :
              /\ backlog'[a][i] # d
              /\ stray'[backlog'[a][i]] = "no" /\ backlog'[a][i] \in before[d]
                    => Device(d) # a

\* Backlogs that lose only their oldest connections stay in order.
LEMMA QueueKept ==
    ASSUME TypeOK, TypeOK', \A c \in Calls : CallOK(c), QueueOK,
           Onward, Shorter, Unqueued, boards' = boards, before' = before
    PROVE  QueueOK'
  <1>0. \A a \in Actuators : \A i \in 1 .. Len(backlog'[a]) : backlog'[a][i] \in Calls
    BY DEF TypeOK
  <1>1. ASSUME NEW a \in Actuators
        PROVE  \E k \in Nat : \A i \in 1 .. Len(backlog'[a]) :
                  /\ i \in Int
                  /\ i + k \in Positions(a)
                  /\ backlog'[a][i] = backlog[a][i + k]
    <2>1. Len(backlog'[a]) \in Nat
      BY DEF TypeOK
    <2>2. PICK k \in Nat : \A i \in 1 .. Len(backlog'[a]) :
                i + k \in Positions(a) /\ backlog'[a][i] = backlog[a][i + k]
      BY DEF Shorter
    <2>3. \A i \in 1 .. Len(backlog'[a]) : i \in Int
      BY <2>1
    <2> QED  BY <2>2, <2>3
  <1>2. QueuedOK'
    <2> SUFFICES ASSUME NEW a \in Actuators, NEW i \in 1 .. Len(backlog'[a])
                 PROVE  /\ a \in boards
                        /\ calls'[backlog'[a][i]].device_id = a
                        /\ calls'[backlog'[a][i]].pc \notin {"idle", "found"}
                        /\ rpc'[backlog'[a][i]] \notin Early
                        /\ stray'[backlog'[a][i]] # "connecting"
                        /\ backlog'[a][i] \notin executed'
      BY DEF QueuedOK, Positions, Device, Begun
    <2>1. PICK j \in Positions(a) : backlog'[a][i] = backlog[a][j]
      BY <1>1
    <2>2. PICK c \in Calls : c = backlog[a][j]
      BY <1>0, <2>1
    <2>3. a \in boards /\ Device(c) = a /\ Begun(c) /\ rpc[c] \notin Early /\ c \notin executed
          /\ stray[c] # "connecting"
      BY <2>2 DEF QueueOK, QueuedOK
    <2>4. Device(c)' = a /\ Begun(c)' /\ rpc'[c] \notin Early /\ stray'[c] # "connecting"
      BY <2>3 DEF Onward
    <2>5. c \notin executed'
      BY <2>1, <2>2, <2>3 DEF Unqueued
    <2> QED  BY <2>1, <2>2, <2>3, <2>4, <2>5 DEF Device, Begun
  <1>3. InOrder'
    <2> SUFFICES ASSUME NEW a \in Actuators,
                        NEW i \in 1 .. Len(backlog'[a]), NEW j \in 1 .. Len(backlog'[a])
                 PROVE  /\ backlog'[a][i] = backlog'[a][j] => i = j
                        /\ /\ stray'[backlog'[a][i]] = "no"
                           /\ backlog'[a][i] \in before[backlog'[a][j]]
                           => i < j
      BY DEF InOrder, Positions
    <2>1. PICK k \in Nat : \A n \in 1 .. Len(backlog'[a]) :
                n \in Int /\ n + k \in Positions(a) /\ backlog'[a][n] = backlog[a][n + k]
      BY <1>1
    <2>2. /\ backlog[a][i + k] = backlog[a][j + k] => i + k = j + k
          /\ stray[backlog[a][i + k]] = "no" /\ backlog[a][i + k] \in before[backlog[a][j + k]]
                => i + k < j + k
      BY <2>1 DEF QueueOK, InOrder
    <2>4. stray'[backlog'[a][i]] = "no" => stray[backlog'[a][i]] = "no"
      BY <1>0 DEF Onward
    <2>3. i \in Int /\ j \in Int /\ backlog'[a][i] = backlog[a][i + k]
                /\ backlog'[a][j] = backlog[a][j + k]
      BY <2>1
    <2> QED  BY <2>2, <2>3, <2>4
  <1>4. BeforeOK'
    <2>1. \A d \in Calls : before[d] \subseteq Calls
      BY DEF TypeOK
    <2>2. \A d \in Calls : \A c \in before[d] : Finished(c)'
      BY <2>1 DEF QueueOK, BeforeOK, Onward
    <2> QED  BY <2>2 DEF BeforeOK, Finished
  <1>5. NoneLeftBehind'
    <2> SUFFICES ASSUME NEW a \in Actuators, NEW i \in 1 .. Len(backlog'[a]),
                        NEW d \in executed', backlog'[a][i] \in before[d],
                        stray'[backlog'[a][i]] = "no"
                 PROVE  Device(d)' # a
      BY DEF NoneLeftBehind, Positions, Device
    <2>1. PICK j \in Positions(a) : backlog'[a][i] = backlog[a][j]
      BY <1>1
    <2>2. CASE d \in executed
      <3>1. d \in Calls /\ Begun(d)
        BY <2>2 DEF TypeOK, CallOK
      <3>3. stray[backlog'[a][i]] = "no"
        BY <1>0 DEF Onward
      <3>2. Device(d) # a
        BY <2>1, <2>2, <3>3 DEF QueueOK, NoneLeftBehind
      <3> QED  BY <3>1, <3>2 DEF Onward
    <2>3. CASE d \notin executed
      <3>1. d \in Calls
        BY DEF TypeOK
      <3>2. Device(d) # a /\ Begun(d)
        BY <2>3 DEF Unqueued
      <3>3. Device(d)' = Device(d)
        BY <3>1, <3>2 DEF Onward
      <3> QED  BY <3>2, <3>3
    <2> QED  BY <2>2, <2>3
  <1> QED  BY <1>2, <1>3, <1>4, <1>5 DEF QueueOK

\* A step that leaves the queues, and what they are about, alone.
LEMMA QueueUntouched ==
    ASSUME TypeOK, TypeOK', \A c \in Calls : CallOK(c), QueueOK, Onward,
           boards' = boards, before' = before, backlog' = backlog, executed' = executed
    PROVE  QueueOK'
  <1>1. Shorter
    <2> SUFFICES ASSUME NEW a \in Actuators
                 PROVE  \A i \in 1 .. Len(backlog[a]) :
                            i + 0 \in Positions(a) /\ backlog[a][i] = backlog[a][i + 0]
      BY DEF Shorter
    <2>1. Len(backlog[a]) \in Nat
      BY DEF TypeOK
    <2> QED  BY <2>1 DEF Positions
  <1>2. Unqueued
    BY DEF Unqueued
  <1> QED  BY <1>1, <1>2, QueueKept

\* A step that does not concern the calls.
LEMMA RegistryMoves ==
    ASSUME IInv, TypeOK', UNCHANGED <<calls, rpc, handler, executed, held>>,
           UNCHANGED <<relay, boards, before, stray, backlog>>
    PROVE  IInv'
  <1>1. \A c \in Calls : CallOK(c)'
    BY BystanderOK DEF IInv, Bystander, CallOK
  <1>2. Onward
    BY DEF Onward, Begun, Finished, Device
  <1>3. QueueOK'
    BY <1>2, QueueUntouched DEF IInv
  <1> QED  BY <1>1, <1>3 DEF IInv

\* An announcement keeps the type of infos.
LEMMA InfosType ==
    ASSUME TypeOK, NEW a \in Actuators, NEW sent \in BOOLEAN, SendDeviceInfo(a, sent)
    PROVE  infos' \in [Actuators -> [Statuses -> 0 .. MaxInfos]]
  <1>1. Announced(a) \in Statuses
    BY DEF TypeOK, Announced
  <1>2. infos[a][Announced(a)] \in 0 .. MaxInfos
    BY <1>1 DEF TypeOK
  <1>3. sent => infos[a][Announced(a)] + 1 \in 0 .. MaxInfos
    BY <1>2, BoundAssumption DEF SendDeviceInfo
  <1> HIDE DEF Announced
  <1> QED  BY <1>1, <1>3 DEF TypeOK, SendDeviceInfo

\* The registry and the clocks of the gateway do not touch the calls.
LEMMA RegistryInv ==
    ASSUME IInv, NEW a \in Actuators, NEW st \in Statuses, NEW sent \in BOOLEAN,
           \/ RegisterDevice(a, st) \/ RemoveOffline(a) \/ Discover(a, sent) \/ Renew(a)
    PROVE  IInv'
  <1> USE DEF gatewayVars, bridgeVars, relayVars, boundVars
  <1>1. CASE RegisterDevice(a, st)
    <2>1. TypeOK'
      BY <1>1, BoundAssumption DEF IInv, TypeOK, RegisterDevice
    <2> QED  BY <1>1, <2>1, RegistryMoves DEF RegisterDevice
  <1>2. CASE RemoveOffline(a)
    <2>1. TypeOK'
      BY <1>2 DEF IInv, TypeOK, RemoveOffline
    <2> QED  BY <1>2, <2>1, RegistryMoves DEF RemoveOffline
  <1>3. CASE Discover(a, sent)
    <2>1. TypeOK'
      BY <1>3, InfosType DEF IInv, TypeOK, Discover
    <2> QED  BY <1>3, <2>1, RegistryMoves DEF Discover
  <1>4. CASE Renew(a)
    <2>1. TypeOK'
      BY <1>4, InfosType DEF IInv, TypeOK, Renew
    <2> QED  BY <1>4, <2>1, RegistryMoves DEF Renew
  <1> QED  BY <1>1, <1>2, <1>3, <1>4

-----------------------------------------------------------------------------
(* The thread of the gateway and the worker of the bridge                  *)

\* The thread of a call goes on to another point.
LEMMA Moved ==
    ASSUME TypeOK, NEW c \in Calls,
           NEW p \in {"idle", "found", "waiting", "SUCCESS", "FAILED"},
           calls' = [calls EXCEPT ![c].pc = p]
    PROVE  /\ calls' \in [Calls -> Threads]
           /\ calls'[c].pc = p
           /\ calls'[c].device_id = calls[c].device_id
           /\ calls'[c].command_type = calls[c].command_type
           /\ \A d \in Calls \ {c} : calls'[d] = calls[d]
  BY DEF TypeOK, Threads

\* A step of one call that leaves the relays and the queues alone.
LEMMA CallMoves ==
    ASSUME IInv, TypeOK', NEW c \in Calls,
           \A d \in Calls \ {c} :
              calls'[d] = calls[d] /\ rpc'[d] = rpc[d] /\ handler'[d] = handler[d]
              /\ held'[d] = held[d],
           UNCHANGED <<relay, executed, boards, before, stray, backlog>>,
           CallOK(c)',
           Begun(c) => Begun(c)' /\ Device(c)' = Device(c),
           Begun(c) /\ rpc[c] \notin Early => rpc'[c] \notin Early,
           Finished(c) => Finished(c)'
    PROVE  IInv'
  <1>1. ASSUME NEW d \in Calls, d # c PROVE CallOK(d)'
    BY <1>1, BystanderOK DEF IInv, Bystander, CallOK
  <1>2. Onward
    BY DEF Onward, Begun, Finished, Device
  <1>3. QueueOK'
    BY <1>2, QueueUntouched DEF IInv
  <1> QED  BY <1>1, <1>3 DEF IInv

\* A command to an actuator the gateway does not know ends at once.
LEMMA SendToUnknownInv ==
    ASSUME IInv, NEW c \in Calls, NEW a \in Actuators, SendToUnknown(c, a)
    PROVE  IInv'
  <1> USE DEF gatewayVars, bridgeVars, relayVars, boundVars, SendToUnknown
  <1>1. TypeOK'
    BY DEF IInv, TypeOK, Threads
  <1>2. calls'[c] = [calls[c] EXCEPT !.pc = "FAILED"] /\ calls[c] \in Threads
    BY DEF IInv, TypeOK
  <1>3. CallOK(c)'
    BY <1>2 DEF IInv, CallOK, Begun, Device, Command, Carried, Threads
  <1> QED  BY <1>1, <1>2, <1>3, CallMoves DEF IInv, TypeOK, Begun, Finished

\* send_grpc_command calls the bridge, or gives up.
LEMMA CallBridgeInv ==
    ASSUME IInv, NEW c \in Calls, CallBridge(c)
    PROVE  IInv'
  <1> USE DEF gatewayVars, bridgeVars, relayVars, boundVars
  <1>0. TypeOK
    BY DEF IInv
  <1>1. rpc[c] = "none" /\ handler[c].pc = "none" /\ c \notin executed
        /\ calls[c].pc = "found" /\ CallOK(c) /\ stray[c] # "connecting" /\ stray' = stray
    BY DEF IInv, CallOK, Begun, CallBridge
  <1>2. CASE Command(c) = "OTHER" \/ ~bridgeUp
    <2>1. /\ calls' = [calls EXCEPT ![c].pc = "FAILED"]
          /\ held' = [held EXCEPT ![c] = {}] /\ UNCHANGED rpc
      BY <1>2 DEF CallBridge, Forget
    <2>2. TypeOK'
      BY <1>0, <2>1, Moved DEF TypeOK, CallBridge
    <2>3. CallOK(c)'
      BY <1>0, <1>1, <2>1, Moved DEF CallOK, Begun, Statuses, CallBridge
    <2> QED
      BY <1>0, <1>1, <2>1, <2>2, <2>3, Moved, CallMoves
      DEF CallBridge, Begun, Finished, TypeOK
  <1>3. CASE ~(Command(c) = "OTHER" \/ ~bridgeUp)
    <2>1. /\ calls' = [calls EXCEPT ![c].pc = "waiting"] /\ UNCHANGED held
          /\ rpc' = [rpc EXCEPT ![c] = IF Registered(Device(c)) THEN "queued" ELSE "lost"]
      BY <1>3 DEF CallBridge
    <2>2. TypeOK'
      BY <1>0, <2>1, Moved DEF TypeOK, CallBridge
    <2>3. CallOK(c)'
      BY <1>0, <1>1, <2>1, Moved DEF CallOK, Begun, Statuses, CallBridge, Device, TypeOK
    <2> QED
      BY <1>0, <1>1, <2>1, <2>2, <2>3, Moved, CallMoves
      DEF CallBridge, Begun, Finished, TypeOK
  <1> QED  BY <1>2, <1>3

\* send_grpc_command returns with what the bridge answered.
LEMMA FinishCallInv ==
    ASSUME IInv, NEW c \in Calls, FinishCall(c)
    PROVE  IInv'
  <1> USE DEF gatewayVars, bridgeVars, relayVars, boundVars
  <1> DEFINE p == IF rpc[c] \in Statuses THEN "SUCCESS" ELSE "FAILED"
  <1>0. TypeOK /\ CallOK(c) /\ calls[c].pc = "waiting"
    BY DEF IInv, FinishCall
  <1>1. /\ calls' \in [Calls -> Threads]
        /\ calls'[c].pc = p
        /\ Device(c)' = Device(c) /\ Command(c)' = Command(c)
        /\ \A d \in Calls \ {c} : calls'[d] = calls[d]
    BY <1>0, Moved DEF FinishCall, Device, Command
  <1>2. /\ connected_devices' \in [Actuators -> Statuses \cup {None}]
        /\ rpc' \in [Calls -> {"none", "lost", "queued", "connecting", "reading"} \cup Answers]
        /\ rpc'[c] = "none" /\ \A d \in Calls \ {c} : rpc'[d] = rpc[d]
        /\ held' \in [Calls -> SUBSET Statuses]
        /\ rpc[c] \in Statuses => held' = held
        /\ \A d \in Calls \ {c} : held'[d] = held[d]
    BY <1>0 DEF FinishCall, TypeOK, Forget
  <1>3. TypeOK'
    BY <1>0, <1>1, <1>2 DEF TypeOK, FinishCall
  <1>4. CallOK(c)'
    <2>1. UNCHANGED <<executed, handler, boards, stray>>
      BY DEF FinishCall
    <2>2. p = "SUCCESS" => c \in executed /\ Carried(c) /\ held' = held
      BY <1>0, <1>2 DEF CallOK
    <2>3. p = "SUCCESS" => Carried(c)'
      BY <1>1, <2>2 DEF Carried
    <2>4. p \in {"SUCCESS", "FAILED"}
      OBVIOUS
    <2> HIDE DEF p
    <2> QED  BY <1>0, <1>1, <1>2, <2>1, <2>2, <2>3, <2>4 DEF CallOK, Begun, Statuses, Early
  <1> QED  BY <1>0, <1>1, <1>2, <1>3, <1>4, CallMoves
      DEF FinishCall, Begun, Finished, Early

\* A thread of the bridge takes a call, or gives one up.
LEMMA WorkerInv ==
    ASSUME IInv, NEW c \in Calls, StartWorker(c) \/ GiveUp(c)
    PROVE  IInv'
  <1> USE DEF gatewayVars, bridgeVars, relayVars, boundVars, StartWorker, GiveUp
  <1>1. TypeOK'
    BY DEF IInv, TypeOK, Answers
  <1>2. /\ UNCHANGED calls /\ UNCHANGED held
        /\ rpc'[c] \in {"connecting", "ERROR"}
        /\ rpc'[c] = "connecting" => rpc[c] \in Early
        /\ rpc[c] # "none"
    BY DEF IInv, TypeOK, Early
  <1>3. CallOK(c)'
    BY <1>2 DEF IInv, CallOK, Begun, Device, Command, Carried, Statuses, Early
  <1> QED  BY <1>1, <1>2, <1>3, CallMoves DEF IInv, TypeOK, Begun, Finished, Early, Device

\* A new call has seen the relay as it is, and comes after all that are over.
LEMMA FindDeviceInv ==
    ASSUME IInv, NEW c \in Calls, NEW a \in Actuators, NEW t \in Requests,
           FindDevice(c, a, t)
    PROVE  IInv'
  <1> USE SetsAssumption DEF gatewayVars, bridgeVars, relayVars, boundVars
  <1>0. TypeOK /\ CallOK(c) /\ calls[c].pc = "idle"
    BY DEF IInv, FindDevice
  <1>1. /\ calls' \in [Calls -> Threads]
        /\ calls'[c].pc = "found" /\ calls'[c].device_id = a
        /\ \A d \in Calls \ {c} : calls'[d] = calls[d]
    BY <1>0 DEF FindDevice, TypeOK, Threads
  <1>2. /\ held' \in [Calls -> SUBSET Statuses] /\ held'[c] = {relay[a]}
        /\ \A d \in Calls \ {c} : held'[d] = held[d]
        /\ before' \in [Calls -> SUBSET Calls]
        /\ \A d \in Calls \ {c} : before'[d] = before[d]
        /\ \A d \in before'[c] : Finished(d)
    BY <1>0 DEF FindDevice, TypeOK
  <1>3. UNCHANGED <<boards, rpc, relay, backlog, handler, executed, stray>>
    BY DEF FindDevice
  <1>4. TypeOK'
    BY <1>0, <1>1, <1>2 DEF TypeOK, FindDevice
  <1>5. rpc[c] = "none" /\ handler[c].pc = "none" /\ c \notin executed
        /\ stray[c] # "connecting"
    BY <1>0 DEF CallOK, Begun
  <1>6. CallOK(c)'
    BY <1>1, <1>2, <1>3, <1>5 DEF CallOK, Begun, Device, Statuses
  <1>7. ASSUME NEW d \in Calls, d # c PROVE CallOK(d)'
    BY <1>1, <1>2, <1>3, <1>7, BystanderOK DEF IInv, Bystander, CallOK
  <1>8. \A b \in Actuators : \A i \in Positions(b) : backlog[b][i] \in Calls \ {c}
    BY <1>0 DEF IInv, TypeOK, QueueOK, QueuedOK, Positions, Begun
  <1>9. QueuedOK'
    <2>1. \A b \in Actuators : \A i \in Positions(b) : calls'[backlog[b][i]] = calls[backlog[b][i]]
      BY <1>1, <1>8
    <2> QED  BY <1>3, <2>1 DEF IInv, QueueOK, QueuedOK, Positions, Device, Begun
  <1>10. InOrder'
    <2>1. \A b \in Actuators : \A i \in Positions(b) : before'[backlog[b][i]] = before[backlog[b][i]]
      BY <1>2, <1>8
    <2> QED  BY <1>3, <2>1 DEF IInv, QueueOK, InOrder, Positions
  <1>11. BeforeOK'
    <2> SUFFICES ASSUME NEW d \in Calls, NEW e \in before'[d]
                 PROVE  calls'[e].pc \in {"SUCCESS", "FAILED"}
      BY DEF BeforeOK, Finished
    <2>1. e \in Calls /\ Finished(e)
      BY <1>0, <1>2 DEF IInv, QueueOK, BeforeOK, TypeOK
    <2>2. e # c
      BY <1>0, <2>1 DEF Finished
    <2> QED  BY <1>1, <2>1, <2>2 DEF Finished
  <1>12. NoneLeftBehind'
    <2>1. \A d \in executed : d \in Calls \ {c}
      BY <1>0, <1>5 DEF TypeOK
    <2>2. \A d \in executed : before'[d] = before[d] /\ calls'[d] = calls[d]
      BY <1>1, <1>2, <2>1
    <2> QED  BY <1>3, <2>2 DEF IInv, QueueOK, NoneLeftBehind, Positions, Device
  <1> QED  BY <1>4, <1>6, <1>7, <1>9, <1>10, <1>11, <1>12 DEF IInv, QueueOK

\* A new connection is the last of its queue, and no call is after it yet, unless
\* its worker outlived the bridge.
LEMMA DeliverInv ==
    ASSUME IInv, NEW c \in Calls, Deliver(c), Begun(c), Device(c) \in Actuators,
           handler[c].pc = "none", c \notin executed,
           \A a \in Actuators : \A i \in Positions(a) : backlog[a][i] # c,
           UNCHANGED <<boards, calls, relay, executed, held, before>>,
           UNCHANGED <<connected_devices, infos, bridgeUp, gatewayKnown, faults>>,
           rpc' \in [Calls -> {"none", "lost", "queued", "connecting", "reading"} \cup Answers],
           stray' \in [Calls -> {"no", "connecting", "sent"}],
           \A d \in Calls \ {c} : rpc'[d] = rpc[d] /\ stray'[d] = stray[d],
           rpc'[c] \notin Early, rpc'[c] \in Statuses => rpc[c] \in Statuses,
           rpc'[c] # "none" => calls[c].pc = "waiting",
           stray'[c] # "connecting",
           stray'[c] = "no" => stray[c] = "no" /\ \A d \in Calls : c \notin before[d]
    PROVE  IInv'
  <1>0. TypeOK /\ CallOK(c) /\ QueueOK
    BY DEF IInv
  <1>1. rpc'[c] \notin Statuses
    BY <1>0 DEF CallOK
  <1>4. CASE Device(c) \notin boards
    <2>1. /\ handler' = [handler EXCEPT ![c].pc = "open"] /\ UNCHANGED backlog
      BY <1>4 DEF Deliver
    <2>2. TypeOK'
      <3> DEFINE opened == [handler[c] EXCEPT !.pc = "open"]
      <3>1. ASSUME NEW h \in Handlers PROVE [h EXCEPT !.pc = "open"] \in Handlers
        BY DEF Handlers
      <3>2. handler \in [Calls -> Handlers] /\ opened \in Handlers
        BY <1>0, <3>1 DEF TypeOK
      <3>3. handler' = [handler EXCEPT ![c] = opened]
        BY <2>1
      <3> HIDE DEF opened
      <3>4. handler' \in [Calls -> Handlers]
        BY <3>2, <3>3
      <3> QED  BY <1>0, <2>1, <3>4 DEF TypeOK
    <2>3. handler'[c].pc = "open" /\ \A d \in Calls \ {c} : handler'[d] = handler[d]
      BY <1>0, <2>1 DEF TypeOK, Handlers
    <2>4. CallOK(c)'
      BY <1>0, <1>1, <1>4, <2>3 DEF CallOK, Begun, Device, Carried, Command
    <2>5. ASSUME NEW d \in Calls, d # c PROVE CallOK(d)'
      BY <2>3, <2>5, BystanderOK DEF IInv, Bystander, CallOK
    <2>6. Onward
      BY DEF Onward, Begun, Finished, Device
    <2>7. QueueOK'
      BY <1>0, <2>1, <2>2, <2>6, QueueUntouched DEF IInv
    <2> QED  BY <2>2, <2>4, <2>5, <2>7 DEF IInv
  <1>5. CASE Device(c) \in boards
    <2> DEFINE a == Device(c)
               n == Len(backlog[a]) + 1
    <2>1. /\ UNCHANGED handler
          /\ backlog' = [backlog EXCEPT ![a] = Append(@, c)]
      BY <1>5 DEF Deliver
    <2>2. /\ backlog' \in [Actuators -> Seq(Calls)]
          /\ \A b \in Actuators \ {a} : backlog'[b] = backlog[b]
          /\ Len(backlog'[a]) = n /\ n \in Nat /\ backlog'[a][n] = c
          /\ \A i \in Positions(a) :
                i \in Nat /\ i < n /\ backlog'[a][i] = backlog[a][i]
          /\ \A i \in 1 .. n : i \in Positions(a) \/ i = n
      BY <1>0, <2>1 DEF TypeOK, Positions
    <2>3. TypeOK'
      BY <1>0, <2>1, <2>2 DEF TypeOK
    <2>4. CallOK(c)'
      BY <1>0, <1>1, <2>1 DEF CallOK, Begun, Device, Carried, Command
    <2>5. ASSUME NEW d \in Calls, d # c PROVE CallOK(d)'
      BY <2>1, <2>5, BystanderOK DEF IInv, Bystander, CallOK
    <2>6. \A b \in Actuators : \A i \in Positions(b) : backlog[b][i] \in Calls \ {c}
      BY <1>0 DEF TypeOK, Positions
    <2>9. QueuedOK'
      <3> SUFFICES ASSUME NEW b \in Actuators, NEW i \in 1 .. Len(backlog'[b])
                   PROVE  /\ b \in boards
                          /\ calls[backlog'[b][i]].device_id = b
                          /\ calls[backlog'[b][i]].pc \notin {"idle", "found"}
                          /\ rpc'[backlog'[b][i]] \notin Early
                          /\ stray'[backlog'[b][i]] # "connecting"
                          /\ backlog'[b][i] \notin executed
        BY DEF QueuedOK, Positions, Device, Begun
      <3>1. CASE i \in Positions(b)
        <4>1. backlog'[b][i] = backlog[b][i] /\ backlog[b][i] \in Calls \ {c}
          BY <2>2, <2>6, <3>1
        <4> QED  BY <3>1, <4>1 DEF IInv, QueueOK, QueuedOK, Device, Begun
      <3>2. CASE i \notin Positions(b)
        <4>1. b = a /\ i = n
          BY <2>2, <3>2 DEF Positions
        <4> QED  BY <1>5, <2>2, <4>1 DEF Device, Begun
      <3> QED  BY <3>1, <3>2
    <2>10. InOrder'
      <3> SUFFICES ASSUME NEW b \in Actuators,
                          NEW i \in 1 .. Len(backlog'[b]), NEW j \in 1 .. Len(backlog'[b])
                   PROVE  /\ backlog'[b][i] = backlog'[b][j] => i = j
                          /\ /\ stray'[backlog'[b][i]] = "no"
                             /\ backlog'[b][i] \in before[backlog'[b][j]]
                             => i < j
        BY DEF InOrder, Positions
      <3>0. \A m \in Positions(b) : stray'[backlog[b][m]] = stray[backlog[b][m]]
        BY <2>6
      <3>1. CASE b # a
        BY <2>2, <3>0, <3>1 DEF IInv, QueueOK, InOrder, Positions
      <3>2. CASE b = a
        <4>1. CASE i \in Positions(a) /\ j \in Positions(a)
          <5>1. backlog'[a][i] = backlog[a][i] /\ backlog'[a][j] = backlog[a][j]
            BY <2>2, <4>1
          <5> QED  BY <3>0, <3>2, <4>1, <5>1 DEF IInv, QueueOK, InOrder
        <4>2. CASE i = n
          <5>1. backlog'[a][i] = c /\ backlog'[a][j] \in Calls
            BY <2>2, <3>2, <4>2
          <5>2. backlog'[a][j] = c => j = n
            BY <2>2, <2>6, <3>2
          <5> QED  BY <3>2, <4>2, <5>1, <5>2
        <4>3. CASE i \in Positions(a) /\ j = n
          <5>1. backlog'[a][j] = c /\ backlog'[a][i] # c /\ i < j
            BY <2>2, <2>6, <4>3
          <5> QED  BY <3>2, <5>1
        <4> QED  BY <2>2, <3>2, <4>1, <4>2, <4>3
      <3> QED  BY <3>1, <3>2
    <2>11. BeforeOK'
      BY DEF IInv, QueueOK, BeforeOK, Finished
    <2>12. NoneLeftBehind'
      <3> SUFFICES ASSUME NEW b \in Actuators, NEW i \in 1 .. Len(backlog'[b]),
                          NEW d \in executed, backlog'[b][i] \in before[d],
                          stray'[backlog'[b][i]] = "no"
                   PROVE  Device(d) # b
        BY DEF NoneLeftBehind, Positions, Device
      <3>1. backlog'[b][i] # c
        BY <1>0 DEF TypeOK
      <3>2. i \in Positions(b) /\ backlog'[b][i] = backlog[b][i]
        BY <2>2, <3>1 DEF Positions
      <3>3. stray[backlog[b][i]] = "no"
        BY <2>6, <3>1, <3>2
      <3> QED  BY <3>2, <3>3 DEF IInv, QueueOK, NoneLeftBehind
    <2> QED  BY <2>3, <2>4, <2>5, <2>9, <2>10, <2>11, <2>12 DEF IInv, QueueOK
  <1> QED  BY <1>4, <1>5

\* The worker's own connection: its call is open, so that none is after it.
LEMMA ConnectInv ==
    ASSUME IInv, NEW c \in Calls, Connect(c)
    PROVE  IInv'
  <1> USE DEF gatewayVars, bridgeVars, relayVars, boundVars
  <1>0. TypeOK /\ CallOK(c) /\ rpc[c] = "connecting" /\ calls[c].pc = "waiting"
    BY DEF IInv, Connect, CallOK
  <1>1. /\ rpc' \in [Calls -> {"none", "lost", "queued", "connecting", "reading"} \cup Answers]
        /\ rpc'[c] = "reading" /\ \A d \in Calls \ {c} : rpc'[d] = rpc[d]
    BY <1>0 DEF Connect, TypeOK
  <1>2. /\ UNCHANGED <<boards, calls, relay, executed, held, before, stray>>
        /\ UNCHANGED <<connected_devices, infos, bridgeUp, gatewayKnown, faults>>
        /\ Deliver(c)
    BY DEF Connect
  <1>3. /\ handler[c].pc = "none" /\ c \notin executed /\ stray[c] # "connecting"
        /\ Device(c) \in Actuators /\ Begun(c) /\ ~Finished(c)
    BY <1>0 DEF CallOK, Early, Begun, Finished
  <1>4. \A a \in Actuators : \A i \in Positions(a) : backlog[a][i] # c
    BY <1>0 DEF IInv, QueueOK, QueuedOK, Early
  <1>5. \A d \in Calls : c \notin before[d]
    BY <1>3 DEF IInv, QueueOK, BeforeOK
  <1>6. rpc'[c] \notin Early /\ rpc'[c] \notin Statuses
    BY <1>1 DEF Early, Statuses
  <1>7. stray' \in [Calls -> {"no", "connecting", "sent"}] /\ stray' = stray
    BY <1>0, <1>2 DEF TypeOK
  <1> QED  BY <1>0, <1>1, <1>2, <1>3, <1>4, <1>5, <1>6, <1>7, DeliverInv

\* A connection of a worker that outlived the bridge.
LEMMA StrayConnectInv ==
    ASSUME IInv, NEW c \in Calls, StrayConnect(c)
    PROVE  IInv'
  <1> USE DEF gatewayVars, bridgeVars, relayVars, boundVars
  <1>0. TypeOK /\ CallOK(c) /\ stray[c] = "connecting"
    BY DEF IInv, StrayConnect
  <1>1. /\ UNCHANGED <<boards, calls, relay, executed, held, before, rpc>>
        /\ UNCHANGED <<connected_devices, infos, bridgeUp, gatewayKnown, faults>>
        /\ Deliver(c) /\ stray' = [stray EXCEPT ![c] = "sent"]
    BY DEF StrayConnect
  <1>2. /\ handler[c].pc = "none" /\ c \notin executed /\ rpc[c] \notin Early
        /\ Device(c) \in Actuators /\ Begun(c)
        /\ rpc[c] # "none" => calls[c].pc = "waiting"
    BY <1>0 DEF CallOK
  <1>3. /\ stray' \in [Calls -> {"no", "connecting", "sent"}] /\ stray'[c] = "sent"
        /\ \A d \in Calls \ {c} : stray'[d] = stray[d]
        /\ rpc' \in [Calls -> {"none", "lost", "queued", "connecting", "reading"} \cup Answers]
    BY <1>0, <1>1 DEF TypeOK
  <1>4. \A a \in Actuators : \A i \in Positions(a) : backlog[a][i] # c
    BY <1>0 DEF IInv, QueueOK, QueuedOK
  <1> QED  BY <1>0, <1>1, <1>2, <1>3, <1>4, DeliverInv

\* The bridge starts again, or stops with the commands it had delivered.
LEMMA BridgeInv ==
    ASSUME IInv,
           BridgeStart \/ \E delivered, running \in SUBSET Calls : BridgeStop(delivered, running)
    PROVE  IInv'
  <1> USE DEF gatewayVars, bridgeVars, relayVars, boundVars
  <1>1. CASE BridgeStart
    <2>1. TypeOK'
      BY <1>1 DEF IInv, TypeOK, BridgeStart
    <2> QED  BY <1>1, <2>1, RegistryMoves DEF BridgeStart
  <1>2. ASSUME NEW delivered \in SUBSET Calls, NEW running \in SUBSET Calls,
               BridgeStop(delivered, running)
        PROVE  IInv'
    <2>1. UNCHANGED <<boards, calls, relay, backlog, handler, executed, held, before>>
      BY <1>2 DEF BridgeStop, Fault
    <2>2. /\ rpc' \in [Calls -> {"none", "lost", "queued", "connecting", "reading"} \cup Answers]
          /\ \A d \in Calls :
                rpc'[d] = rpc[d] \/ (rpc[d] # "none" /\ rpc'[d] = "ERROR")
      <3>1. /\ rpc' = [d \in Calls |->
                  IF rpc[d] = "none" \/ d \in delivered THEN rpc[d] ELSE "ERROR"]
            /\ rpc \in [Calls -> {"none", "lost", "queued", "connecting", "reading"} \cup Answers]
            /\ "ERROR" \in Answers
        BY <1>2 DEF IInv, TypeOK, BridgeStop, Answers
      <3> QED  BY <3>1
    <2>7. /\ stray' \in [Calls -> {"no", "connecting", "sent"}]
          /\ \A d \in Calls : \/ stray'[d] = stray[d]
                             \/ /\ stray'[d] = "connecting"
                                /\ rpc[d] = "connecting" /\ rpc'[d] = "ERROR"
      <3>1. /\ stray' = [d \in Calls |-> IF d \in running THEN "connecting" ELSE stray[d]]
            /\ running \subseteq {d \in Calls : rpc[d] = "connecting"}
            /\ delivered \subseteq {d \in Calls : rpc[d] \in Answers}
            /\ stray \in [Calls -> {"no", "connecting", "sent"}]
            /\ rpc' = [d \in Calls |->
                  IF rpc[d] = "none" \/ d \in delivered THEN rpc[d] ELSE "ERROR"]
        BY <1>2 DEF IInv, TypeOK, BridgeStop
      <3>2. \A d \in running : rpc[d] = "connecting" /\ d \notin delivered
        BY <3>1 DEF Answers, Statuses
      <3> QED  BY <3>1, <3>2
    <2>3. TypeOK'
      <3>1. /\ UNCHANGED <<connected_devices, infos, gatewayKnown>>
            /\ bridgeUp' = FALSE /\ faults' = faults + 1 /\ TypeOK
        BY <1>2 DEF IInv, BridgeStop, Fault
      <3>2. faults \in Nat
        BY <3>1 DEF TypeOK
      <3>3. rpc' \in [Calls -> {"none", "lost", "queued", "connecting", "reading"} \cup Answers]
        BY <2>2
      <3>4. bridgeUp' \in BOOLEAN
        BY <3>1
      <3>5. faults' \in Nat
        BY <3>1, <3>2
      <3> QED  BY <2>1, <2>7, <3>1, <3>3, <3>4, <3>5 DEF TypeOK
    <2>4. ASSUME NEW d \in Calls PROVE CallOK(d)'
      <3>1. CallOK(d) /\ (rpc'[d] = rpc[d] \/ (rpc[d] # "none" /\ rpc'[d] = "ERROR"))
        BY <2>2 DEF IInv
      <3>2. \/ stray'[d] = stray[d]
            \/ rpc[d] = "connecting" /\ rpc'[d] = "ERROR"
        BY <2>7
      <3>3. rpc[d] = "connecting" => /\ calls[d].pc = "waiting" /\ Device(d) \in Actuators
                                     /\ handler[d].pc = "none" /\ d \notin executed
        BY <3>1 DEF CallOK, Early
      <3> QED
        BY <2>1, <3>1, <3>2, <3>3
           DEF CallOK, Begun, Carried, Device, Command, Early, Statuses
    <2>5. Onward
      BY <2>1, <2>2, <2>7 DEF Onward, Begun, Finished, Device, Early
    <2>6. QueueOK'
      BY <2>1, <2>3, <2>5, QueueUntouched DEF IInv
    <2> QED  BY <2>3, <2>4, <2>6 DEF IInv
  <1> QED  BY <1>1, <1>2

-----------------------------------------------------------------------------
(* The relays                                                              *)

\* The worker of a call that still waits has an answer: one its client's call
\* has seen, if the relay has carried the command out.
LEMMA Answered ==
    ASSUME TypeOK, relay' \in [Actuators -> Statuses], NEW c \in Calls,
           Device(c) \in Actuators, Respond(c)
    PROVE  /\ rpc' \in [Calls -> {"none", "lost", "queued", "connecting", "reading"} \cup Answers]
           /\ \A d \in Calls \ {c} : rpc'[d] = rpc[d]
           /\ rpc[c] # "reading" => rpc'[c] = rpc[c]
           /\ rpc[c] = "reading" =>
                 rpc'[c] = AnswerTo(Command(c), relay'[Device(c)]) /\ rpc'[c] \in Statuses
           /\ rpc'[c] \notin Early \/ rpc[c] \in Early
  <1>1. AnswerTo(Command(c), relay'[Device(c)]) \in Statuses
    BY DEF AnswerTo, Statuses
  <1>2. AnswerTo(Command(c), relay'[Device(c)]) \in Answers
    BY <1>1 DEF Answers
  <1> HIDE DEF AnswerTo
  <1>3. rpc' = IF rpc[c] = "reading"
               THEN [rpc EXCEPT ![c] = AnswerTo(Command(c), relay'[Device(c)])]
               ELSE rpc
    BY DEF Respond
  <1> QED  BY <1>1, <1>2, <1>3 DEF TypeOK, Early, Statuses

\* A command leaves a board in one of its states.
LEMMA StatusAfterType ==
    ASSUME TypeOK, NEW a \in Actuators, NEW t
    PROVE  StatusAfter(a, t) \in Statuses
  BY DEF TypeOK, StatusAfter, Statuses

\* The oldest connection leaves a board's queue.
LEMMA Popped ==
    ASSUME TypeOK, QueueOK, NEW a \in Actuators, NEW c \in Calls, NextConnection(a, c)
    PROVE  /\ backlog' \in [Actuators -> Seq(Calls)]
           /\ Shorter
           /\ a \in boards /\ Device(c) = a /\ Begun(c)
           /\ rpc[c] \notin Early /\ c \notin executed /\ stray[c] # "connecting"
           /\ \A b \in Actuators : \A i \in 1 .. Len(backlog'[b]) :
                 /\ backlog'[b][i] # c
                 /\ b = a /\ stray[backlog'[b][i]] = "no" => backlog'[b][i] \notin before[c]
  <1>1. /\ backlog[a] \in Seq(Calls) /\ backlog[a] # << >> /\ c = Head(backlog[a])
        /\ backlog' = [backlog EXCEPT ![a] = Tail(backlog[a])]
        /\ a \in boards
    BY DEF NextConnection, TypeOK
  <1>2. /\ backlog' \in [Actuators -> Seq(Calls)]
        /\ backlog'[a] = Tail(backlog[a])
        /\ \A b \in Actuators \ {a} : backlog'[b] = backlog[b]
    BY <1>1 DEF TypeOK
  <1>3. /\ Len(backlog[a]) \in Nat /\ Len(backlog[a]) >= 1
        /\ c = backlog[a][1] /\ Len(backlog'[a]) = Len(backlog[a]) - 1
        /\ \A i \in 1 .. Len(backlog[a]) - 1 : backlog'[a][i] = backlog[a][i + 1]
    BY <1>1, <1>2
  <1>4. 1 \in Positions(a)
    BY <1>3 DEF Positions
  <1>5. /\ Device(c) = a /\ Begun(c) /\ rpc[c] \notin Early /\ c \notin executed
        /\ stray[c] # "connecting"
    BY <1>3, <1>4 DEF QueueOK, QueuedOK
  <1>6. \A i \in 1 .. Len(backlog'[a]) :
           i \in Nat /\ i >= 1 /\ i + 1 \in Positions(a) /\ backlog'[a][i] = backlog[a][i + 1]
    BY <1>3 DEF Positions
  <1>7. Shorter
    <2> SUFFICES ASSUME NEW b \in Actuators
                 PROVE  \E k \in Nat : \A i \in 1 .. Len(backlog'[b]) :
                           i + k \in Positions(b) /\ backlog'[b][i] = backlog[b][i + k]
      BY DEF Shorter
    <2>1. CASE b = a
      BY <1>6, <2>1
    <2>2. CASE b # a
      <3>1. backlog'[b] = backlog[b] /\ Len(backlog[b]) \in Nat
        BY <1>2, <2>2 DEF TypeOK
      <3>2. \A i \in 1 .. Len(backlog'[b]) :
               i + 0 \in Positions(b) /\ backlog'[b][i] = backlog[b][i + 0]
        BY <3>1 DEF Positions
      <3> QED  BY <3>2
    <2> QED  BY <2>1, <2>2
  <1>8. ASSUME NEW b \in Actuators, NEW i \in 1 .. Len(backlog'[b])
        PROVE  /\ backlog'[b][i] # c
               /\ b = a /\ stray[backlog'[b][i]] = "no" => backlog'[b][i] \notin before[c]
    <2>1. CASE b = a
      <3>1. /\ backlog[a][i + 1] = backlog[a][1] => i + 1 = 1
            /\ stray[backlog[a][i + 1]] = "no" /\ backlog[a][i + 1] \in before[backlog[a][1]]
                  => i + 1 < 1
        BY <1>4, <1>6, <2>1 DEF QueueOK, InOrder
      <3>2. i \in Nat /\ i >= 1 /\ backlog'[a][i] = backlog[a][i + 1]
        BY <1>6, <2>1
      <3>3. i + 1 # 1 /\ ~(i + 1 < 1)
        BY <3>2
      <3> QED  BY <1>3, <2>1, <3>1, <3>2, <3>3
    <2>2. CASE b # a
      <3>1. backlog'[b] = backlog[b]
        BY <1>2, <2>2
      <3>2. Device(backlog[b][i]) = b
        BY <3>1 DEF QueueOK, QueuedOK, Positions
      <3> QED  BY <1>5, <2>2, <3>1, <3>2
    <2> QED  BY <2>1, <2>2
  <1> QED  BY <1>1, <1>2, <1>5, <1>7, <1>8

\* A relay board carries out the oldest command of its backlog.
LEMMA BoardCommandInv ==
    ASSUME IInv, NEW a \in Actuators, NEW c \in Calls, BoardCommand(a, c)
    PROVE  IInv'
  <1> USE DEF gatewayVars, bridgeVars, relayVars, boundVars
  <1> DEFINE st == StatusAfter(a, Command(c))
  <1>0. TypeOK /\ QueueOK /\ CallOK(c)
    BY DEF IInv
  <1>1. /\ NextConnection(a, c) /\ Switch(a, st) /\ Respond(c)
        /\ executed' = executed \cup {c}
        /\ UNCHANGED <<boards, calls, handler, before, stray, gatewayKnown, faults>>
        /\ UNCHANGED <<connected_devices, infos, bridgeUp>>
    BY DEF BoardCommand
  <1>2. st \in Statuses
    BY <1>0, StatusAfterType
  <1> HIDE DEF st
  <1>3. /\ relay' \in [Actuators -> Statuses]
        /\ held' \in [Calls -> SUBSET Statuses]
        /\ relay'[a] = st
        /\ \A d \in Calls :
              /\ held[d] \subseteq held'[d]
              /\ Device(d) = a /\ ~Finished(d) => st \in held'[d]
              /\ Device(d) \in Actuators /\ ~Finished(d) /\ relay[Device(d)] \in held[d]
                    => relay'[Device(d)] \in held'[d]
    BY <1>0, <1>1, <1>2, Switched
  <1>4. /\ backlog' \in [Actuators -> Seq(Calls)] /\ Shorter
        /\ a \in boards /\ Device(c) = a /\ Begun(c)
        /\ rpc[c] \notin Early /\ c \notin executed /\ stray[c] # "connecting"
        /\ \A b \in Actuators : \A i \in 1 .. Len(backlog'[b]) :
              /\ backlog'[b][i] # c
              /\ b = a /\ stray[backlog'[b][i]] = "no" => backlog'[b][i] \notin before[c]
    BY <1>0, <1>1, Popped
  <1>5. /\ rpc' \in [Calls -> {"none", "lost", "queued", "connecting", "reading"} \cup Answers]
        /\ \A d \in Calls \ {c} : rpc'[d] = rpc[d]
        /\ rpc[c] # "reading" => rpc'[c] = rpc[c]
        /\ rpc[c] = "reading" => rpc'[c] = AnswerTo(Command(c), st) /\ rpc'[c] \in Statuses
        /\ rpc'[c] \notin Early
    BY <1>0, <1>1, <1>3, <1>4, Answered
  <1>6. TypeOK'
    BY <1>0, <1>1, <1>3, <1>4, <1>5 DEF TypeOK
  <1>7. CallOK(c)'
    <2>1. CASE rpc[c] = "reading"
      <3>1. calls[c].pc = "waiting" /\ st \in held'[c]
        BY <1>0, <1>3, <1>4, <2>1 DEF CallOK, Finished
      <3>2. /\ Command(c) = "TURN_ON" => st = "ON"
            /\ Command(c) = "TURN_OFF" => st = "OFF"
            /\ Command(c) \notin {"TURN_ON", "TURN_OFF"} => AnswerTo(Command(c), st) = st
        BY DEF st, StatusAfter, AnswerTo
      <3>3. rpc'[c] = st
        BY <1>5, <2>1, <3>2 DEF AnswerTo
      <3>4. Carried(c)' /\ calls'[c] = calls[c] /\ handler'[c] = handler[c]
        BY <1>1, <3>1, <3>2 DEF Carried, Command
      <3>5. relay'[a] \in held'[c] /\ handler[c].pc = "none"
        BY <1>0, <1>3, <1>4, <3>1 DEF CallOK
      <3> QED
        BY <1>0, <1>1, <1>2, <1>4, <1>5, <3>1, <3>3, <3>4, <3>5
        DEF CallOK, Begun, Device, Statuses, Early
    <2>2. CASE rpc[c] # "reading"
      <3>1. rpc'[c] = rpc[c] /\ calls'[c] = calls[c] /\ handler'[c] = handler[c]
        BY <1>1, <1>5, <2>2
      <3>2. Carried(c) => Carried(c)'
        BY <1>3, <3>1 DEF Carried, Command
      <3>3. calls[c].pc = "waiting" => relay'[a] \in held'[c]
        BY <1>3, <1>4 DEF Finished
      <3> QED
        BY <1>0, <1>1, <1>3, <1>4, <3>1, <3>2, <3>3 DEF CallOK, Begun, Device, Early
    <2> QED  BY <2>1, <2>2
  <1>8. ASSUME NEW d \in Calls, d # c PROVE CallOK(d)'
    <2>1. CallOK(d) /\ rpc'[d] = rpc[d]
      BY <1>5, <1>8 DEF IInv
    <2>2. calls[d].pc \in {"found", "waiting"} => relay'[Device(d)] \in held'[d]
      BY <1>3, <2>1 DEF CallOK, Finished
    <2> QED  BY <1>1, <1>3, <1>8, <2>1, <2>2, BystanderOK DEF Bystander
  <1>9. Onward
    BY <1>1, <1>5 DEF Onward, Begun, Finished, Device
  <1>10. Unqueued
    BY <1>1, <1>4 DEF Unqueued
  <1>11. QueueOK'
    BY <1>0, <1>1, <1>4, <1>6, <1>9, <1>10, QueueKept DEF IInv
  <1> QED  BY <1>6, <1>7, <1>8, <1>11 DEF IInv

\* A relay board drops the oldest connection of its backlog.
LEMMA BoardDropInv ==
    ASSUME IInv, NEW a \in Actuators, NEW c \in Calls, BoardDrop(a, c)
    PROVE  IInv'
  <1> USE DEF gatewayVars, bridgeVars, relayVars, boundVars
  <1>1. backlog' \in [Actuators -> Seq(Calls)] /\ Shorter
    BY Popped DEF IInv, BoardDrop
  <1>2. TypeOK'
    BY <1>1 DEF IInv, TypeOK, BoardDrop
  <1>3. \A d \in Calls : CallOK(d)'
    BY BystanderOK DEF IInv, Bystander, CallOK, BoardDrop
  <1>4. Onward /\ Unqueued
    BY DEF Onward, Begun, Finished, Device, Unqueued, BoardDrop
  <1>5. QueueOK'
    BY <1>1, <1>2, <1>4, QueueKept DEF IInv, BoardDrop
  <1> QED  BY <1>2, <1>3, <1>5 DEF IInv

\* A thread of the Java relay goes on.
JavaFrame(c) ==
    /\ UNCHANGED <<boards, calls, backlog, before, stray>>
    /\ executed' = executed \/ executed' = executed \cup {c}
    /\ \A d \in Calls \ {c} :
          rpc'[d] = rpc[d] /\ handler'[d] = handler[d] /\ held[d] \subseteq held'[d]
    /\ \A d \in Calls :
          relay[Device(d)] \in held[d] /\ Device(d) \in Actuators /\ ~Finished(d)
             => relay'[Device(d)] \in held'[d]
    /\ rpc'[c] \notin Early \/ rpc[c] \in Early

\* A step of a handler of the Java relay touches its own call only.
LEMMA JavaMoves ==
    ASSUME IInv, TypeOK', NEW c \in Calls, handler[c].pc # "none",
           JavaFrame(c), CallOK(c)'
    PROVE  IInv'
  <1>0. TypeOK /\ QueueOK /\ CallOK(c) /\ UNCHANGED <<boards, calls, backlog, before, stray>>
    BY DEF IInv, JavaFrame
  <1>1. Begun(c) /\ rpc[c] \notin Early /\ Device(c) \notin boards
    BY <1>0 DEF CallOK
  <1>2. ASSUME NEW d \in Calls, d # c PROVE CallOK(d)'
    <2>1. CallOK(d) /\ (d \in executed' <=> d \in executed)
      BY <1>2 DEF IInv, JavaFrame
    <2>2. calls[d].pc \in {"found", "waiting"} => relay'[Device(d)] \in held'[d]
      BY <2>1 DEF CallOK, Finished, JavaFrame
    <2> QED  BY <1>0, <1>2, <2>1, <2>2, BystanderOK DEF Bystander, JavaFrame
  <1>3. Onward
    BY <1>0, <1>1 DEF Onward, Begun, Finished, Device, JavaFrame
  <1>4. Shorter
    <2> SUFFICES ASSUME NEW a \in Actuators
                 PROVE  \A i \in 1 .. Len(backlog[a]) :
                            i + 0 \in Positions(a) /\ backlog[a][i] = backlog[a][i + 0]
      BY <1>0 DEF Shorter
    <2>1. Len(backlog[a]) \in Nat
      BY <1>0 DEF TypeOK
    <2> QED  BY <2>1 DEF Positions
  <1>5. Unqueued
    <2> SUFFICES ASSUME NEW a \in Actuators, NEW i \in Positions(a)
                 PROVE  backlog[a][i] # c /\ Device(c) # a
      BY <1>0, <1>1 DEF Unqueued, Positions, JavaFrame
    <2>1. a \in boards /\ Device(backlog[a][i]) = a
      BY <1>0 DEF QueueOK, QueuedOK
    <2> QED  BY <1>1, <2>1
  <1>6. QueueOK'
    BY <1>0, <1>3, <1>4, <1>5, QueueKept DEF IInv
  <1> QED  BY <1>2, <1>6 DEF IInv

\* The place of a relay's thread, after it has gone on.
LEMMA HandlerAt ==
    ASSUME TypeOK, NEW c \in Calls, NEW h \in Handlers,
           handler' = [handler EXCEPT ![c] = h]
    PROVE  /\ handler' \in [Calls -> Handlers]
           /\ handler'[c] = h
           /\ \A d \in Calls \ {c} : handler'[d] = handler[d]
  BY DEF TypeOK

\* A handler of the Java relay goes on to its next step.
LEMMA HandlerGoes ==
    ASSUME TypeOK, NEW c \in Calls, NEW from, NEW to \in {"set", "compare", "respond"},
           HandlerStep(c, from, to)
    PROVE  /\ handler' \in [Calls -> Handlers]
           /\ handler'[c].pc = to
           /\ \A d \in Calls \ {c} : handler'[d] = handler[d]
           /\ UNCHANGED <<gatewayKnown, backlog>>
  BY DEF TypeOK, Handlers, HandlerStep

\* The handler keeps the status from before.
LEMMA ReadOldStatusInv ==
    ASSUME IInv, NEW c \in Calls, ReadOldStatus(c)
    PROVE  IInv'
  <1> USE DEF gatewayVars, bridgeVars, relayVars, boundVars
  <1> DEFINE h == [pc |-> "test", oldStatus |-> relay[Device(c)]]
  <1>0. TypeOK /\ CallOK(c) /\ Device(c) \in Actuators
    BY DEF IInv, CallOK, ReadOldStatus
  <1>1. h \in Handlers /\ h.pc = "test" /\ handler' = [handler EXCEPT ![c] = h]
    BY <1>0 DEF TypeOK, Handlers, ReadOldStatus
  <1> HIDE DEF h
  <1>2. /\ handler' \in [Calls -> Handlers] /\ handler'[c].pc = "test"
        /\ \A d \in Calls \ {c} : handler'[d] = handler[d]
    BY <1>0, <1>1, HandlerAt
  <1>3. TypeOK'
    BY <1>0, <1>2 DEF TypeOK, ReadOldStatus
  <1>4. JavaFrame(c)
    BY <1>2 DEF JavaFrame, ReadOldStatus
  <1>5. CallOK(c)'
    BY <1>0, <1>2 DEF CallOK, Begun, Device, Carried, Command, ReadOldStatus
  <1> QED  BY <1>3, <1>4, <1>5, JavaMoves DEF ReadOldStatus

\* The handler decides whether the command changes anything.
LEMMA TestStatusInv ==
    ASSUME IInv, NEW c \in Calls, TestStatus(c)
    PROVE  IInv'
  <1> USE DEF gatewayVars, bridgeVars, relayVars, boundVars
  <1> DEFINE ch == Changes(Command(c), relay[Device(c)])
             to == IF ch THEN "set" ELSE "compare"
  <1>0. TypeOK /\ CallOK(c) /\ Device(c) \in Actuators /\ handler[c].pc = "test"
    BY DEF IInv, CallOK, TestStatus, HandlerStep
  <1>1. to \in {"set", "compare", "respond"} /\ HandlerStep(c, "test", to)
        /\ executed' = IF ch THEN executed ELSE executed \cup {c}
    BY DEF TestStatus
  <1>2. ~ch => (Command(c) = "TURN_ON" => relay[Device(c)] = "ON")
               /\ (Command(c) = "TURN_OFF" => relay[Device(c)] = "OFF")
    BY <1>0 DEF TypeOK, Statuses, Changes
  <1>3. /\ handler' \in [Calls -> Handlers] /\ handler'[c].pc = to
        /\ \A d \in Calls \ {c} : handler'[d] = handler[d]
        /\ UNCHANGED <<gatewayKnown, backlog>>
    <2> HIDE DEF to
    <2> QED  BY <1>0, <1>1, HandlerGoes
  <1> HIDE DEF ch
  <1>4. TypeOK'
    BY <1>0, <1>1, <1>3 DEF TypeOK, TestStatus
  <1>5. JavaFrame(c)
    BY <1>1, <1>3 DEF JavaFrame, TestStatus
  <1>6. CallOK(c)'
    BY <1>0, <1>1, <1>2, <1>3 DEF CallOK, Begun, Device, Carried, Command, TestStatus
  <1> QED  BY <1>0, <1>4, <1>5, <1>6, JavaMoves

\* The handler sets the status.
LEMMA SetStatusInv ==
    ASSUME IInv, NEW c \in Calls, SetStatus(c)
    PROVE  IInv'
  <1> USE DEF gatewayVars, bridgeVars, relayVars, boundVars
  <1> DEFINE a == Device(c)
             st == StatusAfter(a, Command(c))
  <1>0. TypeOK /\ CallOK(c) /\ a \in Actuators /\ handler[c].pc = "set"
        /\ Begun(c) /\ rpc[c] \notin Early
    BY DEF IInv, CallOK, SetStatus, HandlerStep
  <1>1. /\ Switch(a, st) /\ HandlerStep(c, "set", "compare")
        /\ executed' = executed \cup {c}
        /\ UNCHANGED <<boards, calls, rpc, before, stray, faults>>
        /\ UNCHANGED <<connected_devices, infos, bridgeUp>>
    BY DEF SetStatus
  <1>2. st \in Statuses
    BY <1>0, StatusAfterType
  <1>3. /\ Command(c) = "TURN_ON" => st = "ON"
        /\ Command(c) = "TURN_OFF" => st = "OFF"
    BY DEF StatusAfter
  <1> HIDE DEF st
  <1>4. /\ relay' \in [Actuators -> Statuses]
        /\ held' \in [Calls -> SUBSET Statuses]
        /\ relay'[a] = st
        /\ \A d \in Calls :
              /\ held[d] \subseteq held'[d]
              /\ Device(d) = a /\ ~Finished(d) => st \in held'[d]
              /\ Device(d) \in Actuators /\ ~Finished(d) /\ relay[Device(d)] \in held[d]
                    => relay'[Device(d)] \in held'[d]
    BY <1>0, <1>1, <1>2, Switched
  <1>5. /\ handler' \in [Calls -> Handlers] /\ handler'[c].pc = "compare"
        /\ \A d \in Calls \ {c} : handler'[d] = handler[d]
        /\ UNCHANGED <<gatewayKnown, backlog>>
    BY <1>0, <1>1, HandlerGoes
  <1>6. TypeOK'
    BY <1>0, <1>1, <1>4, <1>5 DEF TypeOK
  <1>7. JavaFrame(c)
    BY <1>1, <1>4, <1>5 DEF JavaFrame
  <1>8. CallOK(c)'
    <2>1. calls[c].pc = "waiting" => st \in held'[c]
      BY <1>4 DEF Finished
    <2>2. Carried(c) => Carried(c)'
      BY <1>1, <1>4 DEF Carried, Command
    <2>3. calls[c].pc = "waiting" => Carried(c)'
      BY <1>1, <1>3, <2>1 DEF Carried, Command
    <2> QED
      BY <1>0, <1>1, <1>4, <1>5, <2>1, <2>2, <2>3 DEF CallOK, Begun, Device
  <1> QED  BY <1>0, <1>6, <1>7, <1>8, JavaMoves

\* The handler compares the status with the one from before.
LEMMA CompareStatusInv ==
    ASSUME IInv, NEW c \in Calls, CompareStatus(c)
    PROVE  IInv'
  <1> USE DEF gatewayVars, bridgeVars, relayVars, boundVars
  <1> DEFINE p == IF relay[Device(c)] # handler[c].oldStatus THEN "announce" ELSE "respond"
             h == [NoHandler EXCEPT !.pc = p]
  <1>0. TypeOK /\ CallOK(c) /\ handler[c].pc = "compare"
    BY DEF IInv, CompareStatus
  <1>1. handler' = [handler EXCEPT ![c] = h] /\ p \in {"announce", "respond"}
    BY DEF CompareStatus
  <1> HIDE DEF p
  <1>2. h \in Handlers /\ h.pc = p
    BY <1>1 DEF Handlers, NoHandler, Statuses
  <1> HIDE DEF h
  <1>3. /\ handler' \in [Calls -> Handlers] /\ handler'[c].pc = p
        /\ \A d \in Calls \ {c} : handler'[d] = handler[d]
    BY <1>0, <1>1, <1>2, HandlerAt
  <1>4. TypeOK'
    BY <1>0, <1>3 DEF TypeOK, CompareStatus
  <1>5. JavaFrame(c)
    BY <1>3 DEF JavaFrame, CompareStatus
  <1>6. CallOK(c)'
    BY <1>0, <1>1, <1>3 DEF CallOK, Begun, Device, Carried, Command, CompareStatus
  <1> QED  BY <1>0, <1>4, <1>5, <1>6, JavaMoves

\* The handler tells the gateway of the change.
LEMMA AnnounceChangeInv ==
    ASSUME IInv, NEW c \in Calls, NEW sent \in BOOLEAN, AnnounceChange(c, sent)
    PROVE  IInv'
  <1> USE DEF gatewayVars, bridgeVars, relayVars, boundVars
  <1>0. TypeOK /\ CallOK(c) /\ handler[c].pc = "announce" /\ Device(c) \in Actuators
        /\ HandlerStep(c, "announce", "respond")
    BY DEF IInv, CallOK, AnnounceChange, HandlerStep
  <1>1. /\ handler' \in [Calls -> Handlers] /\ handler'[c].pc = "respond"
        /\ \A d \in Calls \ {c} : handler'[d] = handler[d]
        /\ UNCHANGED <<gatewayKnown, backlog>>
    BY <1>0, HandlerGoes
  <1>2. infos' \in [Actuators -> [Statuses -> 0 .. MaxInfos]]
    BY <1>0, InfosType DEF AnnounceChange
  <1>3. TypeOK'
    BY <1>0, <1>1, <1>2 DEF TypeOK, AnnounceChange
  <1>4. JavaFrame(c)
    BY <1>1 DEF JavaFrame, AnnounceChange
  <1>5. CallOK(c)'
    BY <1>0, <1>1 DEF CallOK, Begun, Device, Carried, Command, AnnounceChange
  <1> QED  BY <1>0, <1>3, <1>4, <1>5, JavaMoves

\* The handler answers the bridge.
LEMMA JavaRespondInv ==
    ASSUME IInv, NEW c \in Calls, JavaRespond(c)
    PROVE  IInv'
  <1> USE DEF gatewayVars, bridgeVars, relayVars, boundVars
  <1>0. /\ TypeOK /\ CallOK(c) /\ handler[c].pc = "respond" /\ Respond(c)
        /\ Device(c) \in Actuators /\ rpc[c] \notin Early /\ c \in executed /\ Begun(c)
        /\ handler' = [handler EXCEPT ![c] = NoHandler]
        /\ UNCHANGED <<boards, calls, relay, gatewayKnown, backlog, executed, held>>
        /\ UNCHANGED <<before, stray, faults, connected_devices, infos, bridgeUp>>
    BY DEF IInv, CallOK, JavaRespond
  <1>1. NoHandler \in Handlers /\ NoHandler.pc = "none"
    BY DEF Handlers, NoHandler, Statuses
  <1>2. /\ handler' \in [Calls -> Handlers] /\ handler'[c].pc = "none"
        /\ \A d \in Calls \ {c} : handler'[d] = handler[d]
    BY <1>0, <1>1, HandlerAt
  <1>3. relay' \in [Actuators -> Statuses]
    BY <1>0 DEF TypeOK
  <1>4. /\ rpc' \in [Calls -> {"none", "lost", "queued", "connecting", "reading"} \cup Answers]
        /\ \A d \in Calls \ {c} : rpc'[d] = rpc[d]
        /\ rpc[c] # "reading" => rpc'[c] = rpc[c]
        /\ rpc[c] = "reading" =>
              rpc'[c] = AnswerTo(Command(c), relay[Device(c)]) /\ rpc'[c] \in Statuses
        /\ rpc'[c] \notin Early
    BY <1>0, <1>3, Answered
  <1>5. TypeOK'
    BY <1>0, <1>2, <1>3, <1>4 DEF TypeOK
  <1>6. JavaFrame(c)
    BY <1>0, <1>2, <1>4 DEF JavaFrame
  <1>7. CallOK(c)'
    <2>1. CASE rpc[c] = "reading"
      <3>1. calls[c].pc = "waiting" /\ Carried(c) /\ relay[Device(c)] \in held[c]
        BY <1>0, <2>1 DEF CallOK
      <3>2. AnswerTo(Command(c), relay[Device(c)]) \in held[c]
        BY <3>1 DEF AnswerTo, Carried
      <3> QED
        BY <1>0, <1>2, <1>4, <2>1, <3>1, <3>2
        DEF CallOK, Begun, Device, Carried, Command, Statuses
    <2>2. CASE rpc[c] # "reading"
      BY <1>0, <1>2, <1>4, <2>2 DEF CallOK, Begun, Device, Carried, Command
    <2> QED  BY <2>1, <2>2
  <1> QED  BY <1>0, <1>5, <1>6, <1>7, JavaMoves

\* A board starts again: its state and its backlog are lost.
LEMMA RelayRestartInv ==
    ASSUME IInv, NEW a \in Actuators, RelayRestart(a)
    PROVE  IInv'
  <1> USE DEF gatewayVars, bridgeVars, relayVars, boundVars
  <1>0. /\ TypeOK /\ QueueOK /\ Switch(a, "OFF") /\ "OFF" \in Statuses
        /\ backlog' = [backlog EXCEPT ![a] = << >>]
        /\ gatewayKnown' = [gatewayKnown EXCEPT ![a] = FALSE]
        /\ handler' = [c \in Calls |-> IF Device(c) = a THEN NoHandler ELSE handler[c]]
        /\ UNCHANGED <<boards, calls, rpc, executed, before, stray>>
        /\ UNCHANGED <<connected_devices, infos, bridgeUp>>
        /\ faults' = faults + 1
    BY DEF IInv, RelayRestart, Fault, Statuses
  <1>1. /\ relay' \in [Actuators -> Statuses]
        /\ held' \in [Calls -> SUBSET Statuses]
        /\ relay'[a] = "OFF"
        /\ \A d \in Calls :
              /\ held[d] \subseteq held'[d]
              /\ Device(d) = a /\ ~Finished(d) => "OFF" \in held'[d]
              /\ Device(d) \in Actuators /\ ~Finished(d) /\ relay[Device(d)] \in held[d]
                    => relay'[Device(d)] \in held'[d]
    BY <1>0, Switched
  <1>2. /\ backlog' \in [Actuators -> Seq(Calls)] /\ backlog'[a] = << >>
        /\ \A b \in Actuators \ {a} : backlog'[b] = backlog[b]
    BY <1>0 DEF TypeOK
  <1>3. /\ handler' \in [Calls -> Handlers]
        /\ \A d \in Calls : handler'[d] = handler[d] \/ handler'[d].pc = "none"
    <2>1. NoHandler \in Handlers /\ NoHandler.pc = "none"
      BY DEF Handlers, NoHandler, Statuses
    <2> QED  BY <1>0, <2>1 DEF TypeOK
  <1>4. TypeOK'
    <2>1. gatewayKnown' \in [Actuators -> BOOLEAN] /\ faults' \in Nat
      BY <1>0 DEF TypeOK
    <2> QED  BY <1>0, <1>1, <1>2, <1>3, <2>1 DEF TypeOK
  <1>5. ASSUME NEW d \in Calls PROVE CallOK(d)'
    <2>1. CallOK(d) /\ held[d] \subseteq held'[d]
      BY <1>1 DEF IInv
    <2>2. calls[d].pc \in {"found", "waiting"} => relay'[Device(d)] \in held'[d]
      BY <1>1, <2>1 DEF CallOK, Finished
    <2>3. handler'[d] = handler[d] \/ handler'[d].pc = "none"
      BY <1>3
    <2>4. Carried(d) => Carried(d)'
      BY <1>0, <2>1 DEF Carried, Command
    <2> QED  BY <1>0, <2>1, <2>2, <2>3, <2>4 DEF CallOK, Begun, Device
  <1>6. Onward
    BY <1>0 DEF Onward, Begun, Finished, Device
  <1>7. Shorter
    <2> SUFFICES ASSUME NEW b \in Actuators
                 PROVE  \A i \in 1 .. Len(backlog'[b]) :
                            i + 0 \in Positions(b) /\ backlog'[b][i] = backlog[b][i + 0]
      BY DEF Shorter
    <2>1. CASE b = a
      BY <1>2, <2>1
    <2>2. CASE b # a
      <3>1. backlog'[b] = backlog[b] /\ Len(backlog[b]) \in Nat
        BY <1>0, <1>2, <2>2 DEF TypeOK
      <3> QED  BY <3>1 DEF Positions
    <2> QED  BY <2>1, <2>2
  <1>8. Unqueued
    BY <1>0 DEF Unqueued
  <1>9. QueueOK'
    BY <1>0, <1>4, <1>6, <1>7, <1>8, QueueKept DEF IInv
  <1> QED  BY <1>4, <1>5, <1>9 DEF IInv

-----------------------------------------------------------------------------
(* The theorems                                                            *)

\* Every step keeps the inductive invariant.
LEMMA NextInv == IInv /\ [Next]_vars => IInv'
  <1> SUFFICES ASSUME IInv, [Next]_vars PROVE IInv'
    OBVIOUS
  <1>1. CASE UNCHANGED vars
    <2>1. TypeOK'
      BY <1>1 DEF IInv, TypeOK, vars, gatewayVars, bridgeVars, relayVars, boundVars
    <2> QED
      BY <1>1, <2>1, RegistryMoves DEF vars, gatewayVars, bridgeVars, relayVars, boundVars
  <1>2. ASSUME NEW a \in Actuators, NEW st \in Statuses, RegisterDevice(a, st)
        PROVE  IInv'
    <2>1. TRUE \in BOOLEAN
      OBVIOUS
    <2> QED  BY <1>2, <2>1, RegistryInv
  <1>3. ASSUME NEW a \in Actuators, NEW sent \in BOOLEAN,
               RemoveOffline(a) \/ Discover(a, sent) \/ Renew(a)
        PROVE  IInv'
    <2>1. "ON" \in Statuses
      BY DEF Statuses
    <2> QED  BY <1>3, <2>1, RegistryInv
  <1>4. ASSUME NEW c \in Calls, NEW a \in Actuators, SendToUnknown(c, a)
        PROVE  IInv'
    BY <1>4, SendToUnknownInv
  <1>5. ASSUME NEW c \in Calls, NEW a \in Actuators, NEW t \in Requests, FindDevice(c, a, t)
        PROVE  IInv'
    BY <1>5, FindDeviceInv
  <1>6. ASSUME NEW c \in Calls, CallBridge(c) \/ FinishCall(c)
        PROVE  IInv'
    BY <1>6, CallBridgeInv, FinishCallInv
  <1>7. ASSUME NEW c \in Calls, StartWorker(c) \/ Connect(c) \/ GiveUp(c) \/ StrayConnect(c)
        PROVE  IInv'
    BY <1>7, WorkerInv, ConnectInv, StrayConnectInv
  <1>8. CASE BridgeStart \/ \E delivered, running \in SUBSET Calls :
                                BridgeStop(delivered, running)
    BY <1>8, BridgeInv
  <1>9. ASSUME NEW a \in Actuators, NEW c \in Calls, BoardCommand(a, c) \/ BoardDrop(a, c)
        PROVE  IInv'
    BY <1>9, BoardCommandInv, BoardDropInv
  <1>10. ASSUME NEW c \in Calls, JavaStep(c)
         PROVE  IInv'
    BY <1>10, ReadOldStatusInv, TestStatusInv, SetStatusInv, CompareStatusInv,
       AnnounceChangeInv, JavaRespondInv DEF JavaStep
  <1>11. ASSUME NEW a \in Actuators, RelayRestart(a)
         PROVE  IInv'
    BY <1>11, RelayRestartInv
  <1> QED
    BY <1>1, <1>2, <1>3, <1>4, <1>5, <1>6, <1>7, <1>8, <1>9, <1>10, <1>11
    DEF Next, JavaStep

\* The inductive invariant holds in every reachable state.
THEOREM Invariance == Spec => []IInv
  <1> QED  BY InitInv, NextInv, PTL DEF Spec

\* The variables keep their types.
THEOREM TypeCorrect == Spec => []TypeOK
  <1>1. IInv => TypeOK
    BY DEF IInv
  <1> QED  BY <1>1, Invariance, PTL

\* What a successful call tells its client was true of the relay at some
\* moment while the call was open.
THEOREM AnswersWereTrue == Spec => []AnswerWasTrue
  <1>1. IInv => AnswerWasTrue
    BY DEF IInv, CallOK, Carried, AnswerWasTrue
  <1> QED  BY <1>1, Invariance, PTL

\* A command is carried out by the board at the head of whose queue it was, or
\* by a thread of the Java relay; other steps carry out nothing.
CarriesOut ==
    \/ executed' = executed
    \/ \E a \in Actuators, c \in Calls : NextConnection(a, c) /\ executed' = executed \cup {c}
    \/ \E c \in Calls : handler[c].pc # "none" /\ executed' = executed \cup {c}

\* Every step carries out commands as CarriesOut says.
LEMMA NextCarriesOut == [Next]_vars => CarriesOut
  <1> SUFFICES ASSUME [Next]_vars PROVE CarriesOut
    OBVIOUS
  <1>1. ASSUME NEW a \in Actuators, NEW c \in Calls, BoardCommand(a, c) PROVE CarriesOut
    BY <1>1 DEF CarriesOut, BoardCommand
  <1>2. ASSUME NEW c \in Calls, TestStatus(c) \/ SetStatus(c) PROVE CarriesOut
    BY <1>2 DEF CarriesOut, TestStatus, SetStatus, HandlerStep
  <1>3. CASE executed' = executed
    BY <1>3 DEF CarriesOut
  <1> QED
    BY <1>1, <1>2, <1>3
    DEF Next, vars, gatewayVars, bridgeVars, relayVars, boundVars,
        RegisterDevice, RemoveOffline, Discover, Renew, SendToUnknown, FindDevice,
        CallBridge, FinishCall, StartWorker, Connect, GiveUp, StrayConnect, BridgeStop,
        BridgeStart,
        BoardDrop, ReadOldStatus, CompareStatus, AnnounceChange, JavaRespond, RelayRestart

\* A board never carries out a command after one that was given when that
\* command's client had already been told it had failed.
THEOREM LateCommands == Spec => LateCommandsNeverOverride
  <1>1. ASSUME IInv, [Next]_vars, NEW c \in Calls, Device(c) \in boards, stray[c] = "no"
        PROVE  NeverTooLate(c)
    <2> SUFFICES ASSUME c \in executed' \ executed, NEW d \in executed,
                        Device(d) = Device(c), c \in before[d]
                 PROVE  FALSE
      BY DEF NeverTooLate
    <2>1. CASE \E a \in Actuators, b \in Calls :
                  NextConnection(a, b) /\ executed' = executed \cup {b}
      <3>1. PICK a \in Actuators : NextConnection(a, c)
        BY <2>1
      <3>2. 1 \in Positions(a) /\ c = backlog[a][1]
        BY <3>1 DEF NextConnection, Positions, IInv, TypeOK
      <3>3. QueuedOK /\ NoneLeftBehind /\ backlog[a][1] \in before[d]
        BY <1>1, <3>2 DEF IInv, QueueOK
      <3>4. Device(backlog[a][1]) = a
        BY <3>2, <3>3 DEF QueuedOK
      <3>5. Device(d) # a
        BY <1>1, <3>2, <3>3 DEF NoneLeftBehind
      <3> QED  BY <3>2, <3>4, <3>5
    <2>2. CASE \E b \in Calls : handler[b].pc # "none" /\ executed' = executed \cup {b}
      <3>1. handler[c].pc # "none"
        BY <2>2
      <3> QED  BY <1>1, <3>1 DEF IInv, CallOK
    <2> QED  BY <1>1, <2>1, <2>2, NextCarriesOut DEF CarriesOut
  <1>2. IInv /\ [Next]_vars =>
            [\A c \in Calls : Device(c) \in boards /\ stray[c] = "no" => NeverTooLate(c)]_vars
    BY <1>1
  <1> QED  BY <1>2, Invariance, PTL DEF Spec, LateCommandsNeverOverride

-----------------------------------------------------------------------------
(* The refinement                                                          *)

\* The step of one call is one of DeviceCall's, or is not seen.
LEMMA CallSteps ==
    ASSUME NEW c \in Calls, executed' = executed,
           \A d \in Calls \ {c} : calls'[d] = calls[d],
           \/ Stage(c)' = Stage(c)
           \/ Stage(c) = "idle" /\ Stage(c)' = "open"
           \/ Stage(c) \in {"idle", "open"} /\ Stage(c)' = "FAILED"
           \/ Stage(c) = "open" /\ Stage(c)' = "SUCCESS" /\ c \in executed
    PROVE  [DeviceCalls!AbsNext]_(DeviceCalls!absVars)
  <1> DEFINE st == [d \in Calls |-> Stage(d)]
  <1>1. PICK x : x = Stage(c)'
    OBVIOUS
  <1>2. \A d \in Calls \ {c} : Stage(d)' = Stage(d)
    BY DEF Stage
  <1>3. st' = [st EXCEPT ![c] = x] /\ st[c] = Stage(c)
    BY <1>1, <1>2
  <1>4. CASE x = Stage(c)
    <2>1. st' = st
      BY <1>3, <1>4
    <2> QED  BY <2>1 DEF DeviceCalls!absVars
  <1>5. CASE Stage(c) = "idle" /\ x = "open"
    <2>1. DeviceCalls!Open(c)
      BY <1>3, <1>5 DEF DeviceCalls!Open
    <2> QED  BY <2>1 DEF DeviceCalls!AbsNext
  <1>6. CASE Stage(c) \in {"idle", "open"} /\ x = "FAILED"
    <2>1. DeviceCalls!AnswerFailed(c)
      BY <1>3, <1>6 DEF DeviceCalls!AnswerFailed
    <2> QED  BY <2>1 DEF DeviceCalls!AbsNext
  <1>7. CASE Stage(c) = "open" /\ x = "SUCCESS" /\ c \in executed
    <2>1. DeviceCalls!AnswerSuccess(c)
      BY <1>3, <1>7 DEF DeviceCalls!AnswerSuccess
    <2> QED  BY <2>1 DEF DeviceCalls!AbsNext
  <1> QED  BY <1>1, <1>4, <1>5, <1>6, <1>7

\* The relay carries out the command of a call that has begun.
LEMMA RelaySteps ==
    ASSUME NEW c \in Calls, UNCHANGED calls, Begun(c), executed' = executed \cup {c}
    PROVE  [DeviceCalls!AbsNext]_(DeviceCalls!absVars)
  <1> DEFINE st == [d \in Calls |-> Stage(d)]
  <1>1. st' = st /\ st[c] # "idle"
    BY DEF Stage, Begun
  <1>2. DeviceCalls!Accept(c)
    BY <1>1 DEF DeviceCalls!Accept
  <1> QED  BY <1>2 DEF DeviceCalls!AbsNext

\* What changes neither the calls nor what was carried out is a stutter of DeviceCall.
LEMMA UnseenSteps ==
    ASSUME UNCHANGED <<calls, executed>>
    PROVE  [DeviceCalls!AbsNext]_(DeviceCalls!absVars)
  <1>1. [d \in Calls |-> Stage(d)]' = [d \in Calls |-> Stage(d)]
    BY DEF Stage
  <1> QED  BY <1>1 DEF DeviceCalls!absVars

\* A step of the gateway's thread is one of DeviceCall's.
LEMMA ThreadSteps ==
    ASSUME IInv, NEW c \in Calls,
           \/ \E a \in Actuators : SendToUnknown(c, a)
           \/ \E a \in Actuators, t \in Requests : FindDevice(c, a, t)
           \/ CallBridge(c) \/ FinishCall(c)
    PROVE  [DeviceCalls!AbsNext]_(DeviceCalls!absVars)
  <1> USE DEF gatewayVars, bridgeVars, relayVars, boundVars
  <1>0. TypeOK /\ CallOK(c)
    BY DEF IInv
  <1>1. ASSUME NEW p \in {"waiting", "SUCCESS", "FAILED"}, executed' = executed,
               calls' = [calls EXCEPT ![c].pc = p],
               \/ calls[c].pc = "found" /\ p \in {"waiting", "FAILED"}
               \/ calls[c].pc = "waiting" /\ p = "FAILED"
               \/ calls[c].pc = "waiting" /\ p = "SUCCESS" /\ c \in executed
               \/ calls[c].pc = "idle" /\ p = "FAILED"
        PROVE  [DeviceCalls!AbsNext]_(DeviceCalls!absVars)
    <2>1. calls'[c].pc = p /\ \A d \in Calls \ {c} : calls'[d] = calls[d]
      BY <1>0, <1>1, Moved
    <2>2. /\ Stage(c)' = IF p = "waiting" THEN "open" ELSE p
          /\ Stage(c) = IF calls[c].pc \in {"found", "waiting"} THEN "open" ELSE calls[c].pc
      BY <2>1 DEF Stage
    <2> QED  BY <1>1, <2>1, <2>2, CallSteps
  <1>2. ASSUME NEW a \in Actuators, SendToUnknown(c, a)
        PROVE  [DeviceCalls!AbsNext]_(DeviceCalls!absVars)
    BY <1>1, <1>2 DEF SendToUnknown
  <1>3. ASSUME NEW a \in Actuators, NEW t \in Requests, FindDevice(c, a, t)
        PROVE  [DeviceCalls!AbsNext]_(DeviceCalls!absVars)
    <2>1. /\ calls[c].pc = "idle" /\ calls'[c].pc = "found" /\ executed' = executed
          /\ \A d \in Calls \ {c} : calls'[d] = calls[d]
      BY <1>0, <1>3 DEF TypeOK, FindDevice
    <2>2. Stage(c) = "idle" /\ Stage(c)' = "open"
      BY <2>1 DEF Stage
    <2> QED  BY <2>1, <2>2, CallSteps
  <1>4. CASE CallBridge(c)
    <2>1. calls[c].pc = "found" /\ executed' = executed
      BY <1>4 DEF CallBridge
    <2>2. CASE calls' = [calls EXCEPT ![c].pc = "FAILED"]
      BY <1>1, <2>1, <2>2
    <2>3. CASE calls' = [calls EXCEPT ![c].pc = "waiting"]
      BY <1>1, <2>1, <2>3
    <2> QED  BY <1>4, <2>2, <2>3 DEF CallBridge
  <1>5. CASE FinishCall(c)
    <2>1. /\ calls[c].pc = "waiting" /\ executed' = executed
          /\ calls' = [calls EXCEPT ![c].pc = IF rpc[c] \in Statuses THEN "SUCCESS" ELSE "FAILED"]
      BY <1>5 DEF FinishCall
    <2>2. CASE rpc[c] \in Statuses
      <3>1. c \in executed
        BY <1>0, <2>2 DEF CallOK
      <3> QED  BY <1>1, <2>1, <2>2, <3>1
    <2>3. CASE rpc[c] \notin Statuses
      BY <1>1, <2>1, <2>3
    <2> QED  BY <2>2, <2>3
  <1> QED  BY <1>2, <1>3, <1>4, <1>5

\* Every command, through the bridge and back, is a call as DeviceCall describes
\* it: answered once, and SUCCESS only after the relay has carried it out.
THEOREM Refinement == Spec => ImplementsDeviceCall
  <1>1. Init => DeviceCalls!AbsInit
    BY DEF Init, Stage, DeviceCalls!AbsInit
  <1>2. ASSUME IInv, [Next]_vars
        PROVE  [DeviceCalls!AbsNext]_(DeviceCalls!absVars)
    <2>1. \/ \E c \in Calls :
                \/ \E a \in Actuators : SendToUnknown(c, a)
                \/ \E a \in Actuators, t \in Requests : FindDevice(c, a, t)
                \/ CallBridge(c) \/ FinishCall(c)
          \/ UNCHANGED calls
      BY <1>2
      DEF Next, vars, gatewayVars, bridgeVars, relayVars, boundVars,
          RegisterDevice, RemoveOffline, Discover, Renew, StartWorker, Connect, GiveUp,
          StrayConnect,
          BridgeStop, BridgeStart, BoardCommand, BoardDrop, ReadOldStatus, TestStatus,
          SetStatus, CompareStatus, AnnounceChange, JavaRespond, RelayRestart
    <2>2. CASE UNCHANGED calls
      <3>1. CASE \E a \in Actuators, c \in Calls :
                    NextConnection(a, c) /\ executed' = executed \cup {c}
        <4>1. PICK a \in Actuators, c \in Calls :
                    NextConnection(a, c) /\ executed' = executed \cup {c}
          BY <3>1
        <4>2. Begun(c)
          BY <1>2, <4>1, Popped DEF IInv
        <4> QED  BY <2>2, <4>1, <4>2, RelaySteps
      <3>2. CASE \E c \in Calls : handler[c].pc # "none" /\ executed' = executed \cup {c}
        <4>1. PICK c \in Calls : handler[c].pc # "none" /\ executed' = executed \cup {c}
          BY <3>2
        <4>2. Begun(c)
          BY <1>2, <4>1 DEF IInv, CallOK
        <4> QED  BY <2>2, <4>1, <4>2, RelaySteps
      <3> QED  BY <1>2, <2>2, <3>1, <3>2, NextCarriesOut, UnseenSteps DEF CarriesOut
    <2> QED  BY <1>2, <2>1, <2>2, ThreadSteps
  <1>3. Spec => DeviceCalls!AbsInit /\ [][DeviceCalls!AbsNext]_(DeviceCalls!absVars)
    BY <1>1, <1>2, Invariance, PTL DEF Spec
  <1> QED  BY <1>3 DEF ImplementsDeviceCall, DeviceCalls!AbsSpec

=============================================================================
