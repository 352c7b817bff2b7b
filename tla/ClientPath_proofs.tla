--------------------------- MODULE ClientPath_proofs ---------------------------
(***************************************************************************)
(* Proofs about ClientPath, for every value of its constants.              *)
(*                                                                         *)
(* IInv adds CallOK to the types: what the records of one call say of each *)
(* other and of the gateway's view of it.  A success is traced from the    *)
(* client through the HTTP answer and the connection to the gateway, and   *)
(* the answer to a refresh is never one to a command.                      *)
(***************************************************************************)
EXTENDS ClientPath, FiniteSetTheorems, TLAPS

Verdicts == {"SUCCESS", "FAILED"}
ReadAnswers == {"none", "error"} \cup Statuses

CallOK(c) ==
    /\ action[c].pc = "idle" =>
          http[c] = NoRequest /\ conn[c] = NoConnection /\ stage[c] = "idle"
    /\ c \in accepted => stage[c] # "idle"
    /\ stage[c] = "SUCCESS" => c \in accepted
    /\ conn[c].status \in Verdicts => stage[c] = conn[c].status
    /\ http[c].answer \in Verdicts => stage[c] = http[c].answer
    /\ action[c].seen = "success" => stage[c] = "SUCCESS"
    /\ action[c].kind \in {"sensor", "mount"} => action[c].device \in Sensors
    /\ action[c].pc = "fetch" =>
          action[c].kind \in {"sensor", "mount"} /\ http[c].what = "fetch"
    /\ http[c].what = "fetch" =>
          http[c].answer \in ReadAnswers /\ conn[c].status \in ReadAnswers

IInv == ClientTypeOK /\ \A c \in Calls : CallOK(c)

\* The busy threads can be counted.
LEMMA BusyIsFinite == IsFiniteSet(Busy) /\ Cardinality(Busy) \in Nat
  <1>1. Busy \subseteq Calls
    BY DEF Busy
  <1> QED  BY <1>1, CallsAreFinite, FS_Subset, FS_CardinalityType

\* Threads are only taken by StartThread.
LEMMA FewerBusy ==
    ASSUME Cardinality(Busy) <= Threads, Busy' \subseteq Busy
    PROVE  Cardinality(Busy)' <= Threads
  <1>1. /\ IsFiniteSet(Busy')
        /\ Cardinality(Busy') <= Cardinality(Busy)
    BY BusyIsFinite, FS_Subset
  <1>2. Cardinality(Busy') \in Nat
    BY <1>1, FS_CardinalityType
  <1> QED  BY <1>1, <1>2, BusyIsFinite, ThreadsAssumption

\* A request that finds a free thread keeps to the number of threads.
LEMMA OneMoreBusy ==
    ASSUME NEW c \in Calls, ThreadFree, Busy' \subseteq Busy \cup {c}
    PROVE  Cardinality(Busy)' <= Threads
  <1>1. /\ IsFiniteSet(Busy \cup {c})
        /\ Cardinality(Busy \cup {c}) <= Cardinality(Busy) + 1
        /\ Cardinality(Busy \cup {c}) \in Nat
    BY BusyIsFinite, FS_AddElement, FS_CardinalityType
  <1>2. /\ IsFiniteSet(Busy')
        /\ Cardinality(Busy') <= Cardinality(Busy \cup {c})
    BY <1>1, FS_Subset
  <1>3. Cardinality(Busy') \in Nat
    BY <1>2, FS_CardinalityType
  <1> QED  BY <1>1, <1>2, <1>3, BusyIsFinite, ThreadsAssumption DEF ThreadFree

\* A page that does nothing.
LEMMA IdleType == Idle \in ActionType /\ Idle.pc = "idle" /\ Idle.kind = "cli" /\ Idle.seen = "nothing"
  BY DevicesAssumption DEF Idle, Action, ActionType, Kinds, Statuses

\* The invariant holds at the beginning.
LEMMA InitInv == Init => IInv
  <1> SUFFICES ASSUME Init PROVE IInv
    OBVIOUS
  <1>1. Busy = {}
    BY DEF Init, Busy, NoRequest
  <1>2. Cardinality(Busy) <= Threads
    BY <1>1, FS_EmptySet, ThreadsAssumption
  <1>3. ClientTypeOK
    BY <1>2, IdleType, ListedAssumption
    DEF Init, ClientTypeOK, Gateway!AbsInit, Gateway!AbsTypeOK, Gateway!Stages, HttpType, ConnType,
        NoRequest, NoConnection, Answers, Parts
  <1>4. \A c \in Calls : CallOK(c)
    BY IdleType
    DEF Init, Gateway!AbsInit, CallOK, NoRequest, NoConnection, Verdicts, ReadAnswers, Statuses
  <1> QED  BY <1>3, <1>4 DEF IInv

-----------------------------------------------------------------------------
(* Steps of the clients                                                    *)

\* What StartAll may start.
NewActions ==
    {a \in ActionType :
        /\ a.pc \in {"command", "fetch"} /\ a.seen = "nothing"
        /\ a.kind \in {"sensor", "mount"} => a.device \in Sensors
        /\ a.pc = "fetch" => a.kind = "mount"}

\* New actions of the clients keep the invariant.
LEMMA StartInv ==
    ASSUME IInv, NEW starts, DOMAIN starts \subseteq Calls,
           \A c \in DOMAIN starts : starts[c] \in NewActions,
           StartAll(starts), UNCHANGED <<shown, captured>>,
           loading' \in [Devices -> BOOLEAN]
    PROVE  IInv'
  <1> USE DEF StartAll, gatewayVars
  <1>1. ASSUME NEW c \in Calls PROVE action'[c] \in ActionType /\ http'[c] \in HttpType
    BY DEF IInv, ClientTypeOK, NewActions, ActionType, HttpType, Request, Answers
  <1>2. Busy' \subseteq Busy
    BY DEF Busy, Request
  <1>3. ClientTypeOK'
    BY <1>1, <1>2, FewerBusy DEF IInv, ClientTypeOK, Gateway!AbsTypeOK
  <1>4. ASSUME NEW c \in Calls PROVE CallOK(c)'
    <2>1. CASE c \in DOMAIN starts
      BY <2>1 DEF IInv, CallOK, NewActions, ActionType, Request, NoConnection, Verdicts, ReadAnswers
    <2>2. CASE c \notin DOMAIN starts
      BY <2>2 DEF IInv, CallOK
    <2> QED  BY <2>1, <2>2
  <1> QED  BY <1>3, <1>4 DEF IInv

\* So does a click, or a page that is opened.
LEMMA ClickInv ==
    ASSUME IInv, NEW c \in Calls, NEW d \in Devices,
           \/ SendDeviceCommand(c) \/ ToggleRelay(c, d) \/ ToggleSensorState(c, d)
           \/ UpdateFrequency(c, d) \/ Mount(c, d)
    PROVE  IInv'
  <1> USE DEF Start, Action, NewActions, ActionType, Kinds, Statuses, Opposite
  <1>1. ASSUME NEW a \in NewActions, Start(c, a), UNCHANGED <<shown, captured>>,
               loading' \in [Devices -> BOOLEAN]
        PROVE  IInv'
    BY <1>1, StartInv
  <1>2. CASE SendDeviceCommand(c)
    <2>1. Action("cli", Idle.device, Idle.target, "command") \in NewActions
      BY IdleType
    <2> QED  BY <1>1, <1>2, <2>1 DEF SendDeviceCommand, pageVars, IInv, ClientTypeOK
  <1>3. ASSUME NEW kind \in {"relay", "sensor", "frequency"}, NEW target \in Statuses,
               kind = "sensor" => d \in Sensors, Click(c, d, kind, target)
        PROVE  IInv'
    <2>1. Action(kind, d, target, "command") \in NewActions
      BY <1>3
    <2>2. loading' \in [Devices -> BOOLEAN]
      BY <1>3 DEF Click, IInv, ClientTypeOK
    <2> QED  BY <1>1, <1>3, <2>1, <2>2 DEF Click
  <1>4. shown[d] \in Statuses /\ Opposite(shown[d]) \in Statuses
    BY DEF IInv, ClientTypeOK
  <1>5. CASE ToggleRelay(c, d)
    BY <1>3, <1>4, <1>5 DEF ToggleRelay
  <1>6. CASE ToggleSensorState(c, d)
    BY <1>3, <1>4, <1>6 DEF ToggleSensorState
  <1>7. CASE UpdateFrequency(c, d)
    BY <1>3, <1>4, <1>7 DEF UpdateFrequency
  <1>8. CASE Mount(c, d)
    <2>1. Action("mount", d, shown[d], "fetch") \in NewActions
      BY <1>4, <1>8 DEF Mount
    <2> QED  BY <1>1, <1>8, <2>1 DEF Mount, pageVars, IInv, ClientTypeOK
  <1> QED  BY <1>2, <1>5, <1>6, <1>7, <1>8

\* So does a click that starts one action for each lamp.
LEMMA TurnAllInv ==
    ASSUME IInv, NEW status \in Statuses, TurnAll(status)
    PROVE  IInv'
  <1> DEFINE lamps == {d \in Relays : shown[d] # status}
  <1>1. PICK call \in [lamps -> Calls] :
          /\ StartAll([c \in {call[d] : d \in lamps} |->
                LET d == CHOOSE e \in lamps : call[e] = c
                IN  Action("relay", d, Opposite(captured[d]), "command")])
          /\ loading' = [d \in Devices |-> d \in lamps \/ loading[d]]
          /\ UNCHANGED <<shown, captured>>
    BY DEF TurnAll
  <1> DEFINE lamp(c) == CHOOSE e \in lamps : call[e] = c
             starts == [c \in {call[d] : d \in lamps} |->
                           Action("relay", lamp(c), Opposite(captured[lamp(c)]), "command")]
  <1>2. ASSUME NEW c \in DOMAIN starts PROVE starts[c] \in NewActions
    <2>1. lamp(c) \in Devices
      BY DEF Devices
    <2>2. Opposite(captured[lamp(c)]) \in Statuses
      BY DEF Opposite, Statuses
    <2> HIDE DEF lamp
    <2> QED  BY <2>1, <2>2 DEF Action, NewActions, ActionType, Kinds
  <1>3. DOMAIN starts \subseteq Calls
    OBVIOUS
  <1>4. loading' \in [Devices -> BOOLEAN]
    BY <1>1 DEF IInv, ClientTypeOK
  <1>5. StartAll(starts)
    BY <1>1
  <1> HIDE DEF starts
  <1> QED  BY <1>1, <1>2, <1>3, <1>4, <1>5, StartInv

\* An error, or the answer that came.
Arrived(c, answer) ==
    answer = "error" \/ (http[c].pc = "answered" /\ answer = http[c].answer)

\* An action that ended keeps its type.
LEMMA Ended ==
    ASSUME ClientTypeOK, NEW c \in Calls, NEW seen \in {"success", "failure", "done", "alert"},
           EndAction(c, seen)
    PROVE  action' \in [Calls -> ActionType]
  <1>1. action \in [Calls -> ActionType]
    BY DEF ClientTypeOK
  <1>2. action' = [action EXCEPT ![c] = [@ EXCEPT !.pc = "ended", !.seen = seen]]
    BY DEF EndAction
  <1>3. [action[c] EXCEPT !.pc = "ended", !.seen = seen] \in ActionType
    BY <1>1 DEF ActionType
  <1> QED  BY <1>1, <1>2, <1>3

\* A step that leaves the requests alone leaves the threads alone.
LEMMA SameThreads ==
    ASSUME ClientTypeOK, UNCHANGED http
    PROVE  Cardinality(Busy)' <= Threads
  BY FewerBusy DEF ClientTypeOK, Busy

\* The answer to a command is shown, or the failure.
LEMMA CommandSettledInv ==
    ASSUME IInv, NEW c \in Calls, NEW answer, Arrived(c, answer), CommandSettled(c, answer)
    PROVE  IInv'
  <1> DEFINE d == action[c].device
  <1>0. d \in Devices /\ action[c].target \in Statuses
    BY DEF IInv, ClientTypeOK, ActionType
  <1>1. CASE action[c].kind = "cli"
    <2>1. /\ EndAction(c, IF Success(answer) THEN "success" ELSE "failure")
          /\ UNCHANGED <<gatewayVars, shown, captured, loading, http, conn>>
      BY <1>1 DEF CommandSettled
    <2>2. ClientTypeOK'
      BY <2>1, Ended, SameThreads DEF IInv, ClientTypeOK, gatewayVars, Gateway!AbsTypeOK
    <2>3. action[c].pc = "command"
      BY DEF CommandSettled
    <2>4. ASSUME NEW e \in Calls PROVE CallOK(e)'
      BY <2>1, <2>3, <1>1 DEF IInv, ClientTypeOK, CallOK, EndAction, ActionType, gatewayVars, Success, Arrived, Verdicts
    <2> QED  BY <2>2, <2>4 DEF IInv
  <1>2. ASSUME NEW seen \in {"done", "alert"}, EndAction(c, seen), action[c].pc = "command",
               \/ shown' = shown
               \/ shown' = [shown EXCEPT ![d] = action[c].target],
               loading' = [loading EXCEPT ![d] = FALSE],
               UNCHANGED <<gatewayVars, captured, http, conn>>
        PROVE  IInv'
    <2>1. ClientTypeOK'
      BY <1>0, <1>2, Ended, SameThreads DEF IInv, ClientTypeOK, gatewayVars, Gateway!AbsTypeOK
    <2>2. ASSUME NEW e \in Calls PROVE CallOK(e)'
      BY <1>2 DEF EndAction, IInv, ClientTypeOK, CallOK, ActionType, gatewayVars
    <2> QED  BY <2>1, <2>2 DEF IInv
  <1>3. CASE /\ action[c].kind = "sensor" /\ action' = [action EXCEPT ![c].pc = "fetch"]
             /\ shown' = [shown EXCEPT ![d] = NewStatus(c)]
             /\ http' = [http EXCEPT ![c] = Request("fetch")]
             /\ conn' = [conn EXCEPT ![c] = NoConnection]
             /\ UNCHANGED <<gatewayVars, captured, loading>>
    <2>1. Request("fetch") \in HttpType /\ NoConnection \in ConnType
      BY DEF Request, HttpType, NoConnection, ConnType, Answers, Parts
    <2>2. Busy' \subseteq Busy
      BY <1>3 DEF Busy, Request, IInv, ClientTypeOK
    <2>3. action' \in [Calls -> ActionType] /\ shown' \in [Devices -> Statuses]
      <3>1. action \in [Calls -> ActionType] /\ shown \in [Devices -> Statuses]
        BY DEF IInv, ClientTypeOK
      <3>2. [action[c] EXCEPT !.pc = "fetch"] \in ActionType
        BY <3>1 DEF ActionType
      <3>3. action' = [action EXCEPT ![c] = [@ EXCEPT !.pc = "fetch"]]
        BY <1>3
      <3>4. action' \in [Calls -> ActionType]
        BY <3>1, <3>2, <3>3
      <3>5. shown' \in [Devices -> Statuses]
        BY <1>0, <1>3, <3>1 DEF NewStatus
      <3> QED  BY <3>4, <3>5
    <2>4. http' \in [Calls -> HttpType] /\ conn' \in [Calls -> ConnType]
      BY <1>3, <2>1 DEF IInv, ClientTypeOK
    <2>5. ClientTypeOK'
      BY <1>3, <2>2, <2>3, <2>4, FewerBusy DEF IInv, ClientTypeOK, gatewayVars, Gateway!AbsTypeOK
    <2>6. ASSUME NEW e \in Calls PROVE CallOK(e)'
      BY <1>3 DEF IInv, ClientTypeOK, CallOK, ActionType, gatewayVars, Request, NoConnection, Verdicts, ReadAnswers, CommandSettled
    <2> QED  BY <2>5, <2>6 DEF IInv
  <1> QED  BY <1>1, <1>2, <1>3 DEF CommandSettled, NewStatus

\* The answer to a fetch is shown, or the failure.
LEMMA FetchSettledInv ==
    ASSUME IInv, NEW c \in Calls, NEW answer, Arrived(c, answer), FetchSettled(c, answer)
    PROVE  IInv'
  <1> DEFINE d == action[c].device
  <1>1. d \in Devices /\ (IsOk(answer) => answer \in Statuses)
    BY DEF IInv, ClientTypeOK, ActionType, CallOK, FetchSettled, Arrived, IsOk, ReadAnswers
  <1>2. ClientTypeOK'
    <2>1. action' \in [Calls -> ActionType]
      BY Ended DEF FetchSettled, IInv
    <2>2. shown' \in [Devices -> Statuses] /\ loading' \in [Devices -> BOOLEAN]
      BY <1>1 DEF FetchSettled, IInv, ClientTypeOK
    <2>3. UNCHANGED <<stage, accepted, captured, http, conn>>
      BY DEF FetchSettled, gatewayVars
    <2> QED  BY <2>1, <2>2, <2>3, SameThreads DEF IInv, ClientTypeOK, Gateway!AbsTypeOK
  <1>3. ASSUME NEW e \in Calls PROVE CallOK(e)'
    BY DEF FetchSettled, EndAction, IInv, ClientTypeOK, CallOK, ActionType, gatewayVars
  <1> QED  BY <1>2, <1>3 DEF IInv

\* An answer or a failure reaches the page or the command-line client.
LEMMA SettledInv ==
    ASSUME IInv, NEW c \in Calls, HttpAnswer(c) \/ HttpFails(c)
    PROVE  IInv'
  BY CommandSettledInv, FetchSettledInv DEF HttpAnswer, HttpFails, Settled, Arrived

\* An effect renews what a button will command.
LEMMA EffectInv ==
    ASSUME IInv, NEW d \in Devices, RenderEffect(d)
    PROVE  IInv'
  <1>1. ClientTypeOK'
    BY FewerBusy DEF RenderEffect, IInv, ClientTypeOK, gatewayVars, Gateway!AbsTypeOK, Busy
  <1> QED  BY <1>1 DEF RenderEffect, IInv, CallOK, gatewayVars

-----------------------------------------------------------------------------
(* Steps of the API and of the gateway                                     *)

\* A step of a thread of the API.
LEMMA ApiInv ==
    ASSUME IInv, NEW c \in Calls, ApiStep(c)
    PROVE  IInv'
  <1> USE DEF gatewayVars, pageVars
  <1>1. CASE StartThread(c)
    <2>1. Busy' \subseteq Busy \cup {c}
      BY <1>1 DEF StartThread, Busy, IInv, ClientTypeOK
    <2>2. ClientTypeOK'
      BY <1>1, <2>1, OneMoreBusy DEF StartThread, IInv, ClientTypeOK, HttpType, Gateway!AbsTypeOK
    <2>3. ASSUME NEW e \in Calls PROVE CallOK(e)'
      BY <1>1 DEF StartThread, IInv, ClientTypeOK, HttpType, CallOK, NoRequest
    <2> QED  BY <2>2, <2>3 DEF IInv
  <1>2. CASE Connect(c)
    <2>1. Busy' \subseteq Busy
      BY <1>2 DEF Connect, Busy, IInv, ClientTypeOK
    <2>2. ClientTypeOK'
      <3>1. http' \in [Calls -> HttpType]
        BY <1>2 DEF Connect, IInv, ClientTypeOK, HttpType
      <3>2. conn' \in [Calls -> ConnType]
        BY <1>2 DEF Connect, IInv, ClientTypeOK, ConnType
      <3>3. UNCHANGED <<stage, accepted, action, shown, captured, loading>>
        BY <1>2 DEF Connect
      <3> QED  BY <2>1, <3>1, <3>2, <3>3, FewerBusy DEF IInv, ClientTypeOK, Gateway!AbsTypeOK
    <2>3. ASSUME NEW e \in Calls PROVE CallOK(e)'
      BY <1>2 DEF Connect, IInv, ClientTypeOK, HttpType, ConnType, CallOK, NoRequest
    <2> QED  BY <2>2, <2>3 DEF IInv
  <1>3. ASSUME NEW answer \in Answers, Reply(c, answer), http[c].pc # "none",
               UNCHANGED <<gatewayVars, action, pageVars, conn>>,
               answer \in Verdicts => stage[c] = answer,
               http[c].what = "fetch" => answer \in ReadAnswers
        PROVE  IInv'
    <2>1. Busy' \subseteq Busy
      BY <1>3 DEF Reply, Busy, IInv, ClientTypeOK
    <2>2. ClientTypeOK'
      BY <1>3, <2>1, FewerBusy DEF Reply, IInv, ClientTypeOK, HttpType, Gateway!AbsTypeOK
    <2>3. ASSUME NEW e \in Calls PROVE CallOK(e)'
      BY <1>3 DEF Reply, IInv, ClientTypeOK, HttpType, CallOK, NoRequest
    <2> QED  BY <2>2, <2>3 DEF IInv
  <1>4. "error" \in Answers /\ "error" \notin Verdicts /\ "error" \in ReadAnswers
    BY DEF Answers, Verdicts, ReadAnswers
  <1>5. CASE ConnectFails(c)
    BY <1>3, <1>4, <1>5 DEF ConnectFails
  <1>6. CASE TimeOut(c)
    BY <1>3, <1>4, <1>6 DEF TimeOut
  <1>7. CASE Receive(c)
    <2> DEFINE answer == Parsed(conn[c], http[c].what)
    <2>1. /\ answer \in Answers
          /\ answer \in Verdicts => stage[c] = answer
          /\ http[c].what = "fetch" => answer \in ReadAnswers
      BY DEF IInv, ClientTypeOK, CallOK, HttpType, ConnType, Parsed, Answers, CommandAnswers, Verdicts, ReadAnswers
    <2>2. Reply(c, answer) /\ http[c].pc # "none"
      BY <1>7 DEF Receive, AnswerOn
    <2>3. UNCHANGED <<gatewayVars, action, pageVars, conn>>
      BY <1>7 DEF Receive
    <2> HIDE DEF answer
    <2> QED  BY <1>3, <2>1, <2>2, <2>3
  <1> QED  BY <1>1, <1>2, <1>5, <1>6, <1>7 DEF ApiStep

\* The gateway has no request of an idle call.
LEMMA ServingBegun ==
    ASSUME IInv, NEW c \in Calls, conn[c].pc = "request"
    PROVE  action[c].pc # "idle"
  BY DEF IInv, CallOK, NoConnection

\* A step of the gateway.
LEMMA GatewayInv ==
    ASSUME IInv, NEW c \in Calls, GatewayStep(c)
    PROVE  IInv'
  <1> USE DEF gatewayVars, pageVars
  <1>1. CASE GatewayOpens(c)
    <2>1. ClientTypeOK'
      BY <1>1, FewerBusy DEF GatewayOpens, Gateway!Open, Gateway!AbsTypeOK, Gateway!Stages, IInv, ClientTypeOK, Busy
    <2>2. ASSUME NEW e \in Calls PROVE CallOK(e)'
      BY <1>1, ServingBegun
      DEF GatewayOpens, Serving, Gateway!Open, Gateway!AbsTypeOK, IInv, ClientTypeOK, CallOK, Verdicts
    <2> QED  BY <2>1, <2>2 DEF IInv
  <1>2. CASE DeviceAccepts(c)
    <2>1. ClientTypeOK'
      BY <1>2, FewerBusy DEF DeviceAccepts, Gateway!Accept, Gateway!AbsTypeOK, IInv, ClientTypeOK, Busy
    <2>2. ASSUME NEW e \in Calls PROVE CallOK(e)'
      BY <1>2 DEF DeviceAccepts, Gateway!Accept, IInv, ClientTypeOK, CallOK
    <2> QED  BY <2>1, <2>2 DEF IInv
  <1>3. ASSUME NEW sent \in Parts, NEW status \in Answers, conn[c].pc = "request",
               Served(c, sent, status), UNCHANGED <<gatewayVars, action, pageVars, http>>,
               status \notin Verdicts, status \in ReadAnswers
        PROVE  IInv'
    <2>1. ClientTypeOK'
      BY <1>3, FewerBusy DEF Served, ConnType, Gateway!AbsTypeOK, IInv, ClientTypeOK, Busy
    <2>2. ASSUME NEW e \in Calls PROVE CallOK(e)'
      BY <1>3, ServingBegun DEF Served, IInv, ClientTypeOK, CallOK
    <2> QED  BY <2>1, <2>2 DEF IInv
  <1>4. CASE GatewayEnds(c)
    BY <1>3, <1>4 DEF GatewayEnds, Parts, Answers, Verdicts, ReadAnswers
  <1>5. ASSUME NEW sent \in Parts, NEW status \in Statuses \cup {"error"}, GatewayReads(c, sent, status)
        PROVE  IInv'
    <2>1. status \in Answers /\ status \notin Verdicts /\ status \in ReadAnswers
      BY DEF Answers, Verdicts, ReadAnswers, Statuses
    <2> QED  BY <1>3, <1>5, <2>1 DEF GatewayReads, Serving
  <1>6. ASSUME NEW sent \in Parts, GatewayAnswers(c, sent)
        PROVE  IInv'
    <2>1. PICK verdict \in Verdicts :
            /\ stage' = [stage EXCEPT ![c] = verdict]
            /\ verdict = "SUCCESS" => c \in accepted
            /\ stage[c] \in {"idle", "open"}
            /\ UNCHANGED <<accepted, action, pageVars, http>>
      BY <1>6 DEF GatewayAnswers, Gateway!AnswerSuccess, Gateway!AnswerFailed, Verdicts
    <2>2. Served(c, sent, verdict) /\ Serving(c, "command")
      BY <1>6, <2>1 DEF GatewayAnswers, IInv, ClientTypeOK, Gateway!AbsTypeOK
    <2>3. ClientTypeOK'
      BY <2>1, <2>2, FewerBusy
      DEF Served, ConnType, Answers, CommandAnswers, Verdicts, Gateway!AbsTypeOK, Gateway!Stages, IInv, ClientTypeOK, Busy
    <2>4. ASSUME NEW e \in Calls PROVE CallOK(e)'
      BY <2>1, <2>2, ServingBegun
      DEF Served, Serving, IInv, ClientTypeOK, CallOK, Verdicts, Gateway!AbsTypeOK, HttpType
    <2> QED  BY <2>3, <2>4 DEF IInv
  <1> QED  BY <1>1, <1>2, <1>4, <1>5, <1>6 DEF GatewayStep

\* Every step keeps the invariant.
LEMMA StepInv == IInv /\ [Next]_vars => IInv'
  <1> SUFFICES ASSUME IInv, [Next]_vars PROVE IInv'
    OBVIOUS
  <1>1. CASE UNCHANGED vars
    <2>1. ClientTypeOK'
      BY <1>1, SameThreads DEF vars, IInv, ClientTypeOK, Gateway!AbsTypeOK
    <2> QED  BY <1>1, <2>1 DEF vars, IInv, CallOK
  <1>2. ASSUME NEW c \in Calls, ClientStep(c) PROVE IInv'
    BY <1>2, ClickInv, SettledInv, DevicesAssumption DEF ClientStep
  <1> QED  BY <1>1, <1>2, ApiInv, GatewayInv, TurnAllInv, EffectInv DEF Next

-----------------------------------------------------------------------------
(* Theorems                                                                *)

\* The inductive invariant.
THEOREM Invariance == Spec => []IInv
  BY InitInv, StepInv, PTL DEF Spec

\* The types, and that the API's pool is never exceeded (StartThread).
THEOREM TypeCorrect == Spec => []ClientTypeOK
  BY Invariance, PTL DEF IInv

\* The API answers a command with the gateway's answer to it, or not at all
\* (send_protobuf_request).
THEOREM AnswersAreTheGateways == Spec => []AnswerIsTheGateways
  <1>1. IInv => AnswerIsTheGateways
    BY DEF IInv, CallOK, AnswerIsTheGateways, Verdicts
  <1> QED  BY <1>1, Invariance, PTL

\* What is shown of a lamp changes only by an answered command to it.
ShownStep(d) ==
    shown'[d] # shown[d] =>
        \E c \in Calls :
            /\ action[c].pc = "command" /\ action[c].device = d
            /\ action[c].target = shown'[d] /\ IsOk(http[c].answer)

\* An answer changes what is shown of a lamp only as ShownStep says.
LEMMA SettledShows ==
    ASSUME IInv, NEW c \in Calls, HttpAnswer(c) \/ HttpFails(c), NEW d \in Relays
    PROVE  ShownStep(d)
  <1>1. d \in Devices /\ d \notin Sensors
    BY DevicesAssumption DEF Devices
  <1>2. PICK answer : Arrived(c, answer) /\ Settled(c, answer)
    BY DEF HttpAnswer, HttpFails, Arrived
  <1>3. CASE CommandSettled(c, answer)
    <2>1. CASE shown' = shown
      BY <2>1 DEF ShownStep
    <2>2. CASE IsOk(answer) /\ shown' = [shown EXCEPT ![action[c].device] = action[c].target]
      <3>1. answer = http[c].answer
        BY <1>2, <2>2 DEF Arrived, IsOk
      <3> QED  BY <1>1, <1>3, <2>2, <3>1 DEF ShownStep, CommandSettled, IInv, ClientTypeOK
    <2> QED  BY <1>3, <2>1, <2>2 DEF CommandSettled, NewStatus
  <1>4. CASE FetchSettled(c, answer)
    <2>1. action[c].device \in Sensors
      BY <1>4 DEF FetchSettled, IInv, CallOK
    <2> QED  BY <1>1, <1>4, <2>1 DEF FetchSettled, ShownStep, IInv, ClientTypeOK
  <1> QED  BY <1>2, <1>3, <1>4 DEF Settled

\* However toggles of a lamp overlap: what the page shows of it changes only to
\* the target of a command that came back with 200.  (toggleRelay, handleStatusChange)
THEOREM ShownByCommand == Spec => ShownWasCommanded
  <1>1. ASSUME IInv, [Next]_vars, NEW d \in Relays
        PROVE  ShownStep(d)
    <2>1. CASE \E c \in Calls : HttpAnswer(c) \/ HttpFails(c)
      BY <1>1, <2>1, SettledShows
    <2>2. CASE shown' = shown
      BY <2>2 DEF ShownStep
    <2> QED
      BY <1>1, <2>1, <2>2
      DEF Next, vars, pageVars, ClientStep, ApiStep, GatewayStep, SendDeviceCommand, Click,
          ToggleRelay, ToggleSensorState, UpdateFrequency, Mount, TurnAll, RenderEffect,
          StartThread, Connect, ConnectFails, TimeOut, Receive, GatewayOpens, DeviceAccepts,
          GatewayAnswers, GatewayReads, GatewayEnds
  <1>2. IInv /\ [Next]_vars => [\A d \in Relays : ShownStep(d)]_vars
    BY <1>1
  <1>3. Spec => [][\A d \in Relays : ShownStep(d)]_vars
    BY <1>2, Invariance, PTL DEF Spec
  <1> QED  BY <1>3 DEF ShownWasCommanded, ShownStep

-----------------------------------------------------------------------------
(* Refinement                                                              *)

\* The gateway and its devices go on alone.
LEMMA DeviceSteps ==
    ASSUME IInv, UNCHANGED action, NEW c \in Calls,
           accepted' = accepted \/ accepted' = accepted \cup {c},
           accepted' # accepted => stage[c] # "idle"
    PROVE  [Client!AbsNext]_(Client!absVars)
  <1>1. \A e \in Calls : OfClient(e)' = OfClient(e) /\ Seen(e)' = Seen(e)
    BY DEF OfClient, Seen
  <1>2. [e \in Calls |-> Seen(e)]' = [e \in Calls |-> Seen(e)]
    BY <1>1
  <1>3. CASE {e \in accepted : OfClient(e)}' = {e \in accepted : OfClient(e)}
    BY <1>2, <1>3 DEF Client!absVars
  <1>4. CASE accepted' = accepted \cup {c} /\ accepted' # accepted /\ OfClient(c)
    <2>1. {e \in accepted : OfClient(e)}' = {e \in accepted : OfClient(e)} \cup {c}
      BY <1>1, <1>4 DEF IInv, ClientTypeOK, Gateway!AbsTypeOK
    <2>2. Seen(c) # "idle"
      BY <1>4 DEF Seen
    <2>3. Client!Accept(c)
      BY <1>2, <2>1, <2>2 DEF Client!Accept
    <2> QED  BY <2>3 DEF Client!AbsNext
  <1>5. CASE accepted' = accepted
    BY <1>1, <1>3, <1>5 DEF IInv, ClientTypeOK, Gateway!AbsTypeOK
  <1>6. CASE accepted' = accepted \cup {c} /\ ~OfClient(c)
    BY <1>1, <1>3, <1>6 DEF IInv, ClientTypeOK, Gateway!AbsTypeOK
  <1> QED  BY <1>4, <1>5, <1>6

\* The action of one call changes.
LEMMA CallSteps ==
    ASSUME IInv, NEW c \in Calls, UNCHANGED <<stage, accepted>>,
           \A e \in Calls \ {c} : action'[e] = action[e],
           \/ ~OfClient(c) /\ ~OfClient(c)'
           \/ Seen(c) = "idle" /\ Seen(c)' = "open" /\ stage[c] = "idle"
           \/ OfClient(c) /\ Seen(c) = "open" /\ Seen(c)' = "FAILED"
           \/ OfClient(c) /\ Seen(c) = "open" /\ Seen(c)' = "SUCCESS" /\ c \in accepted
    PROVE  [Client!AbsNext]_(Client!absVars)
  <1> DEFINE seen == [e \in Calls |-> Seen(e)]
             took == {e \in accepted : OfClient(e)}
  <1>1. \A e \in Calls \ {c} : OfClient(e)' = OfClient(e) /\ Seen(e)' = Seen(e)
    BY DEF OfClient, Seen
  <1>2. seen' = [seen EXCEPT ![c] = Seen(c)']
    BY <1>1
  <1>3. CASE ~OfClient(c) /\ ~OfClient(c)'
    <2>1. Seen(c)' = "idle" /\ Seen(c) = "idle"
      BY <1>3 DEF Seen
    <2>2. seen' = seen
      BY <1>1, <2>1
    <2>3. took' = took
      BY <1>1, <1>3 DEF IInv, ClientTypeOK, Gateway!AbsTypeOK
    <2> QED  BY <2>2, <2>3 DEF Client!absVars
  <1>4. CASE Seen(c) = "idle" /\ Seen(c)' = "open" /\ stage[c] = "idle"
    <2>1. c \notin accepted
      BY <1>4 DEF IInv, CallOK
    <2>2. took' = took
      BY <1>1, <2>1 DEF IInv, ClientTypeOK, Gateway!AbsTypeOK
    <2>3. Client!Open(c)
      BY <1>2, <1>4, <2>2 DEF Client!Open
    <2> QED  BY <2>3 DEF Client!AbsNext
  <1>5. ASSUME OfClient(c), Seen(c) = "open", Seen(c)' \in Verdicts
        PROVE  took' = took
    <2>1. OfClient(c)'
      BY <1>5 DEF Seen, Verdicts
    <2> QED  BY <1>1, <1>5, <2>1 DEF IInv, ClientTypeOK, Gateway!AbsTypeOK
  <1>6. CASE OfClient(c) /\ Seen(c) = "open" /\ Seen(c)' = "FAILED"
    <2>1. Client!AnswerFailed(c)
      BY <1>2, <1>5, <1>6 DEF Client!AnswerFailed, Verdicts
    <2> QED  BY <2>1 DEF Client!AbsNext
  <1>7. CASE OfClient(c) /\ Seen(c) = "open" /\ Seen(c)' = "SUCCESS" /\ c \in accepted
    <2>1. Client!AnswerSuccess(c)
      BY <1>2, <1>5, <1>7 DEF Client!AnswerSuccess, Verdicts
    <2> QED  BY <2>1 DEF Client!AbsNext
  <1> QED  BY <1>3, <1>4, <1>6, <1>7

\* Nothing that the client or the device sees.
LEMMA UnseenSteps ==
    ASSUME UNCHANGED <<action, accepted>>
    PROVE  [Client!AbsNext]_(Client!absVars)
  <1>1. \A e \in Calls : OfClient(e)' = OfClient(e) /\ Seen(e)' = Seen(e)
    BY DEF OfClient, Seen
  <1>2. [e \in Calls |-> Seen(e)]' = [e \in Calls |-> Seen(e)]
    BY <1>1
  <1>3. {e \in accepted : OfClient(e)}' = {e \in accepted : OfClient(e)}
    BY DEF OfClient
  <1> QED  BY <1>2, <1>3 DEF Client!absVars

\* A user starts one action.
LEMMA StartSteps ==
    ASSUME IInv, NEW c \in Calls, NEW a, a.pc \in {"command", "fetch"}, Start(c, a)
    PROVE  [Client!AbsNext]_(Client!absVars)
  <1>1. /\ action[c].pc = "idle" /\ action'[c] = a
        /\ \A e \in Calls \ {c} : action'[e] = action[e]
        /\ UNCHANGED <<stage, accepted>>
    BY DEF Start, StartAll, gatewayVars
  <1>2. ~OfClient(c) /\ Seen(c) = "idle" /\ stage[c] = "idle"
    BY <1>1 DEF OfClient, Seen, IInv, CallOK
  <1>3. CASE a.kind = "cli"
    <2>1. Seen(c)' = "open"
      BY <1>1, <1>3 DEF OfClient, Seen
    <2> QED  BY <1>1, <1>2, <2>1, CallSteps
  <1>4. CASE a.kind # "cli"
    <2>1. ~OfClient(c)'
      BY <1>1, <1>4 DEF OfClient
    <2> QED  BY <1>1, <1>2, <2>1, CallSteps
  <1> QED  BY <1>3, <1>4

\* The page's buttons for all lamps are nothing to the client.
LEMMA TurnAllSteps ==
    ASSUME IInv, NEW status \in Statuses, TurnAll(status)
    PROVE  [Client!AbsNext]_(Client!absVars)
  <1> DEFINE lamps == {d \in Relays : shown[d] # status}
  <1>1. PICK call \in [lamps -> Calls] :
          StartAll([c \in {call[d] : d \in lamps} |->
                LET d == CHOOSE e \in lamps : call[e] = c
                IN  Action("relay", d, Opposite(captured[d]), "command")])
    BY DEF TurnAll
  <1>2. ASSUME NEW e \in Calls
        PROVE  \/ action'[e] = action[e]
               \/ action[e].pc = "idle" /\ action'[e].kind = "relay"
    BY <1>1 DEF StartAll, Action
  <1>3. \A e \in Calls : OfClient(e)' = OfClient(e) /\ Seen(e)' = Seen(e)
    BY <1>2 DEF OfClient, Seen
  <1>4. UNCHANGED accepted
    BY <1>1 DEF StartAll, gatewayVars
  <1>5. [e \in Calls |-> Seen(e)]' = [e \in Calls |-> Seen(e)]
    BY <1>3
  <1>6. {e \in accepted : OfClient(e)}' = {e \in accepted : OfClient(e)}
    BY <1>3, <1>4 DEF IInv, ClientTypeOK, Gateway!AbsTypeOK
  <1> QED  BY <1>5, <1>6 DEF Client!absVars

\* The answer to a request, or an error.
LEMMA SettledSteps ==
    ASSUME IInv, NEW c \in Calls, HttpAnswer(c) \/ HttpFails(c)
    PROVE  [Client!AbsNext]_(Client!absVars)
  <1>1. PICK answer : Arrived(c, answer) /\ Settled(c, answer)
    BY DEF HttpAnswer, HttpFails, Arrived
  <1>2. action[c].pc \in {"command", "fetch"} /\ UNCHANGED <<stage, accepted>>
    BY <1>1 DEF Settled, CommandSettled, FetchSettled, gatewayVars
  <1>3. \A e \in Calls \ {c} : action'[e] = action[e]
    BY <1>1 DEF Settled, CommandSettled, FetchSettled, EndAction, IInv, ClientTypeOK
  <1>4. action'[c].kind = action[c].kind
    BY <1>1 DEF Settled, CommandSettled, FetchSettled, EndAction, IInv, ClientTypeOK, ActionType
  <1>5. CASE action[c].kind # "cli"
    <2>1. ~OfClient(c) /\ ~OfClient(c)'
      BY <1>4, <1>5 DEF OfClient
    <2> QED  BY <1>2, <1>3, <2>1, CallSteps
  <1>6. CASE action[c].kind = "cli"
    <2>1. /\ OfClient(c) /\ Seen(c) = "open"
      BY <1>2, <1>6 DEF OfClient, Seen
    <2>2. action[c].pc = "command" /\ EndAction(c, IF Success(answer) THEN "success" ELSE "failure")
      BY <1>1, <1>2, <1>6 DEF Settled, CommandSettled, FetchSettled, IInv, CallOK
    <2>3. /\ action'[c].pc = "ended"
          /\ action'[c].seen = IF Success(answer) THEN "success" ELSE "failure"
      BY <2>2 DEF EndAction, IInv, ClientTypeOK, ActionType
    <2>4. Seen(c)' = IF Success(answer) THEN "SUCCESS" ELSE "FAILED"
      BY <1>4, <1>6, <2>3 DEF OfClient, Seen
    <2>5. CASE Success(answer)
      <3>1. c \in accepted
        BY <1>1, <2>5 DEF Success, Arrived, IInv, CallOK, Verdicts
      <3> QED  BY <1>2, <1>3, <2>1, <2>4, <2>5, <3>1, CallSteps
    <2>6. CASE ~Success(answer)
      BY <1>2, <1>3, <2>1, <2>4, <2>6, CallSteps
    <2> QED  BY <2>5, <2>6
  <1> QED  BY <1>5, <1>6

\* A command sent through the client is a call as DeviceCall describes it,
\* whatever happens to connections, threads and answers on the way.
THEOREM Refinement == Spec => ClientImplementsDeviceCall
  <1>1. Init => Client!AbsInit
    BY IdleType DEF Init, Gateway!AbsInit, Client!AbsInit, Seen, OfClient
  <1>2. ASSUME IInv, NEW c \in Calls, ClientStep(c)
        PROVE  [Client!AbsNext]_(Client!absVars)
    <2>1. ASSUME NEW kind, NEW d, NEW target, NEW pc \in {"command", "fetch"},
                 Start(c, Action(kind, d, target, pc))
          PROVE  [Client!AbsNext]_(Client!absVars)
      <3>1. Action(kind, d, target, pc).pc = pc
        BY DEF Action
      <3> QED  BY <1>2, <2>1, <3>1, StartSteps
    <2> QED
      BY <1>2, <2>1, SettledSteps
      DEF ClientStep, SendDeviceCommand, Click, ToggleRelay, ToggleSensorState, UpdateFrequency, Mount
  <1>3. ASSUME IInv, NEW c \in Calls, ApiStep(c)
        PROVE  [Client!AbsNext]_(Client!absVars)
    <2>1. UNCHANGED <<action, accepted>>
      BY <1>3 DEF ApiStep, StartThread, Connect, ConnectFails, TimeOut, Receive, gatewayVars
    <2> QED  BY <2>1, UnseenSteps
  <1>4. ASSUME IInv, NEW c \in Calls, GatewayStep(c)
        PROVE  [Client!AbsNext]_(Client!absVars)
    <2>1. CASE DeviceAccepts(c)
      <3>1. UNCHANGED action /\ accepted' = accepted \cup {c} /\ stage[c] # "idle"
        BY <2>1 DEF DeviceAccepts, Gateway!Accept
      <3> QED  BY <1>4, <3>1, DeviceSteps
    <2>2. CASE ~DeviceAccepts(c)
      <3>1. UNCHANGED <<action, accepted>>
        BY <1>4, <2>2
        DEF GatewayStep, GatewayOpens, GatewayEnds, GatewayAnswers, GatewayReads, gatewayVars,
            Gateway!Open, Gateway!AnswerSuccess, Gateway!AnswerFailed
      <3> QED  BY <3>1, UnseenSteps
    <2> QED  BY <2>1, <2>2
  <1>5. ASSUME IInv, [Next]_vars
        PROVE  [Client!AbsNext]_(Client!absVars)
    <2>1. CASE (\E d \in Devices : RenderEffect(d)) \/ UNCHANGED vars
      BY <2>1, UnseenSteps DEF RenderEffect, vars, gatewayVars
    <2> QED  BY <1>2, <1>3, <1>4, <1>5, <2>1, TurnAllSteps DEF Next
  <1>6. Spec => Client!AbsInit /\ [][Client!AbsNext]_(Client!absVars)
    BY <1>1, <1>5, Invariance, PTL DEF Spec
  <1> QED  BY <1>6 DEF ClientImplementsDeviceCall, Client!AbsSpec

=============================================================================
