------------------------- MODULE SensorCommand_proofs -------------------------
(***************************************************************************)
(* Proofs about SensorCommand, for every value of its constants.           *)
(*                                                                         *)
(* The inductive invariant IInv says where responses come from: a command  *)
(* in a queue belongs to a call that was sent to that very sensor, and a   *)
(* response in flight, stored or popped was given by the sensor the call   *)
(* was addressed to, after the call was sent.  AnswerIsTheSensors and      *)
(* FreshResponseKept follow, and that each call implements DeviceCall.     *)
(***************************************************************************)
EXTENDS SensorCommand, TLAPS

Elems(q) == {q[i] : i \in 1 .. Len(q)}

-----------------------------------------------------------------------------
(* Queues                                                                  *)

\* A new message joins the others at the end.
LEMMA AppendElems ==
    ASSUME NEW S, NEW q \in Seq(S), NEW m \in S
    PROVE  /\ Append(q, m) \in Seq(S)
           /\ Elems(Append(q, m)) = Elems(q) \cup {m}
  <1>1. /\ Append(q, m) \in Seq(S)
        /\ Len(Append(q, m)) = Len(q) + 1
        /\ Len(q) \in Nat
    OBVIOUS
  <1>2. \A i \in 1 .. Len(q) + 1 :
           Append(q, m)[i] = IF i <= Len(q) THEN q[i] ELSE m
    OBVIOUS
  <1>3. Elems(Append(q, m)) \subseteq Elems(q) \cup {m}
    BY <1>1, <1>2 DEF Elems
  <1>4. Elems(q) \subseteq Elems(Append(q, m))
    BY <1>1, <1>2 DEF Elems
  <1>5. m \in Elems(Append(q, m))
    <2>1. Len(q) + 1 \in 1 .. Len(q) + 1 /\ ~(Len(q) + 1 <= Len(q))
      BY <1>1
    <2> QED  BY <1>1, <1>2, <2>1 DEF Elems
  <1> QED  BY <1>1, <1>3, <1>4, <1>5

\* The first message is one of the queue, and no other comes from taking it.
LEMMA TailElems ==
    ASSUME NEW S, NEW q \in Seq(S), q # << >>
    PROVE  /\ Tail(q) \in Seq(S)
           /\ Elems(Tail(q)) \subseteq Elems(q)
           /\ Head(q) \in Elems(q)
           /\ Head(q) \in S
  <1>1. /\ Tail(q) \in Seq(S) /\ Len(Tail(q)) = Len(q) - 1
        /\ Len(q) \in Nat /\ Len(q) >= 1
        /\ Head(q) = q[1] /\ Head(q) \in S
    OBVIOUS
  <1>2. \A i \in 1 .. Len(q) - 1 : Tail(q)[i] = q[i + 1]
    OBVIOUS
  <1>3. Elems(Tail(q)) \subseteq Elems(q)
    <2>1. \A i \in 1 .. Len(q) - 1 : i + 1 \in 1 .. Len(q)
      BY <1>1
    <2> QED  BY <1>1, <1>2, <2>1 DEF Elems
  <1>4. Head(q) \in Elems(q)
    <2>1. 1 \in 1 .. Len(q)
      BY <1>1
    <2> QED  BY <1>1, <2>1 DEF Elems
  <1> QED  BY <1>1, <1>3, <1>4

\* The empty queue holds nothing.
LEMMA EmptyElems ==
    ASSUME NEW S
    PROVE  << >> \in Seq(S) /\ Elems(<< >>) = {}
  BY DEF Elems

\* What is in a queue of messages of a kind is of that kind.
LEMMA ElemsType ==
    ASSUME NEW S, NEW q \in Seq(S)
    PROVE  Elems(q) \subseteq S
  BY DEF Elems

-----------------------------------------------------------------------------
(* The inductive invariant                                                 *)

\* The message is the command of a call that was sent to this sensor.
Sent(m) ==
    /\ calls[m.request_id].pc # "idle"
    /\ calls[m.request_id].device_id = m.device_id

\* The response was given by the sensor its call was sent to, after the call
\* was sent, and says what the sensor decided.
Genuine(r) ==
    /\ calls[r.request_id].pc # "idle"
    /\ calls[r.request_id].device_id = r.device_id
    /\ r.timestamp >= calls[r.request_id].start_time - Lag[r.device_id]
    /\ <<r.device_id, r.success>> \in verdicts[r.request_id]

OutboxOK == \A m \in Elems(outbox) : Sent(m)
CmdsOK ==
    \A s \in Sensors : \A m \in Elems(cmds[s]) : Sent(m) /\ m.device_id = s
RepliesOK ==
    \A s \in Sensors : \A m \in Elems(replies[s]) :
        m.topic = "response" =>
            m \in Responses /\ (m.request_id # None => Genuine(m))
StoredOK ==
    \A c \in Calls :
        mqtt_responses[c] # None =>
            mqtt_responses[c].request_id = c /\ Genuine(mqtt_responses[c])
ThreadOK ==
    \A c \in Calls :
        /\ calls[c].start_time <= now
        /\ calls[c].outcome # None => calls[c].pc = "done"
        /\ calls[c].pc = "update" =>
              /\ calls[c].response \in Responses
              /\ calls[c].response.request_id = c
              /\ calls[c].response.success
              /\ Genuine(calls[c].response)

IInv ==
    /\ TypeOK
    /\ OutboxOK /\ CmdsOK /\ RepliesOK /\ StoredOK /\ ThreadOK
    /\ AnswerIsTheSensors

\* What every step leaves alone: a call that was sent stays sent to the same
\* sensor since the same moment, and verdicts are only added.
Stable ==
    \A c \in Calls :
        /\ calls[c].pc # "idle" =>
              /\ calls'[c].pc # "idle"
              /\ calls'[c].device_id = calls[c].device_id
              /\ calls'[c].start_time = calls[c].start_time
        /\ verdicts[c] \subseteq verdicts'[c]

\* Provenance outlives every such step.
LEMMA StableKeeps ==
    ASSUME Stable
    PROVE  /\ \A m : m.request_id \in Calls /\ Sent(m) => Sent(m)'
           /\ \A r : r.request_id \in Calls /\ Genuine(r) => Genuine(r)'
  BY DEF Stable, Sent, Genuine

\* The invariant holds at first: nothing has been sent.
LEMMA InitInv == Init => IInv
  <1> SUFFICES ASSUME Init PROVE IInv
    OBVIOUS
  <1> USE SetsAssumption, TimeAssumption, BoundAssumption, NoneAssumption DEF Init
  <1>1. TypeOK
    <2>1. connected_devices \in [Sensors -> Entries \cup {None}]
      BY DEF RegisteredEntry, Entries, Statuses
    <2>2. calls \in [Calls -> Threads]
      BY DEF Threads
    <2>3. sensor \in [Sensors -> SensorStates]
      BY DEF StartedSensor, SensorStates, Statuses
    <2> QED  BY <2>1, <2>2, <2>3 DEF TypeOK
  <1>2. Elems(outbox) = {} /\ \A s \in Sensors : Elems(cmds[s]) = {} /\ Elems(replies[s]) = {}
    BY EmptyElems
  <1>3. OutboxOK /\ CmdsOK /\ RepliesOK
    BY <1>2 DEF OutboxOK, CmdsOK, RepliesOK
  <1>4. StoredOK /\ ThreadOK
    BY DEF StoredOK, ThreadOK
  <1>5. AnswerIsTheSensors
    BY DEF AnswerIsTheSensors, Outcomes
  <1> QED  BY <1>1, <1>3, <1>4, <1>5 DEF IInv

-----------------------------------------------------------------------------
(* What a step adds                                                        *)

NewOutbox == \A m \in Elems(outbox') : m \in Elems(outbox) \/ Sent(m)'
NewCmds ==
    \A s \in Sensors : \A m \in Elems(cmds'[s]) :
        m \in Elems(cmds[s]) \/ (m \in Elems(outbox) /\ m.device_id = s)
NewReplies ==
    \A s \in Sensors : \A m \in Elems(replies'[s]) :
        \/ m \in Elems(replies[s])
        \/ m.topic = "response" =>
              m \in Responses /\ (m.request_id # None => Genuine(m)')
NewStored ==
    \A c \in Calls :
        \/ mqtt_responses'[c] \in {mqtt_responses[c], None}
        \/ \E s \in Sensors :
              /\ mqtt_responses'[c] \in Elems(replies[s])
              /\ mqtt_responses'[c].topic = "response"
              /\ mqtt_responses'[c].request_id = c

\* The messages that were there keep their provenance, so only what a step
\* adds has to be looked at.
LEMMA Provenance ==
    ASSUME IInv, Stable, NewOutbox, NewCmds, NewReplies, NewStored
    PROVE  OutboxOK' /\ CmdsOK' /\ RepliesOK' /\ StoredOK'
  <1> USE DEF IInv
  <1>1. /\ \A m \in Elems(outbox) : m.request_id \in Calls
        /\ \A s \in Sensors : \A m \in Elems(cmds[s]) : m.request_id \in Calls
    <2>1. /\ Elems(outbox) \subseteq Commands
          /\ \A s \in Sensors : Elems(cmds[s]) \subseteq Commands
      BY ElemsType DEF TypeOK
    <2> QED  BY <2>1 DEF Commands
  <1>2. OutboxOK'
    BY <1>1, StableKeeps DEF OutboxOK, NewOutbox
  <1>3. CmdsOK'
    BY <1>1, StableKeeps DEF CmdsOK, OutboxOK, NewCmds
  <1>4. RepliesOK'
    <2> SUFFICES ASSUME NEW s \in Sensors, NEW m \in Elems(replies'[s]),
                        m.topic = "response", m \in Elems(replies[s])
                 PROVE  m \in Responses /\ (m.request_id # None => Genuine(m)')
      BY DEF RepliesOK, NewReplies
    <2>1. m \in Responses /\ (m.request_id # None => Genuine(m))
      BY DEF RepliesOK
    <2>2. m.request_id # None => m.request_id \in Calls
      BY <2>1 DEF Responses
    <2> QED  BY <2>1, <2>2, StableKeeps
  <1>5. StoredOK'
    <2> SUFFICES ASSUME NEW c \in Calls, NEW r, r = mqtt_responses'[c], r # None
                 PROVE  r.request_id = c /\ Genuine(r)'
      BY DEF StoredOK, Genuine
    <2>1. CASE r = mqtt_responses[c]
      <3>1. r.request_id = c /\ Genuine(r)
        BY <2>1 DEF StoredOK
      <3> QED  BY <3>1, StableKeeps
    <2>2. ASSUME NEW s \in Sensors, r \in Elems(replies[s]),
                 r.topic = "response", r.request_id = c
          PROVE  Genuine(r)'
      <3>1. c # None
        BY NoneAssumption
      <3>2. Genuine(r)
        BY <2>2, <3>1 DEF RepliesOK
      <3> QED  BY <2>2, <3>2, StableKeeps
    <2> QED  BY <2>1, <2>2 DEF NewStored
  <1> QED  BY <1>2, <1>3, <1>4, <1>5

\* A step that leaves the clients' threads alone keeps what is said of them.
LEMMA ThreadsKept ==
    ASSUME IInv, Stable, UNCHANGED calls, now' >= now, now \in Int, now' \in Int
    PROVE  ThreadOK' /\ AnswerIsTheSensors'
  <1> USE DEF IInv
  <1>1. ThreadOK'
    <2> SUFFICES ASSUME NEW c \in Calls
                 PROVE  /\ calls[c].start_time <= now'
                        /\ calls[c].outcome # None => calls[c].pc = "done"
                        /\ calls[c].pc = "update" =>
                              /\ calls[c].response \in Responses
                              /\ calls[c].response.request_id = c
                              /\ calls[c].response.success
                              /\ Genuine(calls[c].response)'
      BY DEF ThreadOK
    <2>1. calls[c].start_time \in Int
      BY DEF TypeOK, Threads
    <2> QED  BY <2>1, StableKeeps DEF ThreadOK
  <1>2. AnswerIsTheSensors'
    BY DEF AnswerIsTheSensors, Stable
  <1> QED  BY <1>1, <1>2

\* A step that changes neither a queue nor a response nor a thread.
LEMMA Frame ==
    ASSUME IInv, TypeOK',
           UNCHANGED <<mqtt_responses, calls, outbox, cmds, replies, verdicts, now>>
    PROVE  IInv'
  <1>1. Stable
    BY DEF Stable
  <1>2. NewOutbox /\ NewCmds /\ NewReplies /\ NewStored
    BY DEF NewOutbox, NewCmds, NewReplies, NewStored
  <1>3. now \in Int /\ now' = now
    BY DEF IInv, TypeOK
  <1> QED  BY <1>1, <1>2, <1>3, Provenance, ThreadsKept DEF IInv

-----------------------------------------------------------------------------
(* The client's threads                                                    *)

\* A thread that moves on keeps what is said of threads, if it holds of it.
LEMMA ThreadChanges ==
    ASSUME IInv, Stable, NEW c \in Calls,
           UNCHANGED <<verdicts, now>>,
           \A d \in Calls \ {c} : calls'[d] = calls[d],
           calls'[c].start_time <= now,
           calls'[c].outcome # None => calls'[c].pc = "done",
           calls'[c].pc = "update" =>
              /\ calls'[c].response \in Responses
              /\ calls'[c].response.request_id = c
              /\ calls'[c].response.success
              /\ Genuine(calls'[c].response),
           calls'[c].outcome = "SUCCESS" =>
              <<calls'[c].device_id, TRUE>> \in verdicts[c],
           calls'[c].outcome = "sensor error" =>
              <<calls'[c].device_id, FALSE>> \in verdicts[c]
    PROVE  ThreadOK' /\ AnswerIsTheSensors'
  <1> USE DEF IInv
  <1>1. ThreadOK'
    <2> SUFFICES ASSUME NEW d \in Calls
                 PROVE  /\ calls'[d].start_time <= now'
                        /\ calls'[d].outcome # None => calls'[d].pc = "done"
                        /\ calls'[d].pc = "update" =>
                              /\ calls'[d].response \in Responses
                              /\ calls'[d].response.request_id = d
                              /\ calls'[d].response.success
                              /\ Genuine(calls[d].response)'
      BY DEF ThreadOK
    <2>1. /\ calls'[d].start_time <= now'
          /\ calls'[d].outcome # None => calls'[d].pc = "done"
      BY DEF ThreadOK
    <2>2. ASSUME NEW r, r = calls'[d].response, calls'[d].pc = "update"
          PROVE  r \in Responses /\ r.request_id = d /\ r.success /\ Genuine(r)'
      <3>1. r \in Responses /\ r.request_id = d /\ r.success /\ Genuine(r)
        BY <2>2 DEF ThreadOK
      <3> QED  BY <3>1, StableKeeps
    <2>3. calls'[d].pc = "update" =>
             /\ calls'[d].response \in Responses
             /\ calls'[d].response.request_id = d
             /\ calls'[d].response.success
      BY <2>2
    <2>4. calls'[d].pc = "update" => Genuine(calls[d].response)'
      BY <2>2 DEF Genuine
    <2> QED  BY <2>1, <2>3, <2>4
  <1>2. AnswerIsTheSensors'
    BY DEF AnswerIsTheSensors
  <1> QED  BY <1>1, <1>2

\* A thread that moves on without touching a queue keeps the invariant, if what
\* is said of threads still holds of it.
LEMMA ThreadMoves ==
    ASSUME IInv, TypeOK', NEW c \in Calls,
           UNCHANGED <<outbox, cmds, replies, verdicts, now>>,
           \A d \in Calls : mqtt_responses'[d] \in {mqtt_responses[d], None},
           \A d \in Calls \ {c} : calls'[d] = calls[d],
           calls'[c].start_time = calls[c].start_time,
           calls[c].pc # "idle" => calls'[c].device_id = calls[c].device_id,
           calls'[c].pc # "idle",
           calls'[c].outcome # None => calls'[c].pc = "done",
           calls'[c].pc = "update" =>
              /\ calls'[c].response \in Responses
              /\ calls'[c].response.request_id = c
              /\ calls'[c].response.success
              /\ Genuine(calls'[c].response),
           calls'[c].outcome = "SUCCESS" =>
              <<calls'[c].device_id, TRUE>> \in verdicts[c],
           calls'[c].outcome = "sensor error" =>
              <<calls'[c].device_id, FALSE>> \in verdicts[c]
    PROVE  IInv'
  <1> USE DEF IInv
  <1>1. Stable
    BY DEF Stable
  <1>2. NewOutbox /\ NewCmds /\ NewReplies /\ NewStored
    BY DEF NewOutbox, NewCmds, NewReplies, NewStored
  <1>3. calls'[c].start_time <= now
    BY DEF ThreadOK
  <1> QED  BY <1>1, <1>2, <1>3, ThreadChanges, Provenance

\* A thread that ends, or that goes on to update with a response.
LEMMA ThreadEnds ==
    ASSUME NEW t \in Threads, NEW o \in Outcomes
    PROVE  LET u == [t EXCEPT !.pc = "done", !.outcome = o] IN
           /\ u \in Threads
           /\ u.pc = "done" /\ u.outcome = o
           /\ u.device_id = t.device_id /\ u.start_time = t.start_time
  BY DEF Threads

\* What the updates of a thread make of the types of its variables.
LEMMA ThreadUpdates ==
    ASSUME NEW t \in Threads, NEW r \in Responses
    PROVE  LET u == [t EXCEPT !.pc = "update", !.response = r] IN
           /\ u \in Threads
           /\ u.pc = "update" /\ u.response = r /\ u.outcome = t.outcome
           /\ u.device_id = t.device_id /\ u.start_time = t.start_time
  BY DEF Threads

\* The four outcomes of a call that ends are different from one another.
LEMMA OutcomesDiffer ==
    /\ "SUCCESS" \in Outcomes /\ "sensor error" \in Outcomes
    /\ "not found" \in Outcomes /\ "not sent" \in Outcomes /\ "timeout" \in Outcomes
    /\ "SUCCESS" # "sensor error"
    /\ None # "SUCCESS" /\ None # "sensor error"
  BY NoneAssumption DEF Outcomes

\* A call that ends without hearing from a sensor.
LEMMA EndsUnheard ==
    ASSUME IInv, NEW c \in Calls, NEW o \in {"not found", "timeout"},
           calls' = [calls EXCEPT ![c] = [calls[c] EXCEPT !.pc = "done", !.outcome = o]],
           UNCHANGED <<connected_devices, mqtt_responses, callback>>,
           UNCHANGED <<mqttVars, sensorVars, boundVars>>
    PROVE  IInv'
  <1> USE DEF IInv, mqttVars, sensorVars, boundVars
  <1> DEFINE u == [calls[c] EXCEPT !.pc = "done", !.outcome = o]
  <1>1. calls \in [Calls -> Threads] /\ calls[c] \in Threads /\ o \in Outcomes
    BY OutcomesDiffer DEF TypeOK
  <1>2. /\ u \in Threads
        /\ u.pc = "done" /\ u.outcome = o
        /\ u.device_id = calls[c].device_id /\ u.start_time = calls[c].start_time
    BY <1>1, ThreadEnds
  <1> HIDE DEF u
  <1>3. calls' \in [Calls -> Threads] /\ calls'[c] = u
        /\ \A d \in Calls \ {c} : calls'[d] = calls[d]
    BY <1>1, <1>2 DEF u
  <1>4. TypeOK'
    BY <1>3 DEF TypeOK
  <1> QED  BY <1>2, <1>3, <1>4, ThreadMoves

\* A command for a device that is not registered preserves the invariant.
LEMMA SendToUnknownInv ==
    ASSUME IInv, NEW c \in Calls, NEW s \in Sensors, SendToUnknown(c, s)
    PROVE  IInv'
  BY EndsUnheard DEF SendToUnknown, Finish

\* A caller that gives up preserves the invariant.
LEMMA GiveUpInv ==
    ASSUME IInv, NEW c \in Calls, GiveUp(c)
    PROVE  IInv'
  BY EndsUnheard DEF GiveUp, Finish

\* A response that is stored belongs to the thread that pops it.
LEMMA PopResponseInv ==
    ASSUME IInv, NEW c \in Calls, PopResponse(c)
    PROVE  IInv'
  <1> USE DEF IInv, PopResponse, Finish, mqttVars, sensorVars, boundVars
  <1> DEFINE r == mqtt_responses[c]
             u == [calls[c] EXCEPT !.pc = "update", !.response = r]
             v == [calls[c] EXCEPT !.pc = "done", !.outcome = "sensor error"]
  <1>1. /\ calls \in [Calls -> Threads] /\ calls[c] \in Threads
        /\ mqtt_responses \in [Calls -> Responses \cup {None}] /\ r \in Responses
        /\ "sensor error" \in Outcomes
    BY OutcomesDiffer DEF TypeOK
  <1>2. /\ r.request_id = c /\ Genuine(r)
        /\ calls[c].outcome = None
        /\ r.success \in BOOLEAN
        /\ <<calls[c].device_id, r.success>> \in verdicts[c]
    <2>1. r.request_id = c /\ Genuine(r)
      BY DEF StoredOK
    <2>2. calls[c].outcome = None
      BY DEF ThreadOK
    <2>3. r.success \in BOOLEAN
      BY <1>1 DEF Responses
    <2> QED  BY <2>1, <2>2, <2>3 DEF Genuine
  <1>3. /\ u \in Threads
        /\ u.pc = "update" /\ u.response = r /\ u.outcome = None
        /\ u.device_id = calls[c].device_id /\ u.start_time = calls[c].start_time
    BY <1>1, <1>2, ThreadUpdates
  <1>4. /\ v \in Threads
        /\ v.pc = "done" /\ v.outcome = "sensor error"
        /\ v.device_id = calls[c].device_id /\ v.start_time = calls[c].start_time
    BY <1>1, ThreadEnds
  <1>5. calls' = [calls EXCEPT ![c] = IF r.success THEN u ELSE v]
    OBVIOUS
  <1> HIDE DEF u, v
  <1>6. /\ calls' \in [Calls -> Threads] /\ calls'[c] = IF r.success THEN u ELSE v
        /\ \A d \in Calls \ {c} : calls'[d] = calls[d]
        /\ mqtt_responses' \in [Calls -> Responses \cup {None}]
        /\ \A d \in Calls : mqtt_responses'[d] \in {mqtt_responses[d], None}
    BY <1>1, <1>3, <1>4, <1>5
  <1>7. TypeOK'
    BY <1>6 DEF TypeOK
  <1>8. CASE r.success
    <2>1. r.success = TRUE /\ calls'[c] = u
      BY <1>2, <1>6, <1>8
    <2>2. <<u.device_id, TRUE>> \in verdicts[c]
      BY <1>2, <1>3, <2>1
    <2>3. /\ calls'[c].response \in Responses
          /\ calls'[c].response.request_id = c
          /\ calls'[c].response.success
          /\ Genuine(calls'[c].response)
      BY <1>1, <1>2, <1>3, <1>8, <2>1
    <2>4. /\ calls'[c].pc = "update" /\ calls'[c].outcome = None
          /\ calls'[c].device_id = calls[c].device_id
          /\ calls'[c].start_time = calls[c].start_time
      BY <1>2, <1>3, <2>1
    <2>5. UNCHANGED <<outbox, cmds, replies, verdicts, now>>
      OBVIOUS
    <2>6. /\ calls'[c].pc # "idle"
          /\ calls'[c].outcome # "SUCCESS" /\ calls'[c].outcome # "sensor error"
      BY <2>4, OutcomesDiffer
    <2>7. /\ \A d \in Calls \ {c} : calls'[d] = calls[d]
          /\ \A d \in Calls : mqtt_responses'[d] \in {mqtt_responses[d], None}
      BY <1>6
    <2> HIDE DEF PopResponse, r, u, v, IInv
    <2> QED
      BY <1>7, <2>3, <2>4, <2>5, <2>6, <2>7, ThreadMoves
  <1>9. CASE ~r.success
    <2>1. r.success = FALSE
      BY <1>2, <1>9
    <2>2. /\ calls'[c].pc = "done" /\ calls'[c].outcome = "sensor error"
          /\ calls'[c].device_id = calls[c].device_id
          /\ calls'[c].start_time = calls[c].start_time
      BY <1>4, <1>6, <2>1
    <2>3. <<calls'[c].device_id, FALSE>> \in verdicts[c]
      BY <1>2, <2>1, <2>2
    <2>4. UNCHANGED <<outbox, cmds, replies, verdicts, now>>
      OBVIOUS
    <2>5. /\ \A d \in Calls \ {c} : calls'[d] = calls[d]
          /\ \A d \in Calls : mqtt_responses'[d] \in {mqtt_responses[d], None}
      BY <1>6
    <2> HIDE DEF PopResponse, r, u, v, IInv
    <2> QED
      BY <1>7, <2>2, <2>3, <2>4, <2>5, OutcomesDiffer, ThreadMoves
  <1> QED  BY <1>8, <1>9

\* A thread about to update holds a response that says success.
LEMMA UpdateDeviceInv ==
    ASSUME IInv, NEW c \in Calls, UpdateDevice(c)
    PROVE  IInv'
  <1> USE DEF IInv, UpdateDevice, Finish, mqttVars, sensorVars, boundVars
  <1> DEFINE r == calls[c].response
             u == [calls[c] EXCEPT !.pc = "done", !.outcome = "SUCCESS"]
  <1>1. /\ calls \in [Calls -> Threads] /\ calls[c] \in Threads
        /\ r \in Responses /\ r.request_id = c /\ r.success /\ Genuine(r)
        /\ "SUCCESS" \in Outcomes
    BY OutcomesDiffer DEF TypeOK, ThreadOK
  <1>2. /\ u \in Threads
        /\ u.pc = "done" /\ u.outcome = "SUCCESS"
        /\ u.device_id = calls[c].device_id /\ u.start_time = calls[c].start_time
    BY <1>1, ThreadEnds
  <1>3. /\ r.status \in Statuses /\ calls[c].device_id = r.device_id
        /\ r.device_id \in Sensors /\ r.success = TRUE
    BY <1>1 DEF Responses, Genuine
  <1>4. <<calls[c].device_id, TRUE>> \in verdicts[c]
    BY <1>1, <1>3 DEF Genuine
  <1>5. connected_devices' \in [Sensors -> Entries \cup {None}]
    <2>1. connected_devices \in [Sensors -> Entries \cup {None}]
      BY DEF TypeOK
    <2>2. CASE Registered(r.device_id)
      <3>1. [connected_devices[r.device_id] EXCEPT !.status = r.status] \in Entries
        BY <1>3, <2>1, <2>2 DEF Registered, Entries
      <3>2. connected_devices' = [connected_devices EXCEPT ![r.device_id].status = r.status]
        BY <1>3, <2>2 DEF WithStatus
      <3> QED  BY <1>3, <2>1, <3>1, <3>2
    <2>3. CASE ~Registered(r.device_id)
      BY <1>3, <2>1, <2>3 DEF WithStatus
    <2> QED  BY <2>2, <2>3
  <1> HIDE DEF u
  <1>6. /\ calls' \in [Calls -> Threads] /\ calls'[c] = u
        /\ \A d \in Calls \ {c} : calls'[d] = calls[d]
    BY <1>1, <1>2 DEF u
  <1>7. TypeOK'
    BY <1>5, <1>6 DEF TypeOK
  <1> QED  BY <1>2, <1>4, <1>6, <1>7, OutcomesDiffer, ThreadMoves

\* A command is queued for the sensor its call names.
LEMMA SendCommandInv ==
    ASSUME IInv, NEW c \in Calls, NEW s \in Sensors, NEW t \in Requests,
           SendCommand(c, s, t)
    PROVE  IInv'
  <1> USE DEF IInv, SendCommand
  <1> DEFINE m == [request_id |-> c, device_id |-> s, command_type |-> t]
             p == IF gatewayUp THEN "polling" ELSE "done"
             o == IF gatewayUp THEN None ELSE "not sent"
             u == [calls[c] EXCEPT !.pc = p, !.outcome = o, !.device_id = s,
                                   !.command_type = t, !.start_time = now]
  <1>1. /\ calls \in [Calls -> Threads] /\ calls[c] \in Threads
        /\ outbox \in Seq(Commands) /\ now \in Int
        /\ t \in CommandTypes
    BY SetsAssumption DEF TypeOK
  <1>2. /\ m \in Commands /\ m.request_id = c /\ m.device_id = s
        /\ outbox' = Append(outbox, m)
    BY <1>1 DEF Commands
  <1>3. /\ p \in {"polling", "done"} /\ o \in {None, "not sent"}
        /\ o # None => p = "done"
    OBVIOUS
  <1>4. calls' = [calls EXCEPT ![c] = u]
    OBVIOUS
  <1> HIDE DEF p, o
  <1>5. /\ u \in Threads /\ u.pc = p /\ u.outcome = o
        /\ u.device_id = s /\ u.start_time = now
    BY <1>1, <1>3, OutcomesDiffer DEF Threads
  <1>6. /\ calls' \in [Calls -> Threads] /\ calls'[c] = u
        /\ \A d \in Calls \ {c} : calls'[d] = calls[d]
    <2> HIDE DEF u
    <2> QED  BY <1>1, <1>4, <1>5
  <1> HIDE DEF u, m
  <1>7. Stable
    BY <1>6 DEF Stable, sensorVars
  <1>8. outbox' \in Seq(Commands) /\ Elems(outbox') = Elems(outbox) \cup {m}
    BY <1>1, <1>2, AppendElems
  <1>9. Sent(m)'
    BY <1>2, <1>3, <1>5, <1>6 DEF Sent
  <1>10. NewOutbox /\ NewCmds /\ NewReplies /\ NewStored
    BY <1>8, <1>9 DEF NewOutbox, NewCmds, NewReplies, NewStored
  <1>11. TypeOK'
    BY <1>6, <1>8 DEF TypeOK, sensorVars, boundVars
  <1>12. ThreadOK' /\ AnswerIsTheSensors'
    <2>1. UNCHANGED <<verdicts, now>>
      BY DEF sensorVars, boundVars
    <2> HIDE DEF SendCommand, IInv
    <2>2. /\ calls'[c].pc \in {"polling", "done"} /\ calls'[c].start_time <= now
          /\ calls'[c].outcome \in {None, "not sent"}
          /\ calls'[c].outcome # None => calls'[c].pc = "done"
      <3>1. /\ calls'[c].pc = p /\ calls'[c].outcome = o
            /\ calls'[c].start_time = now
        BY <1>5, <1>6
      <3>2. calls'[c].start_time <= now
        BY <1>1, <3>1
      <3>3. /\ calls'[c].pc \in {"polling", "done"}
            /\ calls'[c].outcome \in {None, "not sent"}
            /\ calls'[c].outcome # None => calls'[c].pc = "done"
        BY <1>3, <3>1, Zenon
      <3> QED  BY <3>2, <3>3
    <2>3. calls'[c].outcome # "SUCCESS" /\ calls'[c].outcome # "sensor error"
      BY <2>2, OutcomesDiffer
    <2>4. calls'[c].pc # "update"
      BY <2>2
    <2> QED  BY <1>6, <1>7, <2>1, <2>2, <2>3, <2>4, ThreadChanges
  <1> QED  BY <1>7, <1>10, <1>11, <1>12, Provenance

-----------------------------------------------------------------------------
(* The gateway's MQTT thread and main thread                               *)

\* A step of anything but a client's thread.
LEMMA SystemMoves ==
    ASSUME IInv, TypeOK', UNCHANGED calls, now' >= now,
           \A c \in Calls : verdicts[c] \subseteq verdicts'[c],
           NewOutbox, NewCmds, NewReplies, NewStored
    PROVE  IInv'
  <1>1. Stable
    BY DEF Stable
  <1>2. now \in Int /\ now' \in Int
    BY DEF IInv, TypeOK
  <1> QED  BY <1>1, <1>2, Provenance, ThreadsKept DEF IInv

\* Writing a status into the registry keeps its type.
LEMMA WithStatusType ==
    ASSUME TypeOK, NEW s \in Sensors, NEW st \in Statuses
    PROVE  WithStatus(s, st) \in [Sensors -> Entries \cup {None}]
  BY DEF TypeOK, WithStatus, Registered, Entries

\* What a sensor's message taken from its queue leaves behind.
LEMMA Received ==
    ASSUME IInv, NEW s \in Sensors, ReceiveFrom(s)
    PROVE  /\ replies' \in [Sensors -> Seq(Responses \cup Readings)]
           /\ Head(replies[s]) \in Elems(replies[s])
           /\ Head(replies[s]) \in Responses \cup Readings
           /\ NewReplies
  <1> USE DEF IInv, ReceiveFrom
  <1>1. /\ replies \in [Sensors -> Seq(Responses \cup Readings)]
        /\ replies[s] \in Seq(Responses \cup Readings) /\ replies[s] # << >>
    BY DEF TypeOK
  <1>2. /\ Tail(replies[s]) \in Seq(Responses \cup Readings)
        /\ Elems(Tail(replies[s])) \subseteq Elems(replies[s])
        /\ Head(replies[s]) \in Elems(replies[s])
        /\ Head(replies[s]) \in Responses \cup Readings
    BY <1>1, TailElems
  <1>3. /\ replies' \in [Sensors -> Seq(Responses \cup Readings)]
        /\ replies'[s] = Tail(replies[s])
        /\ \A x \in Sensors \ {s} : replies'[x] = replies[x]
    BY <1>1, <1>2
  <1>4. NewReplies
    BY <1>2, <1>3 DEF NewReplies
  <1> QED  BY <1>2, <1>3, <1>4

\* The handling of a reading preserves the invariant.
LEMMA HandleSensorDataInv ==
    ASSUME IInv, NEW s \in Sensors, HandleSensorData(s)
    PROVE  IInv'
  <1> USE DEF IInv, HandleSensorData, sensorVars, boundVars
  <1>1. /\ replies' \in [Sensors -> Seq(Responses \cup Readings)]
        /\ Head(replies[s]) \in Responses \cup Readings
        /\ NewReplies
    BY Received
  <1>2. Head(replies[s]).status \in Statuses
    BY <1>1 DEF Responses, Readings
  <1>3. connected_devices' \in [Sensors -> Entries \cup {None}]
    BY <1>2 DEF TypeOK, Entries
  <1>4. TypeOK'
    BY <1>1, <1>3 DEF TypeOK, ReceiveFrom
  <1>5. NewOutbox /\ NewCmds /\ NewStored /\ now' >= now
    BY DEF NewOutbox, NewCmds, NewStored, TypeOK
  <1> QED  BY <1>1, <1>4, <1>5, SystemMoves

\* The response that is stored came from a sensor's queue.
LEMMA HandleCommandResponseInv ==
    ASSUME IInv, NEW s \in Sensors, HandleCommandResponse(s)
    PROVE  IInv'
  <1> USE DEF IInv, HandleCommandResponse, sensorVars, boundVars
  <1> DEFINE m == Head(replies[s])
  <1>1. /\ replies' \in [Sensors -> Seq(Responses \cup Readings)]
        /\ m \in Elems(replies[s])
        /\ NewReplies
    BY Received
  <1>2. m.topic = "response"
    OBVIOUS
  <1> HIDE DEF m
  <1>3. /\ mqtt_responses \in [Calls -> Responses \cup {None}]
        /\ mqtt_responses' = IF m.request_id = None THEN mqtt_responses
                             ELSE [mqtt_responses EXCEPT ![m.request_id] = m]
        /\ callback' = IF m.request_id = None THEN None ELSE m
    BY DEF m, TypeOK
  <1>4. m \in Responses /\ m.request_id \in Calls \cup {None}
    BY <1>1, <1>2 DEF RepliesOK, Responses
  <1>5. /\ mqtt_responses' \in [Calls -> Responses \cup {None}]
        /\ \A c \in Calls : mqtt_responses'[c] # mqtt_responses[c] =>
              mqtt_responses'[c] = m /\ m.request_id = c
    BY <1>3, <1>4
  <1>6. TypeOK'
    BY <1>1, <1>3, <1>4, <1>5 DEF TypeOK, ReceiveFrom
  <1>7. NewStored
    BY <1>1, <1>2, <1>5 DEF NewStored
  <1>8. NewOutbox /\ NewCmds /\ now' >= now
    BY DEF NewOutbox, NewCmds, TypeOK
  <1> QED  BY <1>1, <1>6, <1>7, <1>8, SystemMoves

\* The second half of the response handler preserves the invariant.
LEMMA ApplyResponseStatusInv ==
    ASSUME IInv, ApplyResponseStatus
    PROVE  IInv'
  <1> USE DEF IInv, ApplyResponseStatus, mqttVars, sensorVars, boundVars
  <1>1. callback.device_id \in Sensors /\ callback.status \in Statuses
    BY DEF TypeOK, Responses
  <1>2. connected_devices' \in [Sensors -> Entries \cup {None}]
    BY <1>1, WithStatusType
  <1>3. TypeOK'
    BY <1>2 DEF TypeOK
  <1> QED  BY <1>3, Frame

\* The clean-up of the responses preserves the invariant.
LEMMA CleanResponsesInv ==
    ASSUME IInv, CleanResponses
    PROVE  IInv'
  <1> USE DEF IInv, CleanResponses, mqttVars, sensorVars, boundVars
  <1>1. /\ mqtt_responses' \in [Calls -> Responses \cup {None}]
        /\ \A c \in Calls : mqtt_responses'[c] \in {mqtt_responses[c], None}
    BY DEF TypeOK
  <1>2. TypeOK'
    BY <1>1 DEF TypeOK
  <1>3. NewOutbox /\ NewCmds /\ NewReplies /\ NewStored /\ now' >= now
    BY <1>1 DEF NewOutbox, NewCmds, NewReplies, NewStored, TypeOK
  <1> QED  BY <1>2, <1>3, SystemMoves

\* The clean-up of the devices preserves the invariant.
LEMMA RemoveOfflineInv ==
    ASSUME IInv, NEW s \in Sensors, RemoveOffline(s)
    PROVE  IInv'
  <1> USE DEF IInv, RemoveOffline, mqttVars, sensorVars, boundVars
  <1>1. TypeOK'
    BY DEF TypeOK
  <1> QED  BY <1>1, Frame

-----------------------------------------------------------------------------
(* The broker and the connections                                          *)

\* A command that is routed came from the gateway's queue.
LEMMA Routed ==
    ASSUME IInv, outbox # << >>, Route(Head(outbox))
    PROVE  cmds' \in [Sensors -> Seq(Commands)] /\ NewCmds
  <1> USE DEF IInv
  <1> DEFINE m == Head(outbox)
             x == m.device_id
  <1>1. /\ outbox \in Seq(Commands) /\ cmds \in [Sensors -> Seq(Commands)]
        /\ cmds' = IF link[x] = "subscribed"
                   THEN [cmds EXCEPT ![x] = Append(cmds[x], m)] ELSE cmds
    BY DEF TypeOK, Route
  <1>2. m \in Commands /\ m \in Elems(outbox)
    BY <1>1, TailElems
  <1> HIDE DEF m
  <1>3. x \in Sensors /\ cmds[x] \in Seq(Commands)
    BY <1>1, <1>2 DEF Commands
  <1>4. /\ Append(cmds[x], m) \in Seq(Commands)
        /\ Elems(Append(cmds[x], m)) = Elems(cmds[x]) \cup {m}
    BY <1>2, <1>3, AppendElems
  <1>5. m.device_id = x
    OBVIOUS
  <1> HIDE DEF x
  <1>6. cmds' \in [Sensors -> Seq(Commands)]
    BY <1>1, <1>3, <1>4
  <1>7. \A s \in Sensors : cmds'[s] = cmds[s] \/ (s = x /\ cmds'[s] = Append(cmds[x], m))
    BY <1>1, <1>3, <1>4
  <1>8. NewCmds
    BY <1>2, <1>4, <1>5, <1>7 DEF NewCmds
  <1> QED  BY <1>6, <1>8

\* What is lost with the gateway's connection adds nothing.
LEMMA Lost ==
    ASSUME IInv, LoseGateway
    PROVE  /\ replies' \in [Sensors -> Seq(Responses \cup Readings)]
           /\ NewReplies /\ gatewayUp' \in BOOLEAN /\ faults' \in Nat /\ now' = now
  <1>1. /\ << >> \in Seq(Responses \cup Readings) /\ Elems(<< >>) = {}
        /\ replies' = [s \in Sensors |-> << >>]
    BY EmptyElems DEF LoseGateway
  <1>2. faults \in Nat /\ faults' = faults + 1 /\ now' = now /\ gatewayUp' = FALSE
    BY DEF IInv, TypeOK, LoseGateway, Fault
  <1>3. gatewayUp' \in BOOLEAN /\ replies' \in [Sensors -> Seq(Responses \cup Readings)]
    <2>1. gatewayUp' \in BOOLEAN
      BY <1>2
    <2>2. replies' \in [Sensors -> Seq(Responses \cup Readings)]
      BY <1>1
    <2> QED  BY <2>1, <2>2
  <1>4. \A s \in Sensors : Elems(replies'[s]) = {}
    BY <1>1
  <1>5. NewReplies
    BY <1>4 DEF NewReplies
  <1> QED  BY <1>2, <1>3, <1>5

\* A publication that reaches the broker preserves the invariant.
LEMMA BrokerAcceptInv ==
    ASSUME IInv, BrokerAccept
    PROVE  IInv'
  <1> USE DEF IInv, BrokerAccept, gatewayVars, sensorVars, boundVars
  <1>1. outbox \in Seq(Commands) /\ outbox # << >>
    BY DEF TypeOK
  <1>2. Tail(outbox) \in Seq(Commands) /\ Elems(Tail(outbox)) \subseteq Elems(outbox)
    BY <1>1, TailElems
  <1>3. cmds' \in [Sensors -> Seq(Commands)] /\ NewCmds
    BY Routed
  <1>4. TypeOK'
    BY <1>2, <1>3 DEF TypeOK
  <1>5. NewOutbox /\ NewReplies /\ NewStored /\ now' >= now
    BY <1>2 DEF NewOutbox, NewReplies, NewStored, TypeOK
  <1> QED  BY <1>3, <1>4, <1>5, SystemMoves

\* A publication that is sent a second time preserves the invariant.
LEMMA BrokerAcceptAckLostInv ==
    ASSUME IInv, BrokerAcceptAckLost
    PROVE  IInv'
  <1> USE DEF IInv, BrokerAcceptAckLost, gatewayVars, sensorVars
  <1>1. cmds' \in [Sensors -> Seq(Commands)] /\ NewCmds
    BY Routed
  <1>2. /\ replies' \in [Sensors -> Seq(Responses \cup Readings)]
        /\ NewReplies /\ gatewayUp' \in BOOLEAN /\ faults' \in Nat /\ now' = now
    BY Lost
  <1>3. TypeOK'
    BY <1>1, <1>2 DEF TypeOK
  <1>4. NewOutbox /\ NewStored /\ now' >= now
    BY <1>2 DEF NewOutbox, NewStored, TypeOK
  <1> QED  BY <1>1, <1>2, <1>3, <1>4, SystemMoves

\* The loss of the gateway's connection preserves the invariant.
LEMMA GatewayDisconnectInv ==
    ASSUME IInv, GatewayDisconnect
    PROVE  IInv'
  <1> USE DEF IInv, GatewayDisconnect, gatewayVars, sensorVars
  <1>1. /\ replies' \in [Sensors -> Seq(Responses \cup Readings)]
        /\ NewReplies /\ gatewayUp' \in BOOLEAN /\ faults' \in Nat /\ now' = now
    BY Lost
  <1>2. TypeOK'
    BY <1>1 DEF TypeOK
  <1>3. NewOutbox /\ NewCmds /\ NewStored /\ now' >= now
    BY <1>1 DEF NewOutbox, NewCmds, NewStored, TypeOK
  <1> QED  BY <1>1, <1>2, <1>3, SystemMoves

\* The return of the gateway's connection preserves the invariant.
LEMMA GatewayReconnectInv ==
    ASSUME IInv, GatewayReconnect
    PROVE  IInv'
  <1> USE DEF IInv, GatewayReconnect, gatewayVars, sensorVars, boundVars
  <1>1. TypeOK'
    BY DEF TypeOK
  <1> QED  BY <1>1, Frame

\* The commands on their way to one sensor are lost.
LEMMA CommandsLost ==
    ASSUME TypeOK, NEW s \in Sensors, cmds' = [cmds EXCEPT ![s] = << >>]
    PROVE  cmds' \in [Sensors -> Seq(Commands)] /\ NewCmds
  <1>1. /\ << >> \in Seq(Commands) /\ Elems(<< >>) = {}
        /\ cmds \in [Sensors -> Seq(Commands)]
    BY EmptyElems DEF TypeOK
  <1> QED  BY <1>1 DEF NewCmds

\* The loss of a sensor's connection preserves the invariant.
LEMMA SensorDisconnectInv ==
    ASSUME IInv, NEW s \in Sensors, SensorDisconnect(s)
    PROVE  IInv'
  <1> USE DEF IInv, SensorDisconnect, Fault, gatewayVars, sensorVars
  <1>1. cmds' \in [Sensors -> Seq(Commands)] /\ NewCmds
    BY CommandsLost
  <1>2. link' \in [Sensors -> {"down", "connected", "subscribed"}]
    BY DEF TypeOK
  <1>3. TypeOK'
    BY <1>1, <1>2 DEF TypeOK
  <1>4. NewOutbox /\ NewReplies /\ NewStored /\ now' >= now
    BY DEF NewOutbox, NewReplies, NewStored, TypeOK
  <1> QED  BY <1>1, <1>3, <1>4, SystemMoves

\* The return of a sensor's connection preserves the invariant.
LEMMA SensorReconnectInv ==
    ASSUME IInv, NEW s \in Sensors, SensorReconnect(s)
    PROVE  IInv'
  <1> USE DEF IInv, SensorReconnect, gatewayVars, sensorVars, boundVars
  <1>1. link' \in [Sensors -> {"down", "connected", "subscribed"}]
    BY DEF TypeOK
  <1>2. TypeOK'
    BY <1>1 DEF TypeOK
  <1> QED  BY <1>2, Frame

-----------------------------------------------------------------------------
(* The sensor                                                              *)

\* What a sensor publishes joins its queue, or is lost.
LEMMA Published ==
    ASSUME IInv, NEW s \in Sensors, NEW m \in Responses \cup Readings,
           Publication(s, m),
           m.topic = "response" =>
              m \in Responses /\ (m.request_id # None => Genuine(m)')
    PROVE  replies' \in [Sensors -> Seq(Responses \cup Readings)] /\ NewReplies
  <1> DEFINE M == Responses \cup Readings
  <1>1. /\ replies \in [Sensors -> Seq(M)] /\ replies[s] \in Seq(M) /\ m \in M
    BY DEF IInv, TypeOK
  <1>2. replies' = IF gatewayUp THEN [replies EXCEPT ![s] = Append(replies[s], m)]
                   ELSE replies
    BY DEF Publication
  <1> HIDE DEF M
  <1>3. /\ Append(replies[s], m) \in Seq(M)
        /\ Elems(Append(replies[s], m)) = Elems(replies[s]) \cup {m}
    BY <1>1, AppendElems
  <1>4. /\ replies' \in [Sensors -> Seq(M)]
        /\ \A x \in Sensors :
              replies'[x] = replies[x] \/ (x = s /\ replies'[x] = Append(replies[s], m))
    <2>1. CASE gatewayUp
      <3>1. replies' = [replies EXCEPT ![s] = Append(replies[s], m)]
        BY <1>2, <2>1
      <3> QED  BY <1>1, <1>3, <3>1
    <2>2. CASE ~gatewayUp
      BY <1>1, <1>2, <2>2
    <2> QED  BY <2>1, <2>2
  <1>5. NewReplies
    BY <1>3, <1>4 DEF NewReplies
  <1> QED  BY <1>4, <1>5 DEF M

\* What a command does to the sensor, and what its response says.
LEMMA Executed ==
    ASSUME IInv, NEW s \in Sensors, Execute(s), UNCHANGED <<calls, now>>,
           NEW r, r = ResponseTo(s, Head(cmds[s]))
    PROVE  /\ sensor' \in [Sensors -> SensorStates] /\ reading' = reading
           /\ verdicts' \in [Calls -> SUBSET (Sensors \X BOOLEAN)]
           /\ \A c \in Calls : verdicts[c] \subseteq verdicts'[c]
           /\ r \in Responses
           /\ r.request_id # None => Genuine(r)'
  <1> USE DEF IInv
  <1> DEFINE m == Head(cmds[s])
             t == m.command_type
  <1>1. /\ cmds[s] \in Seq(Commands) /\ cmds[s] # << >>
        /\ sensor \in [Sensors -> SensorStates] /\ now \in Int
        /\ verdicts \in [Calls -> SUBSET (Sensors \X BOOLEAN)]
        /\ calls \in [Calls -> Threads]
    BY DEF TypeOK, Execute
  <1>2. m \in Elems(cmds[s]) /\ m \in Commands
    BY <1>1, TailElems
  <1>3. /\ sensor' = [sensor EXCEPT ![s] = SensorAfter(s, t)]
        /\ verdicts' = IF Throws(s, t) THEN verdicts
                       ELSE [verdicts EXCEPT ![m.request_id] =
                               verdicts[m.request_id] \cup {<<s, Accepts(s, t)>>}]
        /\ reading' = reading
        /\ r = ResponseTo(s, m)
    BY DEF Execute
  <1> HIDE DEF m
  <1>4. m.request_id \in Calls /\ m.device_id = s /\ t \in CommandTypes /\ Sent(m)
    BY <1>2 DEF Commands, CmdsOK
  <1>5. SensorAfter(s, t) \in SensorStates
    <2>1. sensor[s] \in SensorStates
      BY <1>1
    <2>2. StatusAfter(s, t) \in Statuses
      BY <2>1 DEF StatusAfter, SensorStates, Statuses
    <2>3. IntervalAfter(s, t) \in {"ok", "zero"}
      BY <2>1 DEF IntervalAfter, SensorStates
    <2>4. ScheduledAfter(s, t) \in BOOLEAN
      BY <2>1 DEF ScheduledAfter, SensorStates
    <2> QED  BY <2>2, <2>3, <2>4 DEF SensorAfter, SensorStates
  <1>6. Accepts(s, t) \in BOOLEAN
    BY DEF Accepts
  <1>7. Lag[s] \in Int
    BY TimeAssumption
  <1>8. StatusAfter(s, t) \in Statuses
    BY <1>5 DEF SensorAfter, SensorStates
  <1>9. /\ r \in Responses /\ r.device_id = s /\ r.success = Accepts(s, t)
        /\ r.timestamp = now - Lag[s]
        /\ r.request_id = IF Throws(s, t) THEN None ELSE m.request_id
    BY <1>1, <1>3, <1>4, <1>6, <1>7, <1>8 DEF ResponseTo, Responses
  <1>10. sensor' \in [Sensors -> SensorStates]
    BY <1>1, <1>3, <1>5
  <1>11. /\ verdicts' \in [Calls -> SUBSET (Sensors \X BOOLEAN)]
         /\ \A c \in Calls : verdicts[c] \subseteq verdicts'[c]
         /\ ~Throws(s, t) => <<s, Accepts(s, t)>> \in verdicts'[m.request_id]
    BY <1>1, <1>3, <1>4, <1>6
  <1>12. r.request_id # None => Genuine(r)'
    <2> SUFFICES ASSUME r.request_id # None PROVE Genuine(r)'
      OBVIOUS
    <2>1. r.request_id = m.request_id /\ ~Throws(s, t)
      BY <1>9
    <2>2. calls[m.request_id].start_time <= now /\ calls[m.request_id].start_time \in Int
      BY <1>1, <1>4 DEF ThreadOK, Threads
    <2>3. r.timestamp >= calls[m.request_id].start_time - Lag[r.device_id]
      BY <1>1, <1>7, <1>9, <2>2
    <2>4. /\ calls[m.request_id].pc # "idle"
          /\ calls[m.request_id].device_id = r.device_id
      BY <1>4, <1>9 DEF Sent
    <2>5. <<r.device_id, r.success>> \in verdicts'[m.request_id]
      BY <1>9, <1>11, <2>1
    <2> QED  BY <2>1, <2>3, <2>4, <2>5 DEF Genuine
  <1> QED  BY <1>3, <1>9, <1>10, <1>11, <1>12

\* A command that is carried out and answered preserves the invariant.
LEMMA HandleCommandInv ==
    ASSUME IInv, NEW s \in Sensors, HandleCommand(s)
    PROVE  IInv'
  <1> USE DEF IInv, HandleCommand, gatewayVars, boundVars
  <1>0. PICK r : r = ResponseTo(s, Head(cmds[s]))
    OBVIOUS
  <1>1. /\ sensor' \in [Sensors -> SensorStates] /\ reading' = reading
        /\ verdicts' \in [Calls -> SUBSET (Sensors \X BOOLEAN)]
        /\ \A c \in Calls : verdicts[c] \subseteq verdicts'[c]
        /\ r \in Responses
        /\ r.request_id # None => Genuine(r)'
    BY <1>0, Executed
  <1>2. replies' \in [Sensors -> Seq(Responses \cup Readings)] /\ NewReplies
    BY <1>0, <1>1, Published
  <1>3. cmds' \in [Sensors -> Seq(Commands)] /\ NewCmds
    <2>1. /\ cmds \in [Sensors -> Seq(Commands)] /\ cmds[s] \in Seq(Commands)
          /\ cmds[s] # << >> /\ cmds' = [cmds EXCEPT ![s] = Tail(cmds[s])]
      BY DEF TypeOK, Execute
    <2>2. Tail(cmds[s]) \in Seq(Commands) /\ Elems(Tail(cmds[s])) \subseteq Elems(cmds[s])
      BY <2>1, TailElems
    <2> QED  BY <2>1, <2>2 DEF NewCmds
  <1>4. TypeOK'
    BY <1>1, <1>2, <1>3 DEF TypeOK
  <1>5. NewOutbox /\ NewStored /\ now' >= now
    BY DEF NewOutbox, NewStored, TypeOK
  <1> QED  BY <1>1, <1>2, <1>3, <1>4, <1>5, SystemMoves

\* A command whose response cannot be sent preserves the invariant.
LEMMA HandleCommandOfflineInv ==
    ASSUME IInv, NEW s \in Sensors, HandleCommandOffline(s)
    PROVE  IInv'
  <1> USE DEF IInv, HandleCommandOffline, gatewayVars, Fault
  <1>0. PICK r : r = ResponseTo(s, Head(cmds[s]))
    OBVIOUS
  <1>1. /\ sensor' \in [Sensors -> SensorStates] /\ reading' = reading
        /\ verdicts' \in [Calls -> SUBSET (Sensors \X BOOLEAN)]
        /\ \A c \in Calls : verdicts[c] \subseteq verdicts'[c]
        /\ r \in Responses
        /\ r.request_id # None => Genuine(r)'
    BY <1>0, Executed
  <1>2. cmds' \in [Sensors -> Seq(Commands)] /\ NewCmds
    BY CommandsLost
  <1>3. /\ replies' \in [Sensors -> Seq(Responses \cup Readings)] /\ NewReplies
        /\ link' \in [Sensors -> {"down", "connected", "subscribed"}]
    <2>1. CASE UNCHANGED replies /\ link' = [link EXCEPT ![s] = "down"]
      BY <2>1 DEF TypeOK, NewReplies
    <2>2. CASE Publication(s, r) /\ UNCHANGED link
      <3>1. link' \in [Sensors -> {"down", "connected", "subscribed"}]
        BY <2>2 DEF TypeOK
      <3> QED  BY <1>1, <2>2, <3>1, Published
    <2> QED  BY <1>0, <2>1, <2>2
  <1>4. TypeOK'
    BY <1>1, <1>2, <1>3 DEF TypeOK
  <1>5. NewOutbox /\ NewStored /\ now' >= now
    BY DEF NewOutbox, NewStored, TypeOK
  <1> QED  BY <1>1, <1>2, <1>3, <1>4, <1>5, SystemMoves

\* A step of a sensor that publishes at most a reading.
LEMMA ReadingMoves ==
    ASSUME IInv, NEW s \in Sensors,
           UNCHANGED <<connected_devices, mqtt_responses, callback, calls, outbox,
                       gatewayUp, cmds, link, sensor, verdicts, now, faults>>,
           reading' \in [Sensors -> {"none", "checked"} \cup Statuses],
           \/ UNCHANGED replies
           \/ \E st \in Statuses : Publication(s, DataMessage(s, st))
    PROVE  IInv'
  <1> USE DEF IInv
  <1>1. replies' \in [Sensors -> Seq(Responses \cup Readings)] /\ NewReplies
    <2>1. CASE UNCHANGED replies
      BY <2>1 DEF TypeOK, NewReplies
    <2>2. ASSUME NEW st \in Statuses, Publication(s, DataMessage(s, st))
          PROVE  replies' \in [Sensors -> Seq(Responses \cup Readings)] /\ NewReplies
      <3>1. PICK m : m = DataMessage(s, st)
        OBVIOUS
      <3>2. m \in Readings /\ m.topic # "response"
        BY <3>1 DEF DataMessage, Readings
      <3>3. Publication(s, m)
        BY <2>2, <3>1
      <3> QED  BY <3>2, <3>3, Published
    <2> QED  BY <2>1, <2>2
  <1>2. TypeOK'
    BY <1>1 DEF TypeOK
  <1>3. NewOutbox /\ NewCmds /\ NewStored /\ now' >= now
    BY DEF NewOutbox, NewCmds, NewStored, TypeOK
  <1> QED  BY <1>1, <1>2, <1>3, SystemMoves

\* A step of a sensor towards its next reading preserves the invariant.
LEMMA ReadingStepInv ==
    ASSUME IInv, NEW s \in Sensors, ReadingStep(s)
    PROVE  IInv'
  <1> USE DEF gatewayVars, mqttVars, sensorVars, boundVars
  <1>1. /\ sensor \in [Sensors -> SensorStates]
        /\ reading \in [Sensors -> {"none", "checked"} \cup Statuses]
    BY DEF IInv, TypeOK
  <1>2. CASE CheckStatus(s)
    <2>1. reading' \in [Sensors -> {"none", "checked"} \cup Statuses]
      BY <1>1, <1>2 DEF CheckStatus
    <2> QED  BY <1>2, <2>1, ReadingMoves DEF CheckStatus
  <1>3. CASE BuildReading(s)
    <2>1. sensor[s].status \in Statuses
      BY <1>1 DEF SensorStates
    <2>2. reading' \in [Sensors -> {"none", "checked"} \cup Statuses]
      BY <1>1, <1>3, <2>1 DEF BuildReading
    <2> QED  BY <1>3, <2>2, ReadingMoves DEF BuildReading
  <1>4. CASE PublishReading(s)
    <2>1. reading' \in [Sensors -> {"none", "checked"} \cup Statuses]
      BY <1>1, <1>4 DEF PublishReading
    <2> QED  BY <1>4, <2>1, ReadingMoves DEF PublishReading
  <1>5. CASE LoopPublish(s)
    <2>1. "ACTIVE" \in Statuses
      BY DEF Statuses
    <2> QED  BY <1>1, <1>5, <2>1, ReadingMoves DEF LoopPublish
  <1> QED  BY <1>2, <1>3, <1>4, <1>5 DEF ReadingStep

\* The restart of a sensor preserves the invariant.
LEMMA SensorRestartInv ==
    ASSUME IInv, NEW s \in Sensors, SensorRestart(s)
    PROVE  IInv'
  <1> USE DEF IInv, SensorRestart, Fault
  <1>1. cmds' \in [Sensors -> Seq(Commands)] /\ NewCmds
    BY CommandsLost
  <1>2. StartedSensor \in SensorStates /\ RegisteredEntry("ACTIVE") \in Entries
    BY DEF StartedSensor, SensorStates, RegisteredEntry, Entries, Statuses
  <1>3. /\ sensor' \in [Sensors -> SensorStates]
        /\ connected_devices' \in [Sensors -> Entries \cup {None}]
    BY <1>2 DEF TypeOK
  <1>4. /\ reading' \in [Sensors -> {"none", "checked"} \cup Statuses]
        /\ link' \in [Sensors -> {"down", "connected", "subscribed"}]
        /\ faults' \in Nat
    BY DEF TypeOK
  <1>5. TypeOK'
    BY <1>1, <1>3, <1>4 DEF TypeOK
  <1>6. NewOutbox /\ NewReplies /\ NewStored /\ now' >= now
    BY DEF NewOutbox, NewReplies, NewStored, TypeOK
  <1> QED  BY <1>1, <1>5, <1>6, SystemMoves

\* The passing of time preserves the invariant.
LEMMA TickInv ==
    ASSUME IInv, Tick
    PROVE  IInv'
  <1> USE DEF IInv, Tick, gatewayVars, mqttVars, sensorVars
  <1>1. TypeOK'
    BY DEF TypeOK
  <1>2. NewOutbox /\ NewCmds /\ NewReplies /\ NewStored /\ now' >= now
    BY DEF NewOutbox, NewCmds, NewReplies, NewStored, TypeOK
  <1> QED  BY <1>1, <1>2, SystemMoves

-----------------------------------------------------------------------------
(* The theorems                                                            *)

\* Every step keeps the invariant.
LEMMA NextInv ==
    ASSUME IInv, [Next]_vars
    PROVE  IInv'
  <1>1. CASE \E c \in Calls, s \in Sensors : SendToUnknown(c, s)
    BY <1>1, SendToUnknownInv
  <1>2. CASE \E c \in Calls, s \in Sensors, t \in Requests : SendCommand(c, s, t)
    BY <1>2, SendCommandInv
  <1>3. CASE \E c \in Calls : PopResponse(c) \/ GiveUp(c) \/ UpdateDevice(c)
    BY <1>3, PopResponseInv, GiveUpInv, UpdateDeviceInv
  <1>4. CASE \E s \in Sensors : HandleSensorData(s) \/ HandleCommandResponse(s)
    BY <1>4, HandleSensorDataInv, HandleCommandResponseInv
  <1>5. CASE ApplyResponseStatus \/ CleanResponses
    BY <1>5, ApplyResponseStatusInv, CleanResponsesInv
  <1>6. CASE \E s \in Sensors : RemoveOffline(s)
    BY <1>6, RemoveOfflineInv
  <1>7. CASE BrokerAccept \/ BrokerAcceptAckLost
    BY <1>7, BrokerAcceptInv, BrokerAcceptAckLostInv
  <1>8. CASE GatewayDisconnect \/ GatewayReconnect
    BY <1>8, GatewayDisconnectInv, GatewayReconnectInv
  <1>9. CASE \E s \in Sensors : SensorDisconnect(s) \/ SensorReconnect(s)
    BY <1>9, SensorDisconnectInv, SensorReconnectInv
  <1>10. CASE \E s \in Sensors : HandleCommand(s) \/ HandleCommandOffline(s)
    BY <1>10, HandleCommandInv, HandleCommandOfflineInv
  <1>11. CASE \E s \in Sensors : ReadingStep(s)
    BY <1>11, ReadingStepInv
  <1>12. CASE \E s \in Sensors : SensorRestart(s)
    BY <1>12, SensorRestartInv
  <1>13. CASE Tick
    BY <1>13, TickInv
  <1>14. CASE UNCHANGED vars
    <2>1. TypeOK'
      BY <1>14 DEF IInv, TypeOK, vars
    <2> QED  BY <1>14, <2>1, Frame DEF vars
  <1> QED
    BY <1>1, <1>2, <1>3, <1>4, <1>5, <1>6, <1>7, <1>8, <1>9, <1>10, <1>11, <1>12,
       <1>13, <1>14 DEF Next, ReadingStep

\* The inductive invariant holds in every reachable state.
THEOREM Invariance == Spec => []IInv
  <1>1. Init => IInv
    BY InitInv
  <1>2. IInv /\ [Next]_vars => IInv'
    BY NextInv
  <1> QED  BY <1>1, <1>2, PTL DEF Spec

\* The state always has its type: in particular whatever is stored under a
\* request_id is a response, and the registry holds entries and nothing else.
THEOREM TypeCorrect == Spec => []TypeOK
  <1>1. IInv => TypeOK
    BY DEF IInv
  <1> QED  BY <1>1, Invariance, PTL

\* Whatever is delayed, lost, repeated or cleaned up, a call is answered
\* SUCCESS, or with the sensor's error, only if the sensor it was addressed to
\* accepted, or refused, that very call.
THEOREM AnswersAreTheSensors == Spec => []AnswerIsTheSensors
  <1>1. IInv => AnswerIsTheSensors
    BY DEF IInv
  <1> QED  BY <1>1, Invariance, PTL

\* A step that is not the clean-up removes a stored response only by popping it.
LEMMA OnlyPopped ==
    ASSUME IInv, [Next]_vars, ~CleanResponses, NEW c \in Calls,
           mqtt_responses[c] # None, mqtt_responses'[c] = None
    PROVE  calls'[c].pc # "polling"
  <1> USE DEF gatewayVars, mqttVars, sensorVars, boundVars
  <1>1. mqtt_responses \in [Calls -> Responses \cup {None}] /\ calls \in [Calls -> Threads]
    BY DEF IInv, TypeOK
  <1>2. ASSUME NEW d \in Calls, PopResponse(d)
        PROVE  calls'[c].pc # "polling"
    <2>1. d = c
      BY <1>1, <1>2 DEF PopResponse
    <2>2. calls'[c].pc \in {"update", "done"}
      BY <1>1, <1>2, <2>1 DEF PopResponse, Finish, Threads
    <2> QED  BY <2>2
  <1>3. ASSUME NEW s \in Sensors, HandleCommandResponse(s)
        PROVE  FALSE
    <2>1. PICK m : m = Head(replies[s])
      OBVIOUS
    <2>2. m \in Elems(replies[s]) /\ m.topic = "response"
      BY <1>3, <2>1, Received DEF HandleCommandResponse
    <2>3. m \in Responses
      BY <2>2 DEF IInv, RepliesOK
    <2>4. mqtt_responses' = IF m.request_id = None THEN mqtt_responses
                            ELSE [mqtt_responses EXCEPT ![m.request_id] = m]
      BY <1>3, <2>1 DEF HandleCommandResponse
    <2> QED  BY <1>1, <2>3, <2>4, NoneAssumption DEF Responses
  <1>4. CASE UNCHANGED mqtt_responses
    BY <1>4
  <1>5. \/ UNCHANGED mqtt_responses
        \/ \E d \in Calls : PopResponse(d)
        \/ \E s \in Sensors : HandleCommandResponse(s)
    BY DEF Next, vars, SendToUnknown, SendCommand, GiveUp, UpdateDevice,
           HandleSensorData, ApplyResponseStatus, RemoveOffline, BrokerAccept,
           BrokerAcceptAckLost, GatewayDisconnect, GatewayReconnect,
           SensorDisconnect, SensorReconnect, HandleCommand, HandleCommandOffline,
           CheckStatus, BuildReading, PublishReading, LoopPublish, SensorRestart, Tick
  <1> QED  BY <1>2, <1>3, <1>4, <1>5

\* Sensors' clocks may be slow by no more than what the age of a response that
\* is cleaned up exceeds the timeout of its call (5 seconds in the code).  Then
\* no response is ever deleted under a call that is still waiting for it.
THEOREM FreshResponsesAreKept ==
    ASSUME \A s \in Sensors : Lag[s] + Timeout <= ResponseTTL
    PROVE  Spec => FreshResponseKept
  <1>1. ASSUME IInv, [Next]_vars, NEW c \in Calls
        PROVE  WaitedForIsKept(c)
    <2> SUFFICES ASSUME Waiting(c), mqtt_responses[c] # None, mqtt_responses'[c] = None
                 PROVE  calls'[c].pc # "polling"
      BY DEF WaitedForIsKept
    <2>1. CASE ~CleanResponses
      BY <1>1, <2>1, OnlyPopped
    <2>2. CASE CleanResponses
      <3>1. PICK r : r = mqtt_responses[c]
        OBVIOUS
      <3>2. r \in Responses /\ r.request_id = c /\ Genuine(r) /\ Expired(r)
        BY <1>1, <2>2, <3>1 DEF IInv, TypeOK, StoredOK, CleanResponses
      <3>3. /\ r.timestamp \in Int /\ r.device_id \in Sensors
            /\ calls[c].start_time \in Int /\ now \in Int
        BY <1>1, <3>2 DEF IInv, TypeOK, Responses, Threads
      <3>4. Lag[r.device_id] \in Int /\ Timeout \in Int /\ ResponseTTL \in Int
        BY <3>3, TimeAssumption
      <3>5. r.timestamp >= calls[c].start_time - Lag[r.device_id]
        BY <3>2 DEF Genuine
      <3>6. now - calls[c].start_time < Timeout
        BY DEF Waiting
      <3>7. now - r.timestamp > ResponseTTL
        BY <3>2 DEF Expired
      <3>8. Lag[r.device_id] + Timeout <= ResponseTTL
        BY <3>3
      <3> QED  BY <3>3, <3>4, <3>5, <3>6, <3>7, <3>8
    <2> QED  BY <2>1, <2>2
  <1>2. IInv /\ [Next]_vars => [\A c \in Calls : WaitedForIsKept(c)]_vars
    BY <1>1
  <1> QED  BY <1>2, Invariance, PTL DEF Spec, FreshResponseKept

-----------------------------------------------------------------------------
(* Refinement of DeviceCall                                                *)

\* A step that leaves the other calls alone changes one stage, or none.
LEMMA OneStage ==
    ASSUME NEW c \in Calls, NEW x,
           \A d \in Calls \ {c} : calls'[d] = calls[d],
           Stage(c)' = x
    PROVE  [d \in Calls |-> Stage(d)]' = [[d \in Calls |-> Stage(d)] EXCEPT ![c] = x]
  <1>1. \A d \in Calls \ {c} : Stage(d)' = Stage(d)
    BY DEF Stage
  <1> QED  BY <1>1

\* What leaves the threads alone leaves the stage of every call alone.
LEMMA SameStages ==
    ASSUME UNCHANGED calls
    PROVE  [d \in Calls |-> Stage(d)]' = [d \in Calls |-> Stage(d)]
  BY DEF Stage

\* What leaves the threads and executions alone leaves the accepted calls alone.
LEMMA SameAccepted ==
    ASSUME UNCHANGED verdicts
    PROVE  {d \in Calls : Accepted(d)}' = {d \in Calls : Accepted(d)}
  BY DEF Accepted

\* A step of a client's thread answers its call, opens it or is not seen.
LEMMA CallSteps ==
    ASSUME NEW c \in Calls, UNCHANGED verdicts,
           \A d \in Calls \ {c} : calls'[d] = calls[d],
           \/ Stage(c)' = Stage(c)
           \/ Stage(c) = "idle" /\ Stage(c)' = "open"
           \/ Stage(c) \in {"idle", "open"} /\ Stage(c)' = "FAILED"
           \/ Stage(c) = "open" /\ Stage(c)' = "SUCCESS" /\ Accepted(c)
    PROVE  [DeviceCalls!AbsNext]_(DeviceCalls!absVars)
  <1> DEFINE st == [d \in Calls |-> Stage(d)]
             ac == {d \in Calls : Accepted(d)}
  <1>1. PICK x : x = Stage(c)'
    OBVIOUS
  <1>2. st' = [st EXCEPT ![c] = x] /\ ac' = ac
    BY <1>1, OneStage, SameAccepted
  <1>3. st[c] = Stage(c) /\ (c \in ac <=> Accepted(c))
    OBVIOUS
  <1>4. CASE x = Stage(c)
    <2>1. st' = st
      BY <1>2, <1>4
    <2> QED  BY <1>2, <2>1 DEF DeviceCalls!absVars
  <1>5. CASE Stage(c) = "idle" /\ x = "open"
    <2>1. DeviceCalls!Open(c)
      BY <1>2, <1>3, <1>5 DEF DeviceCalls!Open
    <2> QED  BY <2>1 DEF DeviceCalls!AbsNext
  <1>6. CASE Stage(c) \in {"idle", "open"} /\ x = "FAILED"
    <2>1. DeviceCalls!AnswerFailed(c)
      BY <1>2, <1>3, <1>6 DEF DeviceCalls!AnswerFailed
    <2> QED  BY <2>1 DEF DeviceCalls!AbsNext
  <1>7. CASE Stage(c) = "open" /\ x = "SUCCESS" /\ Accepted(c)
    <2>1. DeviceCalls!AnswerSuccess(c)
      BY <1>2, <1>3, <1>7 DEF DeviceCalls!AnswerSuccess
    <2> QED  BY <2>1 DEF DeviceCalls!AbsNext
  <1> QED  BY <1>1, <1>4, <1>5, <1>6, <1>7

\* A step of anything else adds at most the acceptance of one sent call.
LEMMA SensorSteps ==
    ASSUME NEW s \in Sensors, UNCHANGED calls, IInv, Execute(s)
    PROVE  [DeviceCalls!AbsNext]_(DeviceCalls!absVars)
  <1> DEFINE st == [d \in Calls |-> Stage(d)]
             ac == {d \in Calls : Accepted(d)}
  <1>1. PICK m : m = Head(cmds[s])
    OBVIOUS
  <1>2. PICK c : c = m.request_id
    OBVIOUS
  <1>3. /\ cmds[s] # << >> /\ cmds[s] \in Seq(Commands)
        /\ verdicts \in [Calls -> SUBSET (Sensors \X BOOLEAN)]
    BY DEF Execute, IInv, TypeOK
  <1>4. c \in Calls /\ calls[c].pc # "idle"
    <2>1. m \in Elems(cmds[s]) /\ m \in Commands
      BY <1>1, <1>3, TailElems
    <2> QED  BY <1>2, <2>1 DEF Commands, IInv, CmdsOK, Sent
  <1>5. st' = st /\ st[c] # "idle"
    BY <1>4, SameStages DEF Stage
  <1>6. /\ \A d \in Calls \ {c} : verdicts'[d] = verdicts[d]
        /\ verdicts[c] \subseteq verdicts'[c]
    <2>1. CASE Throws(s, m.command_type)
      BY <1>1, <2>1 DEF Execute
    <2>2. CASE ~Throws(s, m.command_type)
      BY <1>1, <1>2, <1>3, <1>4, <2>2 DEF Execute
    <2> QED  BY <2>1, <2>2
  <1>7. /\ \A d \in Calls \ {c} : Accepted(d)' <=> Accepted(d)
        /\ Accepted(c) => Accepted(c)'
    BY <1>6 DEF Accepted
  <1>8. ac' = ac \/ ac' = ac \cup {c}
    BY <1>4, <1>7
  <1>9. CASE ac' = ac
    BY <1>5, <1>9 DEF DeviceCalls!absVars
  <1>10. CASE ac' = ac \cup {c}
    <2>1. DeviceCalls!Accept(c)
      BY <1>5, <1>10 DEF DeviceCalls!Accept
    <2> QED  BY <1>4, <2>1 DEF DeviceCalls!AbsNext
  <1> QED  BY <1>8, <1>9, <1>10

\* A step that touches neither a thread nor a verdict is not seen.
LEMMA UnseenSteps ==
    ASSUME UNCHANGED calls, UNCHANGED verdicts
    PROVE  [DeviceCalls!AbsNext]_(DeviceCalls!absVars)
  BY SameStages, SameAccepted DEF DeviceCalls!absVars

\* The stage of a call whose thread has been replaced.
LEMMA StageAfter ==
    ASSUME IInv, NEW c \in Calls, NEW u, calls' = [calls EXCEPT ![c] = u]
    PROVE  /\ calls'[c] = u
           /\ \A d \in Calls \ {c} : calls'[d] = calls[d]
           /\ Stage(c)' = IF u.pc = "idle" THEN "idle"
                          ELSE IF u.pc # "done" THEN "open"
                          ELSE IF u.outcome = "SUCCESS" THEN "SUCCESS" ELSE "FAILED"
  <1>1. calls \in [Calls -> Threads]
    BY DEF IInv, TypeOK
  <1>2. /\ calls'[c] = u
        /\ \A d \in Calls \ {c} : calls'[d] = calls[d]
    BY <1>1
  <1> QED  BY <1>2 DEF Stage

\* A step of a client's thread implements a step of DeviceCall.
LEMMA ClientSteps ==
    ASSUME IInv, NEW c \in Calls,
           \/ \E s \in Sensors : SendToUnknown(c, s)
           \/ \E s \in Sensors, t \in Requests : SendCommand(c, s, t)
           \/ ClientStep(c)
    PROVE  [DeviceCalls!AbsNext]_(DeviceCalls!absVars)
  <1> USE DEF mqttVars, sensorVars, boundVars
  <1>0. calls[c] \in Threads
    BY DEF IInv, TypeOK
  <1>1. ASSUME NEW o \in Outcomes, o # "SUCCESS", calls[c].pc \in {"idle", "polling"},
               calls' = [calls EXCEPT ![c] = Finish(c, o)], UNCHANGED verdicts
        PROVE  [DeviceCalls!AbsNext]_(DeviceCalls!absVars)
    <2>1. PICK u : u = Finish(c, o)
      OBVIOUS
    <2>2. u.pc = "done" /\ u.outcome = o
      BY <1>0, <2>1, ThreadEnds DEF Finish
    <2>3. Stage(c) \in {"idle", "open"}
      BY <1>1 DEF Stage
    <2>4. Stage(c)' = "FAILED" /\ \A d \in Calls \ {c} : calls'[d] = calls[d]
      BY <1>1, <2>1, <2>2, StageAfter
    <2> QED  BY <1>1, <2>3, <2>4, CallSteps
  <1>2. ASSUME NEW s \in Sensors, SendToUnknown(c, s)
        PROVE  [DeviceCalls!AbsNext]_(DeviceCalls!absVars)
    BY <1>1, <1>2, OutcomesDiffer DEF SendToUnknown, Outcomes
  <1>3. ASSUME NEW s \in Sensors, NEW t \in Requests, SendCommand(c, s, t)
        PROVE  [DeviceCalls!AbsNext]_(DeviceCalls!absVars)
    <2> DEFINE p == IF gatewayUp THEN "polling" ELSE "done"
               o == IF gatewayUp THEN None ELSE "not sent"
    <2>0. PICK u : u = [calls[c] EXCEPT !.pc = p, !.outcome = o, !.device_id = s,
                                        !.command_type = t, !.start_time = now]
      OBVIOUS
    <2>1. /\ calls' = [calls EXCEPT ![c] = u] /\ u.pc = p /\ u.outcome = o
      <3>1. calls' = [calls EXCEPT ![c] = u]
        BY <1>3, <2>0 DEF SendCommand
      <3>2. u.pc = p /\ u.outcome = o
        <4> HIDE DEF p, o
        <4> QED  BY <1>0, <2>0 DEF Threads
      <3> QED  BY <3>1, <3>2
    <2>2. Stage(c) = "idle" /\ UNCHANGED verdicts
      BY <1>3 DEF SendCommand, Stage
    <2>3. Stage(c)' \in {"open", "FAILED"} /\ \A d \in Calls \ {c} : calls'[d] = calls[d]
      <3>1. CASE gatewayUp
        BY <2>1, <3>1, StageAfter
      <3>2. CASE ~gatewayUp
        BY <2>1, <3>2, StageAfter
      <3> QED  BY <3>1, <3>2
    <2> QED  BY <2>2, <2>3, CallSteps
  <1>4. CASE PopResponse(c)
    <2>1. CASE ~mqtt_responses[c].success
      BY <1>1, <1>4, <2>1, OutcomesDiffer DEF PopResponse
    <2>2. CASE mqtt_responses[c].success
      <3>1. PICK u : u = [calls[c] EXCEPT !.pc = "update", !.response = mqtt_responses[c]]
        OBVIOUS
      <3>2. mqtt_responses[c] \in Responses
        BY <1>4 DEF PopResponse, IInv, TypeOK
      <3>3. u.pc = "update"
        BY <1>0, <3>1, <3>2, ThreadUpdates
      <3>4. calls' = [calls EXCEPT ![c] = u]
        BY <1>4, <2>2, <3>1 DEF PopResponse
      <3>5. Stage(c) = "open" /\ UNCHANGED verdicts
        BY <1>4 DEF PopResponse, Stage
      <3>6. Stage(c)' = "open" /\ \A d \in Calls \ {c} : calls'[d] = calls[d]
        BY <3>3, <3>4, StageAfter
      <3> QED  BY <3>5, <3>6, CallSteps
    <2> QED  BY <2>1, <2>2
  <1>5. CASE GiveUp(c)
    BY <1>1, <1>5, OutcomesDiffer DEF GiveUp, Outcomes
  <1>6. CASE UpdateDevice(c)
    <2>1. PICK u : u = Finish(c, "SUCCESS")
      OBVIOUS
    <2>2. u.pc = "done" /\ u.outcome = "SUCCESS"
      BY <1>0, <2>1, OutcomesDiffer, ThreadEnds DEF Finish
    <2>3. calls' = [calls EXCEPT ![c] = u] /\ UNCHANGED verdicts
      BY <1>6, <2>1 DEF UpdateDevice
    <2>4. Stage(c) = "open"
      BY <1>6 DEF UpdateDevice, Stage
    <2>5. Stage(c)' = "SUCCESS" /\ \A d \in Calls \ {c} : calls'[d] = calls[d]
      BY <2>2, <2>3, StageAfter
    <2>6. Accepted(c)
      <3>1. PICK r : r = calls[c].response
        OBVIOUS
      <3>2. r \in Responses /\ r.request_id = c /\ r.success /\ Genuine(r)
        BY <1>6, <3>1 DEF UpdateDevice, IInv, ThreadOK
      <3>3. r.success = TRUE /\ r.device_id \in Sensors
        BY <3>2 DEF Responses
      <3> QED  BY <3>2, <3>3 DEF Genuine, Accepted
    <2> QED  BY <2>3, <2>4, <2>5, <2>6, CallSteps
  <1> QED  BY <1>2, <1>3, <1>4, <1>5, <1>6 DEF ClientStep

\* Every command, over MQTT and back, is a call as DeviceCall describes it:
\* opened once and answered once, SUCCESS only after the sensor accepted it.
THEOREM Refinement == Spec => ImplementsDeviceCall
  <1>1. Init => DeviceCalls!AbsInit
    <2>1. Init => \A c \in Calls : Stage(c) = "idle" /\ ~Accepted(c)
      BY DEF Init, Stage, Accepted
    <2> QED  BY <2>1 DEF DeviceCalls!AbsInit
  <1>2. ASSUME IInv, [Next]_vars
        PROVE  [DeviceCalls!AbsNext]_(DeviceCalls!absVars)
    <2>1. \/ \E c \in Calls :
                \/ \E s \in Sensors : SendToUnknown(c, s)
                \/ \E s \in Sensors, t \in Requests : SendCommand(c, s, t)
                \/ ClientStep(c)
          \/ UNCHANGED calls /\ \E s \in Sensors : Execute(s)
          \/ UNCHANGED calls /\ UNCHANGED verdicts
      BY <1>2
      DEF Next, ClientStep, vars, gatewayVars, mqttVars, sensorVars, boundVars,
          HandleSensorData, HandleCommandResponse, ApplyResponseStatus,
          CleanResponses, RemoveOffline, BrokerAccept, BrokerAcceptAckLost,
          GatewayDisconnect, GatewayReconnect, SensorDisconnect, SensorReconnect,
          HandleCommand, HandleCommandOffline, CheckStatus, BuildReading,
          PublishReading, LoopPublish, SensorRestart, Tick
    <2> QED  BY <1>2, <2>1, ClientSteps, SensorSteps, UnseenSteps
  <1>3. Spec => DeviceCalls!AbsInit /\ [][DeviceCalls!AbsNext]_(DeviceCalls!absVars)
    BY <1>1, <1>2, Invariance, PTL DEF Spec
  <1> QED  BY <1>3 DEF ImplementsDeviceCall, DeviceCalls!AbsSpec

-----------------------------------------------------------------------------
(* What LIST_DEVICES shows of a sensor that runs the board's program.      *)
(*                                                                         *)
(* As long as nothing is disturbed, the newest message of a board tells    *)
(* its status, and so does the status still to be applied when no message  *)
(* is on its way, and so does the registry when there is neither.  A       *)
(* thread that still waits for a board has sent the last command to it, so *)
(* that what it may yet apply is the board's status too: SInv.             *)


Boards == Sensors \ JavaSensors
Newest(q) == q[Len(q)]

\* A command to the sensor has still to reach the broker.
Addressed(s) == \E m \in Elems(outbox) : m.device_id = s

\* The thread of the call waits for the sensor, or holds its response.
Open(c, s) == Waits(c) /\ calls[c].device_id = s

\* The responses which the thread of the call may still apply.
Given(c, s) ==
    {r \in Elems(replies[s]) : r.topic = "response" /\ r.request_id = c}
    \cup {r \in {mqtt_responses[c]} : r # None}
    \cup {r \in {calls[c].response} : calls[c].pc = "update"}

\* Boards sign what they send, and never lose a request_id.
OwnMessages ==
    \A s \in Sensors : \A m \in Elems(replies[s]) :
        /\ m.device_id = s
        /\ s \in Boards /\ m.topic = "response" => m.request_id # None

\* The last word on its way to the registry, or the entry, is the status.
StatusKnown(s) ==
    /\ replies[s] # << >> => Newest(replies[s]).status = sensor[s].status
    /\ replies[s] = << >> /\ callback # None /\ callback.device_id = s =>
          callback.status = sensor[s].status
    /\ ~InFlight(s) /\ Registered(s) => connected_devices[s].status = sensor[s].status

\* No command follows that of a call which is still open.
LastInOutbox(s) ==
    \A c \in Calls : \A i, j \in 1 .. Len(outbox) :
        Open(c, s) /\ outbox[i].request_id = c /\ outbox[j].device_id = s => j <= i
LastAtSensor(s) ==
    \A c \in Calls : \A i \in 1 .. Len(cmds[s]) :
        Open(c, s) /\ cmds[s][i].request_id = c => i = Len(cmds[s]) /\ ~Addressed(s)

\* What an open call may still apply was said after the last command.
AnswersCurrent(s) ==
    \A c \in Calls : \A r \in Given(c, s) :
        Open(c, s) => /\ r.status = sensor[s].status
                      /\ cmds[s] = << >> /\ ~Addressed(s)

BoardInv(s) ==
    /\ reading[s] = "none"
    /\ StatusKnown(s)
    /\ LastInOutbox(s) /\ LastAtSensor(s)
    /\ AnswersCurrent(s)

SInv == gatewayUp /\ OwnMessages /\ \A s \in Boards : BoardInv(s)

\* Nothing has been sent at first, and every sensor is listed as it is.
LEMMA InitStatus == Init => SInv
  <1> SUFFICES ASSUME Init PROVE SInv
    OBVIOUS
  <1> USE DEF Init
  <1>1. gatewayUp /\ OwnMessages
    BY EmptyElems DEF OwnMessages
  <1>2. ASSUME NEW s \in Boards
        PROVE  BoardInv(s)
    <2>1. StatusKnown(s)
      BY <1>2 DEF StatusKnown, Boards, RegisteredEntry, StartedSensor
    <2>2. \A c \in Calls : ~Open(c, s)
      BY DEF Open, Waits
    <2>3. LastInOutbox(s) /\ LastAtSensor(s) /\ AnswersCurrent(s)
      BY <2>2 DEF LastInOutbox, LastAtSensor, AnswersCurrent
    <2> QED  BY <1>2, <2>1, <2>3 DEF BoardInv, Boards
  <1> QED  BY <1>1, <1>2 DEF SInv

-----------------------------------------------------------------------------
(* Queues                                                                  *)

\* The newest message of a queue is the one just appended.
LEMMA NewestAppended ==
    ASSUME NEW S, NEW q \in Seq(S), NEW m \in S
    PROVE  Append(q, m) # << >> /\ Newest(Append(q, m)) = m
  BY DEF Newest

\* Taking the oldest message leaves the newest, if there is another.
LEMMA NewestOfTail ==
    ASSUME NEW S, NEW q \in Seq(S), q # << >>
    PROVE  IF Tail(q) = << >> THEN Head(q) = Newest(q)
           ELSE Newest(Tail(q)) = Newest(q)
  <1>1. PICK t : t = Tail(q)
    OBVIOUS
  <1>2. /\ Len(q) \in Nat /\ Len(q) >= 1 /\ Head(q) = q[1]
        /\ t \in Seq(S) /\ Len(t) = Len(q) - 1
        /\ \A i \in 1 .. Len(q) - 1 : t[i] = q[i + 1]
    BY <1>1
  <1>3. t = << >> <=> Len(t) = 0
    BY <1>2
  <1>4. CASE t = << >>
    <2>1. Len(q) = 1
      BY <1>2, <1>3, <1>4
    <2> QED  BY <1>1, <1>2, <1>4, <2>1 DEF Newest
  <1>5. CASE t # << >>
    <2>1. Len(q) - 1 \in 1 .. Len(q) - 1
      BY <1>2, <1>3, <1>5
    <2>2. t[Len(q) - 1] = q[Len(q)]
      BY <1>2, <2>1
    <2> QED  BY <1>1, <1>2, <1>5, <2>2 DEF Newest
  <1> QED  BY <1>4, <1>5

-----------------------------------------------------------------------------
(* What a step leaves alone                                                *)

\* The registry, and what is on its way to it.
LEMMA StatusFrame ==
    ASSUME NEW s, StatusKnown(s), callback' = callback,
           replies'[s] = replies[s],
           connected_devices'[s] = connected_devices[s],
           sensor'[s].status = sensor[s].status
    PROVE  StatusKnown(s)'
  BY DEF StatusKnown, InFlight, Registered

\* The commands on their way to a sensor.
LEMMA CommandsFrame ==
    ASSUME NEW s, LastInOutbox(s), LastAtSensor(s),
           outbox' = outbox, cmds'[s] = cmds[s],
           \A c \in Calls : Open(c, s)' => Open(c, s)
    PROVE  LastInOutbox(s)' /\ LastAtSensor(s)'
  BY DEF LastInOutbox, LastAtSensor, Addressed

\* The responses of the calls to a sensor.
LEMMA AnswersFrame ==
    ASSUME NEW s, AnswersCurrent(s),
           outbox' = outbox, cmds'[s] = cmds[s],
           sensor'[s].status = sensor[s].status,
           \A c \in Calls : Open(c, s)' => Open(c, s) /\ Given(c, s)' \subseteq Given(c, s)
    PROVE  AnswersCurrent(s)'
  <1> SUFFICES ASSUME NEW c \in Calls, NEW r \in Given(c, s)', Open(c, s)'
               PROVE  r.status = sensor'[s].status /\ cmds'[s] = << >> /\ ~Addressed(s)'
    BY DEF AnswersCurrent
  <1>1. Open(c, s) /\ r \in Given(c, s)
    OBVIOUS
  <1>2. r.status = sensor[s].status /\ cmds[s] = << >> /\ ~Addressed(s)
    BY <1>1 DEF AnswersCurrent
  <1> QED  BY <1>2 DEF Addressed

\* Messages that are taken or left where they are.
LEMMA OwnFrame ==
    ASSUME OwnMessages, \A s \in Sensors : Elems(replies'[s]) \subseteq Elems(replies[s])
    PROVE  OwnMessages'
  BY DEF OwnMessages

-----------------------------------------------------------------------------
(* The client's threads                                                    *)

\* A thread that ends, or that goes on with the response stored for it, opens
\* nothing and comes to hold nothing new.
LEMMA ThreadGoesOn ==
    ASSUME IInv, SInv, NEW c \in Calls, NEW u, calls' = [calls EXCEPT ![c] = u],
           UNCHANGED <<gatewayUp, outbox, cmds, replies, reading, sensor>>,
           \A d \in Calls : mqtt_responses'[d] \in {mqtt_responses[d], None},
           \/ u.pc = "done"
           \/ /\ calls[c].pc = "polling" /\ u.pc = "update"
              /\ u.device_id = calls[c].device_id
              /\ u.response = mqtt_responses[c] /\ mqtt_responses[c] # None,
           \A s \in Boards : StatusKnown(s)'
    PROVE  SInv'
  <1>1. calls'[c] = u /\ \A d \in Calls \ {c} : calls'[d] = calls[d]
    BY DEF IInv, TypeOK
  <1>2. gatewayUp' /\ OwnMessages'
    BY DEF SInv, OwnMessages
  <1>3. ASSUME NEW s \in Boards
        PROVE  BoardInv(s)'
    <2>1. BoardInv(s)
      BY DEF SInv
    <2>2. ASSUME NEW d \in Calls, Open(d, s)'
          PROVE  Open(d, s) /\ Given(d, s)' \subseteq Given(d, s)
      <3>1. CASE d # c
        BY <1>1, <2>2, <3>1 DEF Open, Waits, Given
      <3>2. CASE d = c
        <4>1. /\ calls[c].pc = "polling" /\ u.pc = "update"
              /\ u.device_id = calls[c].device_id
              /\ u.response = mqtt_responses[c] /\ mqtt_responses[c] # None
          BY <1>1, <2>2, <3>2 DEF Open, Waits
        <4> QED  BY <1>1, <2>2, <3>2, <4>1 DEF Open, Waits, Given
      <3> QED  BY <3>1, <3>2
    <2> QED  BY <2>1, <2>2, CommandsFrame, AnswersFrame DEF BoardInv
  <1> QED  BY <1>2, <1>3 DEF SInv

\* A command for a device that is not registered changes nothing of this.
LEMMA SendToUnknownStatus ==
    ASSUME IInv, SInv, NEW c \in Calls, NEW s \in Sensors, SendToUnknown(c, s)
    PROVE  SInv'
  <1> USE DEF SendToUnknown, mqttVars, sensorVars, boundVars
  <1>1. PICK u : u = Finish(c, "not found")
    OBVIOUS
  <1>2. u.pc = "done"
    <2>1. calls[c] \in Threads
      BY DEF IInv, TypeOK
    <2> QED  BY <1>1, <2>1 DEF Finish, Threads
  <1>3. \A b \in Boards : StatusKnown(b)'
    BY StatusFrame DEF SInv, BoardInv
  <1> QED  BY <1>1, <1>2, <1>3, ThreadGoesOn

\* Nor does a call that gives up.
LEMMA GiveUpStatus ==
    ASSUME IInv, SInv, NEW c \in Calls, GiveUp(c)
    PROVE  SInv'
  <1> USE DEF GiveUp, mqttVars, sensorVars, boundVars
  <1>1. PICK u : u = Finish(c, "timeout")
    OBVIOUS
  <1>2. u.pc = "done"
    <2>1. calls[c] \in Threads
      BY DEF IInv, TypeOK
    <2> QED  BY <1>1, <2>1 DEF Finish, Threads
  <1>3. \A b \in Boards : StatusKnown(b)'
    BY StatusFrame DEF SInv, BoardInv
  <1> QED  BY <1>1, <1>2, <1>3, ThreadGoesOn

\* Nor does a thread that pops its response, which it may apply as before.
LEMMA PopResponseStatus ==
    ASSUME IInv, SInv, NEW c \in Calls, PopResponse(c)
    PROVE  SInv'
  <1> USE DEF mqttVars, sensorVars, boundVars
  <1>1. PICK r : r = mqtt_responses[c]
    OBVIOUS
  <1>2. PICK u : u = IF r.success
                     THEN [calls[c] EXCEPT !.pc = "update", !.response = r]
                     ELSE Finish(c, "sensor error")
    OBVIOUS
  <1>3. calls[c] \in Threads /\ r \in Responses
    BY <1>1 DEF IInv, TypeOK, PopResponse
  <1>4. \/ u.pc = "done"
        \/ u.pc = "update" /\ u.device_id = calls[c].device_id /\ u.response = r
    BY <1>2, <1>3 DEF Finish, Threads
  <1>5. calls' = [calls EXCEPT ![c] = u]
    BY <1>1, <1>2 DEF PopResponse
  <1>6. \A d \in Calls : mqtt_responses'[d] \in {mqtt_responses[d], None}
    BY DEF PopResponse, IInv, TypeOK
  <1>7. calls[c].pc = "polling" /\ r # None
    BY <1>1 DEF PopResponse
  <1>8. UNCHANGED <<connected_devices, callback, gatewayUp, outbox, cmds, replies,
                    reading, sensor>>
    BY DEF PopResponse
  <1>9. \A b \in Boards : StatusKnown(b)'
    BY <1>8, StatusFrame DEF SInv, BoardInv
  <1> QED  BY <1>1, <1>4, <1>5, <1>6, <1>7, <1>8, <1>9, ThreadGoesOn

\* A status that is written into the registry changes one entry, if any.
LEMMA StatusWritten ==
    ASSUME TypeOK, NEW x \in Sensors, NEW st \in Statuses,
           connected_devices' = WithStatus(x, st)
    PROVE  /\ \A s \in Sensors \ {x} : connected_devices'[s] = connected_devices[s]
           /\ \A s \in Sensors : Registered(s)' <=> Registered(s)
           /\ Registered(x) => connected_devices'[x].status = st
  <1>1. connected_devices \in [Sensors -> Entries \cup {None}]
    BY DEF TypeOK
  <1>2. CASE Registered(x)
    <2>1. PICK e : e = [connected_devices[x] EXCEPT !.status = st]
      OBVIOUS
    <2>2. connected_devices' = [connected_devices EXCEPT ![x] = e]
      BY <1>1, <1>2, <2>1 DEF WithStatus
    <2>3. connected_devices[x] \in Entries
      BY <1>1, <1>2 DEF Registered
    <2>4. e.status = st /\ e \in Entries
      BY <2>1, <2>3 DEF Entries
    <2>5. connected_devices'[x] = e
      BY <1>1, <2>2
    <2>6. e # None
      BY <2>4, NoneAssumption
    <2> QED  BY <1>1, <1>2, <2>2, <2>4, <2>5, <2>6 DEF Registered
  <1>3. CASE ~Registered(x)
    BY <1>1, <1>3 DEF WithStatus, Registered
  <1> QED  BY <1>2, <1>3

\* The response a thread applies to the entry of a board is its last word.
LEMMA UpdateDeviceStatus ==
    ASSUME IInv, SInv, NEW c \in Calls, UpdateDevice(c)
    PROVE  SInv'
  <1> USE DEF UpdateDevice, mqttVars, sensorVars, boundVars
  <1>1. PICK u : u = Finish(c, "SUCCESS")
    OBVIOUS
  <1>2. u.pc = "done"
    <2>1. calls[c] \in Threads
      BY DEF IInv, TypeOK
    <2> QED  BY <1>1, <2>1 DEF Finish, Threads
  <1>3. PICK r : r = calls[c].response
    OBVIOUS
  <1>4. PICK x : x = calls[c].device_id
    OBVIOUS
  <1>5. x \in Sensors /\ r.status \in Statuses
    <2>1. r \in Responses /\ r.request_id = c /\ Genuine(r)
      BY <1>3 DEF IInv, ThreadOK
    <2> QED  BY <1>4, <2>1 DEF Genuine, Responses
  <1>6. /\ \A s \in Sensors \ {x} : connected_devices'[s] = connected_devices[s]
        /\ \A s \in Sensors : Registered(s)' <=> Registered(s)
        /\ Registered(x) => connected_devices'[x].status = r.status
    BY <1>3, <1>4, <1>5, StatusWritten DEF IInv
  <1>7. ASSUME NEW b \in Boards
        PROVE  StatusKnown(b)'
    <2>1. BoardInv(b)
      BY DEF SInv
    <2>2. CASE b # x
      BY <1>6, <2>1, <2>2, StatusFrame DEF Boards, BoardInv
    <2>3. CASE b = x
      <3>1. Open(c, b) /\ r \in Given(c, b)
        BY <1>3, <1>4, <2>3 DEF Open, Waits, Given
      <3>2. r.status = sensor[b].status
        BY <2>1, <3>1 DEF BoardInv, AnswersCurrent
      <3> QED  BY <1>6, <2>1, <2>3, <3>2 DEF BoardInv, StatusKnown, InFlight, Boards
    <2> QED  BY <2>2, <2>3
  <1>8. \A d \in Calls : mqtt_responses'[d] \in {mqtt_responses[d], None}
    OBVIOUS
  <1> QED  BY <1>1, <1>2, <1>7, <1>8, ThreadGoesOn

\* Of a call that has not been sent there is nothing anywhere.
LEMMA NothingYet ==
    ASSUME IInv, NEW c \in Calls, calls[c].pc = "idle"
    PROVE  /\ \A m \in Elems(outbox) : m.request_id # c
           /\ \A s \in Sensors : \A m \in Elems(cmds[s]) : m.request_id # c
           /\ \A s \in Sensors : \A m \in Elems(replies[s]) :
                 m.topic = "response" => m.request_id # c
           /\ mqtt_responses[c] = None
  <1>1. /\ \A m \in Elems(outbox) : m.request_id # c
        /\ \A s \in Sensors : \A m \in Elems(cmds[s]) : m.request_id # c
    BY DEF IInv, OutboxOK, CmdsOK, Sent
  <1>2. ASSUME NEW s \in Sensors, NEW m \in Elems(replies[s]),
               m.topic = "response", m.request_id = c
        PROVE  FALSE
    <2>1. c # None
      BY NoneAssumption
    <2>2. Genuine(m)
      BY <1>2, <2>1 DEF IInv, RepliesOK
    <2> QED  BY <1>2, <2>2 DEF Genuine
  <1>3. mqtt_responses[c] = None
    BY DEF IInv, StoredOK, Genuine
  <1> QED  BY <1>1, <1>2, <1>3

\* A command that is sent is the last to its sensor, since no other call to
\* that sensor is open.
LEMMA SendCommandStatus ==
    ASSUME IInv, SInv, NEW c \in Calls, NEW x \in Sensors, NEW t \in Requests,
           SendCommand(c, x, t), OneAtATime'
    PROVE  SInv'
  <1>1. PICK m : m = [request_id |-> c, device_id |-> x, command_type |-> t]
    OBVIOUS
  <1>2. /\ m \in Commands /\ m.request_id = c /\ m.device_id = x
        /\ outbox' = Append(outbox, m) /\ outbox \in Seq(Commands)
    BY <1>1, SetsAssumption DEF SendCommand, Commands, IInv, TypeOK
  <1>3. /\ Elems(outbox') = Elems(outbox) \cup {m}
        /\ Len(outbox') = Len(outbox) + 1 /\ Len(outbox) \in Nat
        /\ \A i \in 1 .. Len(outbox) :
              outbox'[i] = outbox[i] /\ outbox[i] \in Elems(outbox)
        /\ outbox'[Len(outbox) + 1] = m
    <2>1. Elems(outbox') = Elems(outbox) \cup {m}
      BY <1>2, AppendElems
    <2> QED  BY <1>2, <2>1 DEF Elems
  <1>4. /\ calls'[c].pc = "polling" /\ calls'[c].device_id = x
        /\ \A d \in Calls \ {c} : calls'[d] = calls[d]
    <2>1. calls \in [Calls -> Threads] /\ calls[c] \in Threads /\ gatewayUp
      BY DEF IInv, TypeOK, SInv
    <2>2. calls' = [calls EXCEPT ![c] =
             [calls[c] EXCEPT !.pc = "polling", !.outcome = None, !.device_id = x,
                              !.command_type = t, !.start_time = now]]
      BY <2>1 DEF SendCommand
    <2> QED  BY <2>1, <2>2 DEF Threads
  <1>5. UNCHANGED <<connected_devices, mqtt_responses, callback, gatewayUp, cmds,
                    replies, sensor, reading>>
    BY DEF SendCommand, sensorVars
  <1>6. calls[c].pc = "idle"
    BY DEF SendCommand
  <1>7. ASSUME NEW b \in Boards, NEW d \in Calls, Open(d, b)', d # c
        PROVE  /\ Open(d, b) /\ Given(d, b)' = Given(d, b)
               /\ b # x /\ (Addressed(b)' => Addressed(b))
    <2>1. Open(d, b) /\ Given(d, b)' = Given(d, b)
      BY <1>4, <1>5, <1>7 DEF Open, Waits, Given
    <2>2. b # x
      BY <1>4, <1>7 DEF OneAtATime, Open, Waits
    <2> QED  BY <1>2, <1>3, <2>1, <2>2 DEF Addressed
  <1>8. ASSUME NEW b \in Boards, Open(c, b)'
        PROVE  Given(c, b)' = {}
    BY <1>4, <1>5, <1>6, NothingYet DEF Given, Boards
  <1>9. ASSUME NEW b \in Boards
        PROVE  BoardInv(b)'
    <2>1. BoardInv(b)
      BY DEF SInv
    <2>2. StatusKnown(b)'
      BY <1>5, <2>1, StatusFrame DEF BoardInv
    <2>3. LastInOutbox(b)'
      <3> SUFFICES ASSUME NEW d \in Calls, NEW i \in 1 .. Len(outbox'),
                          NEW j \in 1 .. Len(outbox'), Open(d, b)',
                          outbox'[i].request_id = d, outbox'[j].device_id = b
                   PROVE  j <= i
        BY DEF LastInOutbox
      <3>1. CASE d = c
        <4>1. i = Len(outbox) + 1
          BY <1>3, <1>6, <3>1, NothingYet
        <4> QED  BY <1>3, <4>1
      <3>2. CASE d # c
        <4>1. Open(d, b) /\ b # x
          BY <1>7, <3>2
        <4>2. i \in 1 .. Len(outbox) /\ j \in 1 .. Len(outbox)
          BY <1>2, <1>3, <3>2, <4>1
        <4> QED  BY <1>3, <2>1, <4>1, <4>2 DEF BoardInv, LastInOutbox
      <3> QED  BY <3>1, <3>2
    <2>4. LastAtSensor(b)'
      <3> SUFFICES ASSUME NEW d \in Calls, NEW i \in 1 .. Len(cmds[b]),
                          Open(d, b)', cmds[b][i].request_id = d
                   PROVE  i = Len(cmds[b]) /\ ~Addressed(b)'
        BY <1>5 DEF LastAtSensor
      <3>1. d # c
        <4>1. cmds[b][i] \in Elems(cmds[b])
          BY DEF Elems
        <4> QED  BY <1>6, <4>1, NothingYet DEF Boards
      <3> QED  BY <1>7, <2>1, <3>1 DEF BoardInv, LastAtSensor
    <2>5. AnswersCurrent(b)'
      <3> SUFFICES ASSUME NEW d \in Calls, NEW r \in Given(d, b)', Open(d, b)'
                   PROVE  r.status = sensor[b].status /\ cmds[b] = << >> /\ ~Addressed(b)'
        BY <1>5 DEF AnswersCurrent
      <3>1. d # c
        BY <1>8
      <3> QED  BY <1>7, <2>1, <3>1 DEF BoardInv, AnswersCurrent
    <2> QED  BY <1>5, <2>1, <2>2, <2>3, <2>4, <2>5 DEF BoardInv
  <1>10. gatewayUp' /\ OwnMessages'
    BY <1>5 DEF SInv, OwnMessages
  <1> QED  BY <1>9, <1>10 DEF SInv

-----------------------------------------------------------------------------
(* The gateway's MQTT thread and main thread                               *)

\* What is left of a board's messages once the oldest has been received.
LEMMA MessageTaken ==
    ASSUME IInv, SInv, NEW x \in Sensors, ReceiveFrom(x)
    PROVE  /\ callback = None
           /\ replies'[x] = Tail(replies[x]) /\ replies[x] # << >>
           /\ \A s \in Sensors \ {x} : replies'[s] = replies[s]
           /\ Head(replies[x]) \in Elems(replies[x])
           /\ Head(replies[x]).device_id = x
           /\ \A s \in Sensors : Elems(replies'[s]) \subseteq Elems(replies[s])
           /\ OwnMessages'
           /\ IF replies'[x] = << >> THEN Head(replies[x]) = Newest(replies[x])
              ELSE Newest(replies'[x]) = Newest(replies[x])
  <1> DEFINE M == Responses \cup Readings
  <1>1. /\ replies \in [Sensors -> Seq(M)] /\ replies[x] \in Seq(M)
        /\ callback = None /\ replies[x] # << >>
        /\ replies' = [replies EXCEPT ![x] = Tail(replies[x])]
    BY DEF IInv, TypeOK, ReceiveFrom
  <1> HIDE DEF M
  <1>2. /\ replies'[x] = Tail(replies[x])
        /\ \A s \in Sensors \ {x} : replies'[s] = replies[s]
    BY <1>1
  <1>3. /\ Elems(Tail(replies[x])) \subseteq Elems(replies[x])
        /\ Head(replies[x]) \in Elems(replies[x])
    BY <1>1, TailElems
  <1>4. Head(replies[x]).device_id = x
    BY <1>3 DEF SInv, OwnMessages
  <1>5. \A s \in Sensors : Elems(replies'[s]) \subseteq Elems(replies[s])
    BY <1>2, <1>3
  <1>6. OwnMessages'
    BY <1>5, OwnFrame DEF SInv
  <1>7. IF replies'[x] = << >> THEN Head(replies[x]) = Newest(replies[x])
        ELSE Newest(replies'[x]) = Newest(replies[x])
    BY <1>1, <1>2, NewestOfTail
  <1> QED  BY <1>1, <1>2, <1>3, <1>4, <1>5, <1>6, <1>7

\* A reading that is the last message of a board shows its status.
LEMMA HandleSensorDataStatus ==
    ASSUME IInv, SInv, NEW x \in Sensors, HandleSensorData(x)
    PROVE  SInv'
  <1>1. PICK h : h = Head(replies[x])
    OBVIOUS
  <1>2. /\ callback = None /\ callback' = None
        /\ replies'[x] = Tail(replies[x]) /\ replies[x] # << >>
        /\ \A s \in Sensors \ {x} : replies'[s] = replies[s]
        /\ \A s \in Sensors : Elems(replies'[s]) \subseteq Elems(replies[s])
        /\ OwnMessages'
        /\ IF replies'[x] = << >> THEN h = Newest(replies[x])
           ELSE Newest(replies'[x]) = Newest(replies[x])
    BY <1>1, MessageTaken DEF HandleSensorData
  <1>3. /\ UNCHANGED <<mqtt_responses, calls, outbox, gatewayUp, cmds, sensor, reading>>
        /\ \A s \in Sensors \ {x} : connected_devices'[s] = connected_devices[s]
        /\ Registered(x)' => connected_devices'[x].status = h.status
    BY <1>1 DEF HandleSensorData, sensorVars, IInv, TypeOK, Registered
  <1>4. ASSUME NEW b \in Boards
        PROVE  BoardInv(b)'
    <2>1. BoardInv(b) /\ b \in Sensors
      BY DEF SInv, Boards
    <2>2. \A d \in Calls : Open(d, b)' => Open(d, b) /\ Given(d, b)' \subseteq Given(d, b)
      BY <1>2, <1>3, <2>1 DEF Open, Waits, Given
    <2>3. LastInOutbox(b)' /\ LastAtSensor(b)' /\ AnswersCurrent(b)'
      BY <1>3, <2>1, <2>2, CommandsFrame, AnswersFrame DEF BoardInv
    <2>4. StatusKnown(b)'
      <3>1. CASE b # x
        BY <1>2, <1>3, <2>1, <3>1, StatusFrame DEF BoardInv
      <3>2. CASE b = x
        <4>1. Newest(replies[b]).status = sensor[b].status
          BY <1>2, <2>1, <3>2 DEF BoardInv, StatusKnown
        <4> QED  BY <1>2, <1>3, <3>2, <4>1 DEF StatusKnown, InFlight
      <3> QED  BY <3>1, <3>2
    <2> QED  BY <1>3, <2>1, <2>3, <2>4 DEF BoardInv
  <1> QED  BY <1>2, <1>3, <1>4 DEF SInv

\* A response that is the last message of a board is the last word on its way.
LEMMA HandleCommandResponseStatus ==
    ASSUME IInv, SInv, NEW x \in Sensors, HandleCommandResponse(x)
    PROVE  SInv'
  <1>1. PICK m : m = Head(replies[x])
    OBVIOUS
  <1>2. /\ callback = None
        /\ replies'[x] = Tail(replies[x]) /\ replies[x] # << >>
        /\ \A s \in Sensors \ {x} : replies'[s] = replies[s]
        /\ m \in Elems(replies[x]) /\ m.device_id = x
        /\ \A s \in Sensors : Elems(replies'[s]) \subseteq Elems(replies[s])
        /\ OwnMessages'
        /\ IF replies'[x] = << >> THEN m = Newest(replies[x])
           ELSE Newest(replies'[x]) = Newest(replies[x])
    BY <1>1, MessageTaken DEF HandleCommandResponse
  <1>3. /\ m.topic = "response"
        /\ mqtt_responses' = IF m.request_id = None THEN mqtt_responses
                             ELSE [mqtt_responses EXCEPT ![m.request_id] = m]
        /\ callback' = IF m.request_id = None THEN None ELSE m
        /\ UNCHANGED <<connected_devices, calls, outbox, gatewayUp, cmds, sensor, reading>>
    BY <1>1 DEF HandleCommandResponse, sensorVars
  <1>4. /\ m \in Responses
        /\ m.request_id # None => Genuine(m)
    BY <1>2, <1>3 DEF IInv, RepliesOK
  <1>5. \A d \in Calls : mqtt_responses'[d] # mqtt_responses[d] =>
           mqtt_responses'[d] = m /\ m.request_id = d /\ calls[d].device_id = x
    <2>1. mqtt_responses \in [Calls -> Responses \cup {None}]
      BY DEF IInv, TypeOK
    <2>2. \A d \in Calls : d # None
      BY NoneAssumption
    <2> QED  BY <1>2, <1>3, <1>4, <2>1, <2>2 DEF Genuine, Responses
  <1>6. ASSUME NEW b \in Boards
        PROVE  BoardInv(b)'
    <2>1. BoardInv(b) /\ b \in Sensors
      BY DEF SInv, Boards
    <2>2. ASSUME NEW d \in Calls, Open(d, b)'
          PROVE  Open(d, b) /\ Given(d, b)' \subseteq Given(d, b)
      <3>1. Open(d, b) /\ calls[d].device_id = b
        BY <1>3, <2>2 DEF Open, Waits
      <3>2. CASE mqtt_responses'[d] = mqtt_responses[d]
        BY <1>2, <1>3, <2>1, <3>1, <3>2 DEF Given
      <3>3. CASE mqtt_responses'[d] # mqtt_responses[d]
        <4>1. /\ mqtt_responses'[d] = m /\ m.request_id = d /\ m \in Elems(replies[b])
              /\ Elems(replies'[b]) \subseteq Elems(replies[b])
          BY <1>2, <1>5, <2>1, <3>1, <3>3
        <4> QED  BY <1>3, <3>1, <4>1 DEF Given
      <3> QED  BY <3>2, <3>3
    <2>3. LastInOutbox(b)' /\ LastAtSensor(b)' /\ AnswersCurrent(b)'
      BY <1>3, <2>1, <2>2, CommandsFrame, AnswersFrame DEF BoardInv
    <2>4. StatusKnown(b)'
      <3>1. CASE b # x
        <4>1. replies'[b] = replies[b] /\ (callback' # None => callback'.device_id # b)
          BY <1>2, <1>3, <2>1, <3>1
        <4>2. InFlight(b)' <=> InFlight(b)
          BY <1>2, <4>1 DEF InFlight
        <4> QED  BY <1>3, <2>1, <4>1, <4>2 DEF BoardInv, StatusKnown, Registered
      <3>2. CASE b = x
        <4>1. Newest(replies[b]).status = sensor[b].status
          BY <1>2, <2>1, <3>2 DEF BoardInv, StatusKnown
        <4>2. m.request_id # None
          BY <1>2, <1>3, <3>2 DEF SInv, OwnMessages
        <4>3. callback' = m /\ m # None
          BY <1>3, <1>4, <4>2, NoneAssumption
        <4> QED  BY <1>2, <1>3, <3>2, <4>1, <4>3 DEF StatusKnown, InFlight
      <3> QED  BY <3>1, <3>2
    <2> QED  BY <1>3, <2>1, <2>3, <2>4 DEF BoardInv
  <1> QED  BY <1>2, <1>3, <1>6 DEF SInv

\* A step that leaves the queues and the calls alone.
LEMMA OnlyStatus ==
    ASSUME SInv, \A s \in Boards : StatusKnown(s)',
           UNCHANGED <<calls, outbox, gatewayUp, cmds, replies, sensor, reading>>,
           \A d \in Calls : mqtt_responses'[d] \in {mqtt_responses[d], None}
    PROVE  SInv'
  <1>1. ASSUME NEW b \in Boards
        PROVE  BoardInv(b)'
    <2>1. BoardInv(b)
      BY DEF SInv
    <2>2. \A d \in Calls : Open(d, b)' => Open(d, b) /\ Given(d, b)' \subseteq Given(d, b)
      BY DEF Open, Waits, Given
    <2> QED  BY <2>1, <2>2, CommandsFrame, AnswersFrame DEF BoardInv
  <1> QED  BY <1>1 DEF SInv, OwnMessages

\* The status that the MQTT thread applies to a board with no message on its
\* way is the last word.
LEMMA ApplyResponseStatusStatus ==
    ASSUME IInv, SInv, ApplyResponseStatus
    PROVE  SInv'
  <1>1. /\ callback # None /\ callback' = None
        /\ connected_devices' = WithStatus(callback.device_id, callback.status)
        /\ UNCHANGED <<mqtt_responses, calls, outbox, gatewayUp, cmds, replies, sensor,
                       reading>>
    BY DEF ApplyResponseStatus, mqttVars, sensorVars
  <1>2. PICK x, st : x = callback.device_id /\ st = callback.status
    OBVIOUS
  <1>3. x \in Sensors /\ st \in Statuses
    BY <1>1, <1>2 DEF IInv, TypeOK, Responses
  <1>4. /\ \A s \in Sensors \ {x} : connected_devices'[s] = connected_devices[s]
        /\ \A s \in Sensors : Registered(s)' <=> Registered(s)
        /\ Registered(x) => connected_devices'[x].status = st
    BY <1>1, <1>2, <1>3, StatusWritten DEF IInv
  <1>5. ASSUME NEW b \in Boards
        PROVE  StatusKnown(b)'
    <2>1. StatusKnown(b) /\ b \in Sensors
      BY DEF SInv, BoardInv, Boards
    <2>2. CASE b # x
      <3>1. InFlight(b)' <=> InFlight(b)
        BY <1>1, <1>2, <2>2 DEF InFlight
      <3> QED  BY <1>1, <1>4, <2>1, <2>2, <3>1 DEF StatusKnown
    <2>3. CASE b = x
      <3>1. replies[b] = << >> => st = sensor[b].status
        BY <1>1, <1>2, <2>1, <2>3 DEF StatusKnown
      <3> QED  BY <1>1, <1>4, <2>1, <2>3, <3>1 DEF StatusKnown, InFlight
    <2> QED  BY <2>2, <2>3
  <1> QED  BY <1>1, <1>5, OnlyStatus

\* The clean-up of the responses takes away what a thread might have applied.
LEMMA CleanResponsesStatus ==
    ASSUME IInv, SInv, CleanResponses
    PROVE  SInv'
  <1> USE DEF CleanResponses, mqttVars, sensorVars, boundVars
  <1>1. \A d \in Calls : mqtt_responses'[d] \in {mqtt_responses[d], None}
    OBVIOUS
  <1>2. \A b \in Boards : StatusKnown(b)'
    BY StatusFrame DEF SInv, BoardInv
  <1> QED  BY <1>1, <1>2, OnlyStatus

\* A device that has been removed is not listed at all.
LEMMA RemoveOfflineStatus ==
    ASSUME IInv, SInv, NEW x \in Sensors, RemoveOffline(x)
    PROVE  SInv'
  <1> USE DEF RemoveOffline, mqttVars, sensorVars, boundVars
  <1>1. /\ \A s \in Sensors \ {x} : connected_devices'[s] = connected_devices[s]
        /\ connected_devices'[x] = None
    BY DEF IInv, TypeOK
  <1>2. ASSUME NEW b \in Boards
        PROVE  StatusKnown(b)'
    <2>1. StatusKnown(b) /\ b \in Sensors
      BY DEF SInv, BoardInv, Boards
    <2>2. CASE b # x
      BY <1>1, <2>1, <2>2, StatusFrame
    <2>3. CASE b = x
      BY <1>1, <2>1, <2>3 DEF StatusKnown, Registered
    <2> QED  BY <2>2, <2>3
  <1> QED  BY <1>2, OnlyStatus

-----------------------------------------------------------------------------
(* The broker and the connections                                          *)

\* The last command to a sensor is still the last once it has been routed.
LEMMA BrokerAcceptStatus ==
    ASSUME IInv, SInv, BrokerAccept
    PROVE  SInv'
  <1>1. PICK h, x : h = Head(outbox) /\ x = h.device_id
    OBVIOUS
  <1>2. outbox \in Seq(Commands) /\ outbox # << >> /\ outbox' = Tail(outbox)
    BY DEF IInv, TypeOK, BrokerAccept
  <1>3. /\ Len(outbox) \in Nat /\ 1 \in 1 .. Len(outbox)
        /\ Len(outbox') = Len(outbox) - 1
        /\ \A i \in 1 .. Len(outbox') : outbox'[i] = outbox[i + 1] /\ i + 1 \in 1 .. Len(outbox)
        /\ outbox[1] = h /\ h \in Elems(outbox) /\ h \in Commands
        /\ Elems(outbox') \subseteq Elems(outbox)
    <2>1. /\ Elems(outbox') \subseteq Elems(outbox) /\ h \in Elems(outbox) /\ h \in Commands
      BY <1>1, <1>2, TailElems
    <2> QED  BY <1>1, <1>2, <2>1
  <1>4. /\ x \in Sensors /\ cmds[x] \in Seq(Commands) /\ cmds \in [Sensors -> Seq(Commands)]
    BY <1>1, <1>3 DEF Commands, IInv, TypeOK
  <1>5. /\ \A s \in Sensors :
              cmds'[s] = cmds[s] \/ (s = x /\ cmds'[s] = Append(cmds[s], h))
    <2>1. cmds' = IF link[x] = "subscribed"
                  THEN [cmds EXCEPT ![x] = Append(cmds[x], h)] ELSE cmds
      BY <1>1 DEF BrokerAccept, Route
    <2> QED  BY <1>4, <2>1
  <1>6. UNCHANGED <<connected_devices, mqtt_responses, callback, calls, gatewayUp,
                    replies, sensor, reading>>
    BY DEF BrokerAccept, gatewayVars, sensorVars
  <1>7. ASSUME NEW b \in Boards
        PROVE  BoardInv(b)'
    <2>1. BoardInv(b) /\ b \in Sensors
      BY DEF SInv, Boards
    <2>2. Addressed(b)' => Addressed(b)
      BY <1>3 DEF Addressed
    <2>3. \A d \in Calls : (Open(d, b)' <=> Open(d, b)) /\ Given(d, b)' = Given(d, b)
      BY <1>6 DEF Open, Waits, Given
    <2>4. StatusKnown(b)'
      BY <1>6, <2>1, StatusFrame DEF BoardInv
    <2>5. LastInOutbox(b)'
      <3> SUFFICES ASSUME NEW d \in Calls, NEW i \in 1 .. Len(outbox'),
                          NEW j \in 1 .. Len(outbox'), Open(d, b),
                          outbox'[i].request_id = d, outbox'[j].device_id = b
                   PROVE  j <= i
        BY <2>3 DEF LastInOutbox
      <3>1. /\ outbox[i + 1].request_id = d /\ outbox[j + 1].device_id = b
            /\ i + 1 \in 1 .. Len(outbox) /\ j + 1 \in 1 .. Len(outbox)
        BY <1>3
      <3>2. j + 1 <= i + 1
        BY <2>1, <3>1 DEF BoardInv, LastInOutbox
      <3> QED  BY <1>3, <3>2
    <2>6. CASE cmds'[b] = cmds[b]
      <3>1. LastAtSensor(b)'
        BY <2>1, <2>2, <2>3, <2>6 DEF BoardInv, LastAtSensor
      <3>2. AnswersCurrent(b)'
        BY <1>6, <2>1, <2>2, <2>3, <2>6 DEF BoardInv, AnswersCurrent
      <3> QED  BY <1>6, <2>1, <2>4, <2>5, <3>1, <3>2 DEF BoardInv
    <2>7. CASE b = x /\ cmds'[b] = Append(cmds[b], h)
      <3>1. Addressed(b)
        BY <1>1, <1>3, <2>7 DEF Addressed
      <3>2. /\ Len(cmds[b]) \in Nat /\ Len(cmds'[b]) = Len(cmds[b]) + 1
            /\ \A i \in 1 .. Len(cmds[b]) : cmds'[b][i] = cmds[b][i]
            /\ cmds'[b][Len(cmds[b]) + 1] = h
        BY <1>3, <1>4, <2>7
      <3>3. LastAtSensor(b)'
        <4> SUFFICES ASSUME NEW d \in Calls, NEW i \in 1 .. Len(cmds'[b]), Open(d, b),
                            cmds'[b][i].request_id = d
                     PROVE  i = Len(cmds'[b]) /\ ~Addressed(b)'
          BY <2>3 DEF LastAtSensor
        <4>1. i = Len(cmds[b]) + 1
          BY <2>1, <3>1, <3>2 DEF BoardInv, LastAtSensor
        <4>2. outbox[1].request_id = d
          BY <1>3, <3>2, <4>1
        <4>3. ASSUME NEW m \in Elems(outbox'), m.device_id = b
              PROVE  FALSE
          <5>1. PICK j \in 1 .. Len(outbox') : m = outbox'[j]
            BY DEF Elems
          <5>2. j + 1 \in 1 .. Len(outbox) /\ outbox[j + 1].device_id = b
            BY <1>3, <4>3, <5>1
          <5>3. j + 1 <= 1
            BY <1>3, <2>1, <4>2, <5>2 DEF BoardInv, LastInOutbox
          <5> QED  BY <5>1, <5>3
        <4> QED  BY <3>2, <4>1, <4>3 DEF Addressed
      <3>4. AnswersCurrent(b)'
        BY <2>1, <2>3, <3>1 DEF BoardInv, AnswersCurrent
      <3> QED  BY <1>6, <2>1, <2>4, <2>5, <3>3, <3>4 DEF BoardInv
    <2> QED  BY <1>5, <2>1, <2>6, <2>7
  <1> QED  BY <1>6, <1>7 DEF SInv, OwnMessages

-----------------------------------------------------------------------------
(* The sensors                                                             *)

\* A message that is published is its sensor's newest.
LEMMA MessageAdded ==
    ASSUME IInv, SInv, NEW x \in Sensors, NEW m \in Responses \cup Readings,
           Publication(x, m), m.device_id = x,
           x \in Boards /\ m.topic = "response" => m.request_id # None
    PROVE  /\ \A s \in Sensors \ {x} : replies'[s] = replies[s]
           /\ Elems(replies'[x]) = Elems(replies[x]) \cup {m}
           /\ replies'[x] # << >> /\ Newest(replies'[x]) = m
           /\ OwnMessages'
  <1> DEFINE M == Responses \cup Readings
  <1>1. /\ replies \in [Sensors -> Seq(M)] /\ replies[x] \in Seq(M) /\ m \in M
        /\ replies' = [replies EXCEPT ![x] = Append(replies[x], m)]
    BY DEF IInv, TypeOK, SInv, Publication
  <1> HIDE DEF M
  <1>2. /\ replies'[x] = Append(replies[x], m)
        /\ \A s \in Sensors \ {x} : replies'[s] = replies[s]
    BY <1>1
  <1>3. Elems(replies'[x]) = Elems(replies[x]) \cup {m}
    BY <1>1, <1>2, AppendElems
  <1>4. replies'[x] # << >> /\ Newest(replies'[x]) = m
    BY <1>1, <1>2, NewestAppended
  <1>5. OwnMessages'
    <2> SUFFICES ASSUME NEW s \in Sensors, NEW n \in Elems(replies'[s])
                 PROVE  /\ n.device_id = s
                        /\ s \in Boards /\ n.topic = "response" => n.request_id # None
      BY DEF OwnMessages
    <2>1. n \in Elems(replies[s]) \/ (s = x /\ n = m)
      BY <1>2, <1>3
    <2> QED  BY <2>1 DEF SInv, OwnMessages
  <1> QED  BY <1>2, <1>3, <1>4, <1>5

\* A reading carries the status of the board that publishes it.
LEMMA ReadingAdded ==
    ASSUME IInv, SInv, NEW x \in Sensors, NEW st \in Statuses,
           UNCHANGED <<connected_devices, mqtt_responses, callback, calls, outbox,
                       gatewayUp, cmds, sensor>>,
           \A s \in Boards : reading'[s] = "none",
           \/ UNCHANGED replies
           \/ /\ Publication(x, DataMessage(x, st))
              /\ x \in Boards => st = sensor[x].status
    PROVE  SInv'
  <1>1. CASE UNCHANGED replies
    <2>1. ASSUME NEW b \in Boards
          PROVE  BoardInv(b)'
      <3>1. BoardInv(b)
        BY DEF SInv
      <3>2. \A d \in Calls : Open(d, b)' => Open(d, b) /\ Given(d, b)' \subseteq Given(d, b)
        BY <1>1 DEF Open, Waits, Given
      <3> QED  BY <1>1, <3>1, <3>2, StatusFrame, CommandsFrame, AnswersFrame DEF BoardInv
    <2> QED  BY <1>1, <2>1 DEF SInv, OwnMessages
  <1>2. CASE /\ Publication(x, DataMessage(x, st))
             /\ x \in Boards => st = sensor[x].status
    <2>1. PICK m : m = DataMessage(x, st)
      OBVIOUS
    <2>2. m \in Readings /\ m.device_id = x /\ m.topic # "response" /\ m.status = st
      BY <2>1 DEF DataMessage, Readings
    <2>3. /\ \A s \in Sensors \ {x} : replies'[s] = replies[s]
          /\ Elems(replies'[x]) = Elems(replies[x]) \cup {m}
          /\ replies'[x] # << >> /\ Newest(replies'[x]) = m
          /\ OwnMessages'
      BY <1>2, <2>1, <2>2, MessageAdded
    <2>4. ASSUME NEW b \in Boards
          PROVE  BoardInv(b)'
      <3>1. BoardInv(b) /\ b \in Sensors
        BY DEF SInv, Boards
      <3>2. \A d \in Calls : Open(d, b)' => Open(d, b) /\ Given(d, b)' \subseteq Given(d, b)
        BY <2>2, <2>3, <3>1 DEF Open, Waits, Given
      <3>3. LastInOutbox(b)' /\ LastAtSensor(b)' /\ AnswersCurrent(b)'
        BY <3>1, <3>2, CommandsFrame, AnswersFrame DEF BoardInv
      <3>4. StatusKnown(b)'
        <4>1. CASE b # x
          BY <2>3, <3>1, <4>1, StatusFrame DEF BoardInv
        <4>2. CASE b = x
          BY <1>2, <2>2, <2>3, <4>2 DEF StatusKnown, InFlight
        <4> QED  BY <4>1, <4>2
      <3> QED  BY <3>3, <3>4 DEF BoardInv
    <2> QED  BY <2>3, <2>4 DEF SInv
  <1> QED  BY <1>1, <1>2

\* A step of a sensor towards its next reading.
LEMMA ReadingStepStatus ==
    ASSUME IInv, SInv, NEW x \in Sensors, ReadingStep(x)
    PROVE  SInv'
  <1> USE DEF gatewayVars, mqttVars, sensorVars, boundVars
  <1>1. /\ sensor[x] \in SensorStates /\ "ACTIVE" \in Statuses
        /\ reading \in [Sensors -> {"none", "checked"} \cup Statuses]
    BY DEF IInv, TypeOK, Statuses
  <1>2. \A s \in Boards : s \in Sensors /\ s \notin JavaSensors /\ reading[s] = "none"
    BY DEF SInv, BoardInv, Boards
  <1>3. CASE CheckStatus(x)
    <2>1. \A s \in Boards : reading'[s] = "none"
      BY <1>1, <1>2, <1>3 DEF CheckStatus
    <2> QED  BY <1>1, <1>3, <2>1, ReadingAdded DEF CheckStatus
  <1>4. CASE BuildReading(x)
    <2>1. \A s \in Boards : reading'[s] = "none"
      BY <1>1, <1>2, <1>4 DEF BuildReading
    <2> QED  BY <1>1, <1>4, <2>1, ReadingAdded DEF BuildReading
  <1>5. CASE PublishReading(x)
    <2>1. x \notin Boards
      BY <1>2, <1>5 DEF PublishReading, Statuses
    <2>2. \A s \in Boards : reading'[s] = "none"
      BY <1>1, <1>2, <1>5, <2>1 DEF PublishReading
    <2>3. reading[x] \in Statuses
      BY <1>5 DEF PublishReading
    <2> QED  BY <1>5, <2>1, <2>2, <2>3, ReadingAdded DEF PublishReading
  <1>6. CASE LoopPublish(x)
    <2>1. \A s \in Boards : reading'[s] = "none"
      BY <1>2, <1>6 DEF LoopPublish
    <2> QED  BY <1>1, <1>6, <2>1, ReadingAdded DEF LoopPublish
  <1> QED  BY <1>3, <1>4, <1>5, <1>6 DEF ReadingStep

\* The response of a board tells the status after the last command it has
\* carried out; no open call then has a command or another response on its way.
LEMMA HandleCommandStatus ==
    ASSUME IInv, SInv, NEW x \in Sensors, HandleCommand(x)
    PROVE  SInv'
  <1>1. PICK m, r : m = Head(cmds[x]) /\ r = ResponseTo(x, m)
    OBVIOUS
  <1>2. /\ cmds[x] # << >> /\ cmds[x] \in Seq(Commands)
        /\ cmds \in [Sensors -> Seq(Commands)] /\ sensor \in [Sensors -> SensorStates]
        /\ cmds' = [cmds EXCEPT ![x] = Tail(cmds[x])]
        /\ sensor' = [sensor EXCEPT ![x] = SensorAfter(x, m.command_type)]
        /\ Publication(x, r)
    BY <1>1 DEF HandleCommand, Execute, IInv, TypeOK
  <1>3. /\ \A s \in Sensors \ {x} : cmds'[s] = cmds[s] /\ sensor'[s] = sensor[s]
        /\ cmds'[x] = Tail(cmds[x])
        /\ sensor'[x].status = StatusAfter(x, m.command_type)
    BY <1>2 DEF SensorAfter
  <1>4. UNCHANGED <<connected_devices, mqtt_responses, callback, calls, outbox,
                    gatewayUp, reading>>
    BY DEF HandleCommand, Execute, gatewayVars
  <1>5. r \in Responses
    BY <1>1, Executed DEF HandleCommand, gatewayVars, boundVars
  <1>6. m \in Elems(cmds[x]) /\ m.request_id \in Calls
    <2>1. m \in Elems(cmds[x]) /\ m \in Commands
      BY <1>1, <1>2, TailElems
    <2> QED  BY <2>1 DEF Commands
  <1>7. /\ r.topic = "response" /\ r.device_id = x
        /\ r.status = StatusAfter(x, m.command_type)
        /\ x \in Boards => r.request_id = m.request_id /\ r.request_id # None
    BY <1>1, <1>6, NoneAssumption DEF ResponseTo, Throws, Boards
  <1>8. /\ \A s \in Sensors \ {x} : replies'[s] = replies[s]
        /\ Elems(replies'[x]) = Elems(replies[x]) \cup {r}
        /\ replies'[x] # << >> /\ Newest(replies'[x]) = r
        /\ OwnMessages'
    BY <1>2, <1>5, <1>7, MessageAdded
  <1>9. ASSUME NEW b \in Boards, b # x
        PROVE  BoardInv(b)'
    <2>1. BoardInv(b) /\ b \in Sensors \ {x}
      BY <1>9 DEF SInv, Boards
    <2>2. \A d \in Calls : Open(d, b)' => Open(d, b) /\ Given(d, b)' \subseteq Given(d, b)
      BY <1>4, <1>8, <2>1 DEF Open, Waits, Given
    <2> QED
      BY <1>3, <1>4, <1>8, <2>1, <2>2, StatusFrame, CommandsFrame, AnswersFrame DEF BoardInv
  <1>10. ASSUME x \in Boards
         PROVE  BoardInv(x)'
    <2>1. BoardInv(x)
      BY <1>10 DEF SInv
    <2>2. \A d \in Calls : Open(d, x)' <=> Open(d, x)
      BY <1>4 DEF Open, Waits
    <2>3. StatusKnown(x)'
      BY <1>3, <1>7, <1>8 DEF StatusKnown, InFlight
    <2>4. LastInOutbox(x)'
      BY <1>4, <2>1, <2>2 DEF BoardInv, LastInOutbox
    <2>5. /\ Len(cmds[x]) \in Nat /\ 1 \in 1 .. Len(cmds[x]) /\ m = cmds[x][1]
          /\ Len(cmds'[x]) = Len(cmds[x]) - 1
          /\ \A i \in 1 .. Len(cmds'[x]) :
                i + 1 \in 1 .. Len(cmds[x]) /\ cmds'[x][i] = cmds[x][i + 1]
      BY <1>1, <1>2, <1>3
    <2>6. LastAtSensor(x)'
      <3> SUFFICES ASSUME NEW d \in Calls, NEW i \in 1 .. Len(cmds'[x]), Open(d, x),
                          cmds'[x][i].request_id = d
                   PROVE  i = Len(cmds'[x]) /\ ~Addressed(x)
        BY <1>4, <2>2 DEF LastAtSensor, Addressed
      <3>1. i + 1 = Len(cmds[x]) /\ ~Addressed(x)
        BY <2>1, <2>5 DEF BoardInv, LastAtSensor
      <3> QED  BY <2>5, <3>1
    <2>7. AnswersCurrent(x)'
      <3> SUFFICES ASSUME NEW d \in Calls, NEW n \in Given(d, x)', Open(d, x)
                   PROVE  /\ n.status = sensor'[x].status
                          /\ cmds'[x] = << >> /\ ~Addressed(x)
        BY <1>4, <2>2 DEF AnswersCurrent, Addressed
      <3>1. Given(d, x) = {}
        BY <1>2, <2>1 DEF BoardInv, AnswersCurrent
      <3>2. n = r /\ r.request_id = d
        BY <1>4, <1>8, <3>1 DEF Given
      <3>3. cmds[x][1].request_id = d
        BY <1>7, <1>10, <2>5, <3>2
      <3>4. Len(cmds[x]) = 1 /\ ~Addressed(x)
        BY <2>1, <2>5, <3>3 DEF BoardInv, LastAtSensor
      <3>5. cmds'[x] = << >>
        <4>1. PICK q : q = cmds'[x]
          OBVIOUS
        <4>2. q \in Seq(Commands) /\ Len(q) = 0
          BY <1>2, <1>3, <2>5, <3>4, <4>1
        <4>3. q = << >>
          BY <4>2
        <4> QED  BY <4>1, <4>3
      <3> QED  BY <1>3, <1>7, <3>2, <3>4, <3>5
    <2> QED  BY <1>4, <2>1, <2>3, <2>4, <2>6, <2>7 DEF BoardInv
  <1> QED  BY <1>4, <1>8, <1>9, <1>10 DEF SInv

-----------------------------------------------------------------------------
(* The theorem                                                             *)

\* Every step that disturbs nothing keeps the invariant.
LEMMA NextStatus ==
    ASSUME IInv, SInv, [Next]_vars, Undisturbed, Undisturbed'
    PROVE  SInv'
  <1>1. CASE \E c \in Calls, s \in Sensors : SendToUnknown(c, s)
    BY <1>1, SendToUnknownStatus
  <1>2. CASE \E c \in Calls, s \in Sensors, t \in Requests : SendCommand(c, s, t)
    BY <1>2, SendCommandStatus DEF Undisturbed
  <1>3. CASE \E c \in Calls : PopResponse(c) \/ GiveUp(c) \/ UpdateDevice(c)
    BY <1>3, PopResponseStatus, GiveUpStatus, UpdateDeviceStatus
  <1>4. CASE \E s \in Sensors : HandleSensorData(s) \/ HandleCommandResponse(s)
    BY <1>4, HandleSensorDataStatus, HandleCommandResponseStatus
  <1>5. CASE ApplyResponseStatus \/ CleanResponses
    BY <1>5, ApplyResponseStatusStatus, CleanResponsesStatus
  <1>6. CASE \E s \in Sensors : RemoveOffline(s)
    BY <1>6, RemoveOfflineStatus
  <1>7. CASE BrokerAccept
    BY <1>7, BrokerAcceptStatus
  <1>8. CASE \E s \in Sensors : HandleCommand(s)
    BY <1>8, HandleCommandStatus
  <1>9. CASE \E s \in Sensors : ReadingStep(s)
    BY <1>9, ReadingStepStatus
  <1>10. CASE GatewayReconnect
    BY <1>10 DEF GatewayReconnect, SInv
  <1>11. CASE \/ \E s \in Sensors : SensorReconnect(s)
              \/ Tick
              \/ UNCHANGED vars
    <2>1. UNCHANGED <<connected_devices, mqtt_responses, callback, calls, outbox,
                      gatewayUp, cmds, replies, sensor, reading>>
      BY <1>11 DEF SensorReconnect, Tick, vars, gatewayVars, mqttVars, sensorVars
    <2>2. \A b \in Boards : StatusKnown(b)'
      BY <2>1, StatusFrame DEF SInv, BoardInv
    <2> QED  BY <2>1, <2>2, OnlyStatus
  <1>12. ~Fault
    BY DEF Fault, Undisturbed
  <1> QED
    BY <1>1, <1>2, <1>3, <1>4, <1>5, <1>6, <1>7, <1>8, <1>9, <1>10, <1>11, <1>12
    DEF Next, ReadingStep, BrokerAcceptAckLost, GatewayDisconnect, LoseGateway,
        SensorDisconnect, HandleCommandOffline, SensorRestart

\* As long as no connection breaks, no sensor restarts and no two threads wait
\* for one board, a board of which nothing is on its way is listed with the
\* status it has: whatever timed out before, however old the responses that
\* are still carried out and applied.
THEOREM StatusesSettle == Spec => StatusSettles
  <1>1. Init => SInv
    BY InitStatus
  <1>2. IInv /\ SInv /\ [Next]_vars /\ Undisturbed /\ Undisturbed' => SInv'
    BY NextStatus
  <1>3. SInv => SettledStatus
    BY DEF SInv, BoardInv, StatusKnown, SettledStatus, Boards
  <1> QED  BY <1>1, <1>2, <1>3, Invariance, PTL DEF Spec, StatusSettles

=============================================================================
