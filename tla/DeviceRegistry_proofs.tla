------------------------- MODULE DeviceRegistry_proofs -------------------------
(***************************************************************************)
(* Proofs about DeviceRegistry, for every value of its constants.          *)
(*                                                                         *)
(* The inductive invariant bounds how long a steady sensor can have been   *)
(* silent: no longer than the time since its last reading, if all of them  *)
(* have arrived, and no longer than the longest interval and the age of    *)
(* the oldest reading on its way, if there are any.  (The interval in      *)
(* force will not do: SET_FREQ may have made it shorter since that one.)   *)
(***************************************************************************)
EXTENDS DeviceRegistry, SequenceTheorems, TLAPS

\* Only a running gateway holds registry entries, threads and subscriptions.
UpOK ==
    /\ \A d \in Devices : Listed(d) \/ infos[d] > 0 => gatewayUp
    /\ \A s \in Sensors : readings[s] # << >> => gatewayUp

SilenceBound(s) ==
    IF readings[s] = << >> THEN silence[s] <= timer[s]
                           ELSE silence[s] <= Longest[s] + readings[s][1]

SteadyOK ==
    \A s \in Sensors : steady[s] => OnLine(s) /\ (Listed(s) => SilenceBound(s))

IInv == TypeOK /\ UpOK /\ SteadyOK

\* What the proofs use of the constants.
LEMMA Constants ==
    /\ JavaSensors \subseteq Sensors /\ Sensors \cap Actuators = {}
    /\ Sensors \subseteq Devices /\ Actuators \subseteq Devices
    /\ Interval \in [Devices -> Nat \ {0}] /\ Longest \in [Devices -> Nat]
    /\ (\A d \in Devices : Interval[d] <= Longest[d]) /\ Delay \in Nat
    /\ OfflineAfter \in Nat /\ MaxThreads \in Nat
    /\ None \notin Int
  BY DevicesAssumption, TimeAssumption, NoneAssumption DEF Devices

\* Intervals are positive numbers, and at most the longest.
LEMMA Intervals ==
    \A d \in Devices :
        Interval[d] \in Nat \ {0} /\ Longest[d] \in Nat /\ Interval[d] <= Longest[d]
  BY Constants
\* The interval of a device lies between one and its longest.
LEMMA IntervalsNow ==
    ASSUME TypeOK, NEW d \in Devices
    PROVE  interval[d] \in Nat \ {0} /\ interval[d] <= Longest[d] /\ Longest[d] \in Nat
  BY Intervals DEF TypeOK

\* A timer is set to a time within the longest interval of its device.
LEMMA SetTimer ==
    ASSUME TypeOK, NEW d \in Devices, NEW x \in Nat, x <= Longest[d],
           timer' = [timer EXCEPT ![d] = x]
    PROVE  /\ timer' \in [Devices -> Nat]
           /\ \A e \in Devices : timer'[e] <= Longest[e]
           /\ timer'[d] = x
           /\ \A e \in Devices \ {d} : timer'[e] = timer[e]
  <1>1. timer \in [Devices -> Nat] /\ \A e \in Devices : timer[e] <= Longest[e]
    BY DEF TypeOK
  <1>2. /\ timer' \in [Devices -> Nat] /\ timer'[d] = x
        /\ \A e \in Devices \ {d} : timer'[e] = timer[e]
    BY <1>1
  <1>3. \A e \in Devices : timer'[e] <= Longest[e]
    BY <1>1, <1>2
  <1> QED  BY <1>2, <1>3

\* The timer is set to its interval, as after start-up, or to zero.
LEMMA SetTimerTo ==
    ASSUME TypeOK, NEW d \in Devices,
           \/ timer' = [timer EXCEPT ![d] = interval[d]]
           \/ timer' = [timer EXCEPT ![d] = 0]
    PROVE  /\ timer' \in [Devices -> Nat]
           /\ \A e \in Devices : timer'[e] <= Longest[e]
           /\ \A e \in Devices \ {d} : timer'[e] = timer[e]
  <1>1. interval[d] \in Nat /\ interval[d] <= Longest[d] /\ 0 <= Longest[d]
    BY IntervalsNow
  <1>2. CASE timer' = [timer EXCEPT ![d] = interval[d]]
    BY <1>1, <1>2, SetTimer
  <1>3. CASE timer' = [timer EXCEPT ![d] = 0]
    BY <1>1, <1>3, SetTimer
  <1> QED  BY <1>2, <1>3

\* A new scheduler never makes a timer shorter.
LEMMA Rescheduled ==
    ASSUME TypeOK, NEW d \in Devices, NEW i \in 1 .. Longest[d], Reschedule(d, i)
    PROVE  /\ timer' \in [Devices -> Nat]
           /\ \A e \in Devices : timer'[e] <= Longest[e] /\ timer'[e] >= timer[e]
           /\ \A e \in Devices \ {d} : timer'[e] = timer[e]
  <1> DEFINE x == IF timer[d] < i THEN i ELSE timer[d]
  <1>1. \A e \in Devices : timer[e] \in Nat /\ timer[e] <= Longest[e]
    BY DEF TypeOK
  <1>2. i \in Nat /\ i <= Longest[d]
    BY Intervals
  <1>3. x \in Nat /\ x <= Longest[d] /\ x >= timer[d]
    BY <1>1, <1>2
  <1>4. timer' = [timer EXCEPT ![d] = x]
    BY DEF Reschedule
  <1> HIDE DEF x
  <1>5. /\ timer' \in [Devices -> Nat] /\ timer'[d] = x
        /\ \A e \in Devices : timer'[e] <= Longest[e]
        /\ \A e \in Devices \ {d} : timer'[e] = timer[e]
    BY <1>3, <1>4, SetTimer
  <1>6. \A e \in Devices : timer'[e] >= timer[e]
    BY <1>1, <1>3, <1>5
  <1> QED  BY <1>5, <1>6

\* A function on the first numbers is a sequence.
LEMMA Sequence ==
    ASSUME NEW S, NEW n \in Nat, NEW f \in [1 .. n -> S]
    PROVE  f \in Seq(S) /\ Len(f) = n
  OBVIOUS

\* A reading that is published is the oldest only if there is no other.
LEMMA FirstOfAppend ==
    ASSUME NEW rs, rs \in Seq(0 .. Delay)
    PROVE  /\ Append(rs, 0) # << >>
           /\ rs = << >> => Append(rs, 0)[1] = 0
           /\ rs # << >> => Append(rs, 0)[1] = rs[1]
  <1> DEFINE new == Append(rs, 0)
  <1>1. Len(rs) \in Nat /\ (rs # << >> => Len(rs) \in Nat \ {0})
    BY EmptySeq, LenProperties
  <1>2. rs = << >> => Len(rs) = 0
    OBVIOUS
  <1>3. 0 \in 0 .. Delay
    BY Constants
  <1>4. /\ new # << >> /\ new[Len(rs) + 1] = 0
        /\ \A i \in 1 .. Len(rs) : new[i] = rs[i]
    BY <1>3, AppendProperties
  <1> HIDE DEF new
  <1>5. rs # << >> => 1 \in 1 .. Len(rs)
    BY <1>1
  <1>6. rs = << >> => Len(rs) + 1 = 1
    BY <1>2
  <1>7. (rs = << >> => new[1] = 0) /\ (rs # << >> => new[1] = rs[1])
    BY <1>4, <1>5, <1>6, Zenon
  <1> QED  BY <1>4, <1>7 DEF new

\* The oldest reading on its way has an age.
LEMMA FirstReading ==
    ASSUME NEW rs \in [Sensors -> Seq(0 .. Delay)], NEW s \in Sensors, rs[s] # << >>
    PROVE  rs[s][1] \in Nat /\ rs[s][1] <= Delay
  <1>1. rs[s] \in Seq(0 .. Delay) /\ Delay \in Nat
    BY Constants
  <1> QED  BY <1>1

\* At first nothing is listed and no sensor is steady.
LEMMA InitInv == Init => IInv
  <1> SUFFICES ASSUME Init PROVE IInv
    OBVIOUS
  <1> USE Constants DEF Init
  <1>1. TypeOK
    <2>1. steady \in [Sensors -> BOOLEAN] /\ gatewayUp \in BOOLEAN
      BY Zenon
    <2>2. /\ timer \in [Devices -> Nat] /\ interval \in [Devices -> Nat \ {0}]
          /\ \A d \in Devices : interval[d] <= Longest[d] /\ timer[d] <= Longest[d]
      BY Intervals
    <2> QED  BY <2>1, <2>2 DEF TypeOK, Silences, Phases, Links
  <1>2. UpOK
    BY DEF UpOK, Listed
  <1>3. SteadyOK
    BY Zenon DEF SteadyOK
  <1> QED  BY <1>1, <1>2, <1>3 DEF IInv

-----------------------------------------------------------------------------
(* The gateway                                                             *)

\* A gateway that starts finds an empty list: no sensor was steady without it.
LEMMA GatewayStartInv ==
    ASSUME IInv, GatewayStart
    PROVE  IInv'
  <1> USE Constants DEF IInv, GatewayStart, deviceVars
  <1>1. TypeOK'
    BY DEF TypeOK
  <1>2. UpOK'
    BY DEF UpOK, Listed
  <1>3. SteadyOK'
    BY DEF SteadyOK, OnLine
  <1> QED  BY <1>1, <1>2, <1>3

\* With the gateway everything it holds is gone, and no sensor is steady.
LEMMA GatewayStopInv ==
    ASSUME IInv, GatewayStop
    PROVE  IInv'
  <1> USE Constants DEF IInv, GatewayStop, deviceVars
  <1>1. TypeOK'
    <2>1. steady' \in [Sensors -> BOOLEAN] /\ gatewayUp' \in BOOLEAN
      BY Zenon
    <2>2. /\ silence' \in [Devices -> Silences]
          /\ infos' \in [Devices -> 0 .. MaxThreads]
          /\ readings' \in [Sensors -> Seq(0 .. Delay)]
      BY DEF Silences
    <2> QED  BY <2>1, <2>2 DEF TypeOK
  <1>2. UpOK'
    BY DEF UpOK, Listed
  <1>3. \A s \in Sensors : ~steady'[s]
    BY Zenon
  <1>4. SteadyOK'
    BY <1>3 DEF SteadyOK
  <1> QED  BY <1>1, <1>2, <1>4

\* A sensor that is heard from has been silent for no time at all.
LEMMA SeenInv ==
    ASSUME IInv, NEW d \in Devices, Seen(d), SteadyNow(d), gatewayUp,
           UNCHANGED <<gatewayUp, deviceVars>>,
           infos' \in [Devices -> 0 .. MaxThreads],
           readings' \in [Sensors -> Seq(0 .. Delay)],
           \A s \in Sensors \ {d} : readings'[s] = readings[s]
    PROVE  IInv'
  <1> USE Constants DEF IInv, Seen, deviceVars
  <1>1. silence' \in [Devices -> Silences] /\ silence'[d] = 0
        /\ \A e \in Devices \ {d} : silence'[e] = silence[e]
    BY DEF TypeOK, Silences
  <1>2. /\ steady' \in [Sensors -> BOOLEAN]
        /\ \A s \in Sensors : steady'[s] <=> IF s = d THEN OnLine(s) ELSE steady[s]
    <2>1. CASE d \in Sensors
      <3>1. OnLine(d) \in BOOLEAN
        BY DEF OnLine
      <3>2. steady' = [steady EXCEPT ![d] = OnLine(d)] /\ steady \in [Sensors -> BOOLEAN]
        BY <2>1 DEF SteadyNow, TypeOK
      <3> QED  BY <2>1, <3>1, <3>2
    <2>2. CASE d \notin Sensors
      BY <2>2 DEF SteadyNow, TypeOK
    <2> QED  BY <2>1, <2>2
  <1>3. TypeOK'
    BY <1>1, <1>2 DEF TypeOK
  <1>4. UpOK'
    BY DEF UpOK
  <1>5. SteadyOK'
    <2> SUFFICES ASSUME NEW s \in Sensors, steady'[s]
                 PROVE  OnLine(s)' /\ (Listed(s)' => SilenceBound(s)')
      BY DEF SteadyOK
    <2>1. OnLine(s) /\ (OnLine(s) <=> OnLine(s)')
      BY <1>2 DEF SteadyOK, OnLine, Publishing, Linked
    <2>2. CASE s = d
      <3>1. readings'[s] # << >> => readings'[s][1] \in Nat
        BY FirstReading
      <3>2. silence'[s] = 0 /\ timer'[s] \in Nat /\ Longest[s] \in Nat
        BY <1>1, <1>3, <2>2, Intervals DEF TypeOK
      <3> QED  BY <2>1, <3>1, <3>2 DEF SilenceBound
    <2>3. CASE s # d
      BY <1>1, <1>2, <2>1, <2>3 DEF SteadyOK, SilenceBound, Listed
    <2> QED  BY <2>1, <2>2, <2>3
  <1> QED  BY <1>3, <1>4, <1>5

\* A registration makes the silence of the device zero.
LEMMA HandleDeviceInfoInv ==
    ASSUME IInv, NEW d \in Devices, HandleDeviceInfo(d)
    PROVE  IInv'
  <1> USE Constants DEF IInv, HandleDeviceInfo
  <1>1. gatewayUp
    BY DEF UpOK
  <1>2. infos' \in [Devices -> 0 .. MaxThreads]
    BY DEF TypeOK
  <1>3. readings' \in [Sensors -> Seq(0 .. Delay)]
    BY DEF TypeOK
  <1> QED  BY <1>1, <1>2, <1>3, SeenInv

\* A step that only lets readings disappear, of a sensor that is not listed or is
\* steady no more.
LEMMA ReadingGone ==
    ASSUME IInv, NEW s \in Sensors, NEW rest \in Seq(0 .. Delay), readings[s] # << >>,
           readings' = [readings EXCEPT ![s] = rest],
           UNCHANGED <<gatewayUp, silence, infos, deviceVars>>,
           \/ steady' = [steady EXCEPT ![s] = FALSE]
           \/ ~Listed(s) /\ UNCHANGED steady
    PROVE  IInv'
  <1> USE Constants DEF IInv, deviceVars
  <1>1. /\ readings' \in [Sensors -> Seq(0 .. Delay)]
        /\ \A x \in Sensors \ {s} : readings'[x] = readings[x]
        /\ steady' \in [Sensors -> BOOLEAN]
        /\ \A x \in Sensors : steady'[x] => steady[x] /\ (x = s => ~Listed(s))
    BY DEF TypeOK
  <1>2. TypeOK'
    BY <1>1 DEF TypeOK
  <1>3. UpOK'
    BY <1>1 DEF UpOK, Listed
  <1>4. SteadyOK'
    BY <1>1 DEF SteadyOK, OnLine, Publishing, Linked, Listed, SilenceBound
  <1> QED  BY <1>2, <1>3, <1>4

\* A reading makes the silence zero, if its sensor is listed.
LEMMA HandleReadingInv ==
    ASSUME IInv, NEW s \in Sensors, HandleReading(s)
    PROVE  IInv'
  <1> USE Constants DEF IInv, HandleReading
  <1>3. Tail(readings[s]) \in Seq(0 .. Delay)
    BY DEF TypeOK
  <1>1. CASE Listed(s)
    <2>1. gatewayUp
      BY DEF UpOK
    <2>2. /\ readings' \in [Sensors -> Seq(0 .. Delay)]
          /\ \A x \in Sensors \ {s} : readings'[x] = readings[x]
      BY <1>3 DEF TypeOK
    <2>3. infos' \in [Devices -> 0 .. MaxThreads]
      BY DEF TypeOK
    <2>4. Seen(s) /\ SteadyNow(s) /\ s \in Devices
      BY <1>1
    <2> QED  BY <2>1, <2>2, <2>3, <2>4, SeenInv
  <1>2. CASE ~Listed(s)
    BY <1>2, <1>3, ReadingGone
  <1> QED  BY <1>1, <1>2

\* A sensor whose readings are lost is steady no more.
LEMMA LoseReadingsInv ==
    ASSUME IInv, NEW s \in Sensors, LoseReadings(s)
    PROVE  IInv'
  <1>1. << >> \in Seq(0 .. Delay)
    OBVIOUS
  <1> QED  BY <1>1, ReadingGone DEF LoseReadings

\* The clean-up takes entries away and changes no other.
LEMMA SweepOfflineInv ==
    ASSUME IInv, SweepOffline
    PROVE  IInv'
  <1> USE Constants DEF IInv, SweepOffline, deviceVars
  <1>1. /\ silence' \in [Devices -> Silences]
        /\ \A d \in Devices : silence'[d] \in {silence[d], None}
    BY DEF TypeOK, Silences
  <1>2. TypeOK'
    BY <1>1 DEF TypeOK
  <1>3. UpOK'
    BY <1>1 DEF UpOK, Listed
  <1>4. SteadyOK'
    <2> SUFFICES ASSUME NEW s \in Sensors, steady'[s]
                 PROVE  OnLine(s)' /\ (Listed(s)' => SilenceBound(s)')
      BY DEF SteadyOK
    <2>1. OnLine(s) /\ (Listed(s) => SilenceBound(s)) /\ OnLine(s)'
      BY DEF SteadyOK, OnLine, Publishing, Linked
    <2>2. ASSUME Listed(s)' PROVE SilenceBound(s)'
      <3>1. silence'[s] = silence[s] /\ Listed(s)
        BY <1>1, <2>2 DEF Listed
      <3> QED  BY <2>1, <3>1 DEF SilenceBound
    <2> QED  BY <2>1, <2>2
  <1> QED  BY <1>2, <1>3, <1>4

\* A command leaves a sensor steady only if it publishes, and either was steady
\* before or has been heard from.
LEMMA CommandedInv ==
    ASSUME IInv, NEW s \in Sensors, NEW answered \in BOOLEAN, NEW publishing \in BOOLEAN,
           Commanded(s, answered, publishing),
           publishing => phase[s] = "running" /\ status'[s] = "ACTIVE",
           status' \in [Sensors -> {"ACTIVE", "IDLE"}],
           interval' \in [Devices -> Nat \ {0}], timer' \in [Devices -> Nat],
           \A d \in Devices : interval'[d] <= Longest[d] /\ timer'[d] <= Longest[d],
           \A x \in Sensors \ {s} : status'[x] = status[x] /\ timer'[x] = timer[x],
           steady[s] => timer'[s] >= timer[s]
    PROVE  IInv'
  <1> USE Constants DEF IInv, Commanded, Seen
  <1>1. /\ silence' \in [Devices -> Silences]
        /\ silence'[s] = IF answered THEN 0 ELSE silence[s]
        /\ \A d \in Devices \ {s} : silence'[d] = silence[d]
    <2>1. silence \in [Devices -> Silences] /\ s \in Devices /\ 0 \in Silences
      BY DEF TypeOK, Silences
    <2>2. silence' = IF answered THEN [silence EXCEPT ![s] = 0] ELSE silence
      OBVIOUS
    <2> HIDE DEF IInv, Commanded
    <2> QED  BY <2>1, <2>2
  <1>2. steady \in [Sensors -> BOOLEAN]
    BY DEF TypeOK
  <1>3. (publishing /\ (answered \/ steady[s])) \in BOOLEAN
    OBVIOUS
  <1>4. steady' = [steady EXCEPT ![s] = publishing /\ (answered \/ steady[s])]
    OBVIOUS
  <1>5. /\ steady' \in [Sensors -> BOOLEAN]
        /\ steady'[s] => publishing /\ (answered \/ steady[s])
        /\ \A x \in Sensors \ {s} : steady'[x] = steady[x]
    <2> HIDE DEF Commanded
    <2> QED  BY <1>2, <1>3, <1>4, Zenon
  <1>6. gatewayUp
    BY DEF UpOK
  <1>7. TypeOK'
    BY <1>1, <1>5 DEF TypeOK
  <1>8. UpOK'
    BY <1>6 DEF UpOK
  <1>9. SteadyOK'
    <2> SUFFICES ASSUME NEW x \in Sensors, steady'[x]
                 PROVE  OnLine(x)' /\ (Listed(x)' => SilenceBound(x)')
      BY DEF SteadyOK
    <2>1. CASE x = s
      <3>1. OnLine(x)'
        BY <1>5, <1>6, <2>1 DEF OnLine, Publishing, Linked
      <3>2. readings'[s] = readings[s] /\ Longest[s] \in Nat /\ timer'[s] \in Nat
        BY Intervals
      <3>3. readings[s] = << >> \/ readings[s][1] \in Nat
        BY FirstReading DEF TypeOK
      <3>4. CASE answered
        <4>1. silence'[s] = 0
          BY <1>1, <3>4
        <4> QED  BY <2>1, <3>1, <3>2, <3>3, <4>1 DEF SilenceBound
      <3>5. CASE ~answered
        <4>1. SilenceBound(s) /\ timer'[s] >= timer[s] /\ silence'[s] = silence[s]
          BY <1>1, <1>5, <2>1, <3>5 DEF SteadyOK
        <4>2. silence[s] \in Int /\ timer[s] \in Nat
          BY DEF TypeOK, Silences, Listed
        <4>3. CASE readings[s] = << >>
          <5>1. silence'[s] <= timer'[s] /\ readings'[s] = << >>
            BY <3>2, <4>1, <4>2, <4>3 DEF SilenceBound
          <5> QED  BY <2>1, <3>1, <5>1 DEF SilenceBound
        <4>4. CASE readings[s] # << >>
          <5>1. silence'[s] <= Longest[s] + readings'[s][1] /\ readings'[s] # << >>
            BY <3>2, <4>1, <4>4 DEF SilenceBound
          <5> QED  BY <2>1, <3>1, <5>1 DEF SilenceBound
        <4> QED  BY <4>3, <4>4
      <3> QED  BY <3>4, <3>5
    <2>2. CASE x # s
      BY <1>1, <1>5, <2>2
         DEF SteadyOK, OnLine, Publishing, Linked, Listed, SilenceBound
    <2> QED  BY <2>1, <2>2
  <1> QED  BY <1>7, <1>8, <1>9

\* TURN_ACTIVE resets the timer of an IDLE sensor only, which is not steady.
LEMMA CommandSensorInv ==
    ASSUME IInv, NEW s \in Sensors, NEW st \in {"ACTIVE", "IDLE"},
           NEW answered \in BOOLEAN, CommandSensor(s, st, answered)
    PROVE  IInv'
  <1> USE Constants DEF IInv
  <1> DEFINE publishing == phase[s] = "running" /\ st = "ACTIVE"
  <1>1. /\ status' \in [Sensors -> {"ACTIVE", "IDLE"}] /\ status'[s] = st
        /\ \A x \in Sensors \ {s} : status'[x] = status[x]
    BY DEF CommandSensor, TypeOK
  <1>2. /\ timer' \in [Devices -> Nat] /\ \A d \in Devices : timer'[d] <= Longest[d]
        /\ \A d \in Devices \ {s} : timer'[d] = timer[d]
        /\ steady[s] => timer'[s] >= timer[s]
    <2>1. CASE Reschedule(s, interval[s])
      <3>1. interval[s] \in 1 .. Longest[s]
        BY IntervalsNow
      <3> QED  BY <2>1, <3>1, Rescheduled
    <2>2. CASE status[s] = "IDLE" /\ timer' = [timer EXCEPT ![s] = 0]
      BY <2>2, SetTimerTo DEF SteadyOK, OnLine, Publishing
    <2>3. CASE UNCHANGED timer
      BY <2>3 DEF TypeOK
    <2> QED  BY <2>1, <2>2, <2>3 DEF CommandSensor
  <1>3. /\ interval' \in [Devices -> Nat \ {0}]
        /\ \A d \in Devices : interval'[d] <= Longest[d]
    BY DEF CommandSensor, TypeOK
  <1>4. Commanded(s, answered, publishing) /\ publishing \in BOOLEAN
    BY DEF CommandSensor
  <1>5. publishing => phase[s] = "running" /\ status'[s] = "ACTIVE"
    BY <1>1
  <1> HIDE DEF publishing, IInv
  <1> QED  BY <1>1, <1>2, <1>3, <1>4, <1>5, CommandedInv

\* SET_FREQ changes the interval, and never makes a timer shorter.
LEMMA SetFrequencyInv ==
    ASSUME IInv, NEW s \in Sensors, NEW i \in 1 .. Longest[s],
           NEW answered \in BOOLEAN, SetFrequency(s, i, answered)
    PROVE  IInv'
  <1> USE Constants DEF IInv
  <1>1. /\ timer' \in [Devices -> Nat]
        /\ \A d \in Devices : timer'[d] <= Longest[d] /\ timer'[d] >= timer[d]
        /\ \A d \in Devices \ {s} : timer'[d] = timer[d]
    <2>1. CASE Reschedule(s, i)
      BY <2>1, Rescheduled
    <2>2. CASE UNCHANGED timer
      BY <2>2 DEF TypeOK
    <2> QED  BY <2>1, <2>2 DEF SetFrequency
  <1>2. /\ interval' \in [Devices -> Nat \ {0}]
        /\ \A d \in Devices : interval'[d] <= Longest[d]
    <2>1. i \in Nat \ {0} /\ i <= Longest[s]
      BY Intervals
    <2> QED  BY <2>1 DEF SetFrequency, TypeOK
  <1>3. UNCHANGED status /\ status \in [Sensors -> {"ACTIVE", "IDLE"}]
    BY DEF SetFrequency, TypeOK
  <1>4. Commanded(s, answered, Publishing(s)) /\ Publishing(s) \in BOOLEAN
    BY DEF SetFrequency, Publishing
  <1>5. Publishing(s) => phase[s] = "running" /\ status'[s] = "ACTIVE"
    BY <1>3 DEF Publishing
  <1> HIDE DEF IInv
  <1> QED  BY <1>1, <1>2, <1>3, <1>4, <1>5, CommandedInv

-----------------------------------------------------------------------------
(* Start-up and registration                                               *)

\* A thread for a DeviceInfo starts in a running gateway, or none does.
LEMMA SendDeviceInfoInv ==
    ASSUME TypeOK, UpOK, NEW d \in Devices, NEW sent \in BOOLEAN,
           SendDeviceInfo(d, sent)
    PROVE  /\ infos' \in [Devices -> 0 .. MaxThreads]
           /\ (\E e \in Devices : infos'[e] > 0) => gatewayUp
  <1> USE Constants DEF SendDeviceInfo
  <1>1. CASE sent
    BY <1>1 DEF TypeOK
  <1>2. CASE ~sent
    BY <1>2 DEF TypeOK, UpOK
  <1> QED  BY <1>1, <1>2

\* What a step may do to a device that is not a steady sensor, or not to its
\* silence: everything that the invariant relates is left alone.
LEMMA QuietInv ==
    ASSUME IInv, TypeOK', UNCHANGED <<gatewayUp, silence, readings>>,
           (\E e \in Devices : infos'[e] > 0) => gatewayUp,
           \A s \in Sensors : steady'[s] =>
               /\ steady[s] /\ OnLine(s)'
               /\ timer'[s] >= timer[s]
    PROVE  IInv'
  <1> USE Constants DEF IInv
  <1>1. UpOK'
    BY DEF UpOK, Listed, TypeOK
  <1>2. SteadyOK'
    <2> SUFFICES ASSUME NEW s \in Sensors, steady'[s]
                 PROVE  OnLine(s)' /\ (Listed(s)' => SilenceBound(s)')
      BY DEF SteadyOK
    <2>1. Listed(s) => SilenceBound(s)
      BY DEF SteadyOK
    <2>2. ASSUME Listed(s) PROVE silence[s] \in Int /\ timer[s] \in Int /\ timer'[s] \in Int
      BY <2>2 DEF Listed, TypeOK, Silences
    <2> QED  BY <2>1, <2>2 DEF SilenceBound, Listed
  <1> QED  BY <1>1, <1>2

\* A device that is off is not steady.
LEMMA PowerOnInv ==
    ASSUME IInv, NEW d \in Devices, PowerOn(d)
    PROVE  IInv'
  <1> USE Constants DEF IInv, PowerOn
  <1>1. TypeOK'
    BY DEF TypeOK, Phases
  <1>2. (\E e \in Devices : infos'[e] > 0) => gatewayUp
    BY DEF UpOK
  <1>3. \A s \in Sensors : steady'[s] => steady[s] /\ OnLine(s)' /\ timer'[s] >= timer[s]
    BY DEF SteadyOK, OnLine, Publishing, Linked, TypeOK
  <1> QED  BY <1>1, <1>2, <1>3, QuietInv

\* A sensor that is switched off is steady no more.
LEMMA PowerOffInv ==
    ASSUME IInv, NEW d \in Devices, PowerOff(d)
    PROVE  IInv'
  <1> USE Constants DEF IInv, PowerOff
  <1>1. TypeOK'
    <2>1. timer' \in [Devices -> Nat] /\ \A e \in Devices : timer'[e] <= Longest[e]
      BY SetTimerTo
    <2>4. /\ interval' \in [Devices -> Nat \ {0}]
          /\ \A e \in Devices : interval'[e] <= Longest[e]
      BY Intervals DEF TypeOK
    <2>2. steady' \in [Sensors -> BOOLEAN]
      BY Zenon DEF TypeOK
    <2>3. /\ link' \in [Sensors -> Links]
          /\ status' \in [Sensors -> {"ACTIVE", "IDLE"}]
          /\ phase' \in [Devices -> Phases]
      BY DEF TypeOK, Links, Phases
    <2> QED  BY <2>1, <2>2, <2>3, <2>4 DEF TypeOK
  <1>2. (\E e \in Devices : infos'[e] > 0) => gatewayUp
    BY DEF UpOK
  <1>3. ASSUME NEW s \in Sensors, steady'[s]
        PROVE  steady[s] /\ OnLine(s)' /\ timer'[s] >= timer[s]
    <2>1. s # d /\ steady[s]
      BY <1>3 DEF TypeOK
    <2>2. phase'[s] = phase[s] /\ link'[s] = link[s] /\ status'[s] = status[s]
          /\ timer'[s] = timer[s] /\ timer[s] \in Nat
      BY <2>1 DEF TypeOK
    <2> QED  BY <2>1, <2>2 DEF SteadyOK, OnLine, Publishing, Linked
  <1> QED  BY <1>1, <1>2, <1>3, QuietInv

\* A sensor that is still searching is not steady.
LEMMA DiscoverSensorInv ==
    ASSUME IInv, NEW s \in Sensors, DiscoverSensor(s)
    PROVE  IInv'
  <1> USE Constants DEF IInv, DiscoverSensor
  <1>1. TypeOK'
    BY DEF TypeOK, Phases
  <1>2. (\E e \in Devices : infos'[e] > 0) => gatewayUp
    BY DEF UpOK
  <1>3. \A x \in Sensors : steady'[x] => steady[x] /\ OnLine(x)' /\ timer'[x] >= timer[x]
    BY DEF SteadyOK, OnLine, Publishing, Linked, TypeOK
  <1> QED  BY <1>1, <1>2, <1>3, QuietInv

\* A sensor that has not registered yet is not steady.
LEMMA RegisterInv ==
    ASSUME IInv, NEW s \in Sensors, NEW sent \in BOOLEAN,
           NEW l \in Links, Register(s, sent, l)
    PROVE  IInv'
  <1> USE Constants DEF IInv, Register
  <1>1. /\ infos' \in [Devices -> 0 .. MaxThreads]
        /\ (\E e \in Devices : infos'[e] > 0) => gatewayUp
    BY SendDeviceInfoInv
  <1>2. phase' \in [Devices -> Phases] /\ link' \in [Sensors -> Links]
    BY DEF TypeOK, Phases
  <1>3. /\ timer' \in [Devices -> Nat] /\ \A d \in Devices : timer'[d] <= Longest[d]
        /\ \A d \in Devices \ {s} : timer'[d] = timer[d]
    BY SetTimerTo
  <1>4. TypeOK'
    BY <1>1, <1>2, <1>3 DEF TypeOK
  <1>5. ASSUME NEW x \in Sensors, steady'[x]
        PROVE  steady[x] /\ OnLine(x)' /\ timer'[x] >= timer[x]
    <2>1. steady[x] /\ x # s
      BY <1>5 DEF SteadyOK, OnLine, Publishing
    <2> QED  BY <1>3, <2>1 DEF SteadyOK, OnLine, Publishing, Linked, TypeOK
  <1> QED  BY <1>1, <1>4, <1>5, QuietInv

\* An answer to a discovery packet changes nothing of a sensor.
LEMMA DiscoverActuatorInv ==
    ASSUME IInv, NEW a \in Actuators, NEW sent \in BOOLEAN, DiscoverActuator(a, sent)
    PROVE  IInv'
  <1> USE Constants DEF IInv, DiscoverActuator
  <1>1. /\ infos' \in [Devices -> 0 .. MaxThreads]
        /\ (\E e \in Devices : infos'[e] > 0) => gatewayUp
    BY SendDeviceInfoInv
  <1>2. TypeOK'
    BY <1>1 DEF TypeOK, Phases
  <1>3. \A s \in Sensors : steady'[s] => steady[s] /\ OnLine(s)' /\ timer'[s] >= timer[s]
    BY DEF SteadyOK, OnLine, Publishing, Linked, TypeOK
  <1> QED  BY <1>1, <1>2, <1>3, QuietInv

\* An answered command makes the silence of the actuator zero.
LEMMA CommandActuatorInv ==
    ASSUME IInv, NEW a \in Actuators, NEW sent \in BOOLEAN, CommandActuator(a, sent)
    PROVE  IInv'
  <1> USE Constants DEF IInv, CommandActuator
  <1>1. gatewayUp /\ a \in Devices /\ SteadyNow(a)
    BY DEF UpOK, SteadyNow
  <1>2. infos' \in [Devices -> 0 .. MaxThreads]
    BY SendDeviceInfoInv
  <1>3. readings' \in [Sensors -> Seq(0 .. Delay)]
    BY DEF TypeOK
  <1> QED  BY <1>1, <1>2, <1>3, SeenInv

\* A renewal changes nothing of a sensor.
LEMMA RenewInv ==
    ASSUME IInv, NEW a \in Actuators, NEW sent \in BOOLEAN, Renew(a, sent)
    PROVE  IInv'
  <1> USE Constants DEF IInv, Renew
  <1>1. /\ infos' \in [Devices -> 0 .. MaxThreads]
        /\ (\E e \in Devices : infos'[e] > 0) => gatewayUp
    BY SendDeviceInfoInv
  <1>2. /\ timer' \in [Devices -> Nat] /\ \A d \in Devices : timer'[d] <= Longest[d]
        /\ \A d \in Devices \ {a} : timer'[d] = timer[d]
    BY SetTimerTo
  <1>3. TypeOK'
    BY <1>1, <1>2 DEF TypeOK
  <1>4. \A s \in Sensors : steady'[s] => steady[s] /\ OnLine(s)' /\ timer'[s] >= timer[s]
    BY <1>2 DEF SteadyOK, OnLine, Publishing, Linked, TypeOK
  <1> QED  BY <1>1, <1>3, <1>4, QuietInv

-----------------------------------------------------------------------------
(* Readings, connections and time                                          *)

\* A reading leaves when the timer has reached the interval: what the sensor has
\* been silent until then becomes what it may have been when the reading arrives.
LEMMA PublishInv ==
    ASSUME IInv, NEW s \in Sensors, Publish(s)
    PROVE  IInv'
  <1> USE Constants DEF IInv, Publish
  <1>1. /\ timer' \in [Devices -> Nat] /\ \A d \in Devices : timer'[d] <= Longest[d]
        /\ \A d \in Devices \ {s} : timer'[d] = timer[d]
    BY SetTimerTo
  <1>2. /\ readings' \in [Sensors -> Seq(0 .. Delay)]
        /\ readings'[s] = IF Linked(s) /\ gatewayUp THEN Append(readings[s], 0) ELSE readings[s]
        /\ \A x \in Sensors \ {s} : readings'[x] = readings[x]
    <2>1. readings[s] \in Seq(0 .. Delay) /\ 0 \in 0 .. Delay
      BY DEF TypeOK
    <2>2. Append(readings[s], 0) \in Seq(0 .. Delay)
      BY <2>1, AppendProperties
    <2> QED  BY <2>1, <2>2 DEF TypeOK
  <1>3. /\ steady' \in [Sensors -> BOOLEAN]
        /\ \A x \in Sensors : steady'[x] => steady[x]
    <2>1. (steady[s] /\ Linked(s)) \in BOOLEAN
      BY DEF Linked
    <2>2. steady \in [Sensors -> BOOLEAN] /\ steady' = [steady EXCEPT ![s] = steady[s] /\ Linked(s)]
      BY DEF TypeOK
    <2> QED  BY <2>1, <2>2, Zenon
  <1>4. TypeOK'
    BY <1>1, <1>2, <1>3 DEF TypeOK
  <1>5. UpOK'
    BY <1>2 DEF UpOK, Listed
  <1>7. readings[s] \in Seq(0 .. Delay)
    BY DEF TypeOK
  <1>6. SteadyOK'
    <2> SUFFICES ASSUME NEW x \in Sensors, steady'[x]
                 PROVE  OnLine(x)' /\ (Listed(x)' => SilenceBound(x)')
      BY DEF SteadyOK
    <2>1. OnLine(x) /\ (Listed(x) => SilenceBound(x))
      BY <1>3 DEF SteadyOK
    <2>2. OnLine(x)'
      BY <2>1 DEF OnLine, Publishing, Linked
    <2>3. ASSUME Listed(x) PROVE SilenceBound(x)'
      <3>1. CASE x = s
        <4>1. /\ readings'[s] = Append(readings[s], 0) /\ silence'[s] = silence[s]
              /\ SilenceBound(s)
          BY <1>2, <2>1, <2>3, <3>1 DEF OnLine
        <4>2. /\ timer[s] <= Longest[s] /\ timer[s] \in Nat /\ Longest[s] \in Nat
              /\ silence[s] \in Int
          BY <2>3, <3>1, Intervals DEF TypeOK, Listed, Silences
        <4>3. /\ readings'[s] # << >>
              /\ readings[s] = << >> => readings'[s][1] = 0
              /\ readings[s] # << >> => readings'[s][1] = readings[s][1]
          <5> HIDE DEF IInv, Publish
          <5>1. /\ Append(readings[s], 0) # << >>
                /\ readings[s] = << >> => Append(readings[s], 0)[1] = 0
                /\ readings[s] # << >> => Append(readings[s], 0)[1] = readings[s][1]
            BY <1>7, FirstOfAppend, Zenon
          <5> QED  BY <4>1, <5>1, Zenon
        <4> HIDE DEF IInv, Publish
        <4>4. CASE readings[s] = << >>
          BY <3>1, <4>1, <4>2, <4>3, <4>4 DEF SilenceBound
        <4>5. CASE readings[s] # << >>
          BY <3>1, <4>1, <4>3, <4>5 DEF SilenceBound
        <4> QED  BY <4>4, <4>5
      <3>2. CASE x # s
        BY <1>1, <1>2, <2>1, <2>3, <3>2 DEF SilenceBound
      <3> QED  BY <3>1, <3>2
    <2> QED  BY <2>2, <2>3 DEF Listed
  <1> QED  BY <1>4, <1>5, <1>6

\* A sensor that loses the broker is steady no more.
LEMMA DisconnectInv ==
    ASSUME IInv, NEW s \in Sensors, Disconnect(s)
    PROVE  IInv'
  <1> USE Constants DEF IInv, Disconnect
  <1>1. steady' \in [Sensors -> BOOLEAN] /\ ~steady'[s]
        /\ \A x \in Sensors \ {s} : steady'[x] = steady[x]
    BY Zenon DEF TypeOK
  <1>2. link' \in [Sensors -> Links]
        /\ \A x \in Sensors \ {s} : link'[x] = link[x]
    BY DEF TypeOK, Links
  <1>3. TypeOK'
    BY <1>1, <1>2 DEF TypeOK
  <1>4. (\E e \in Devices : infos'[e] > 0) => gatewayUp
    BY DEF UpOK
  <1>5. \A x \in Sensors : steady'[x] => steady[x] /\ OnLine(x)' /\ timer'[x] >= timer[x]
    BY <1>1, <1>2 DEF SteadyOK, OnLine, Publishing, Linked, TypeOK
  <1> QED  BY <1>3, <1>4, <1>5, QuietInv

\* A sensor without a connection is not steady.
LEMMA ReconnectInv ==
    ASSUME IInv, NEW s \in Sensors, Reconnect(s)
    PROVE  IInv'
  <1> USE Constants DEF IInv, Reconnect
  <1>1. link' \in [Sensors -> Links]
        /\ \A x \in Sensors \ {s} : link'[x] = link[x]
        /\ ~steady[s]
    BY DEF TypeOK, Links, SteadyOK, OnLine, Linked
  <1>2. TypeOK'
    BY <1>1 DEF TypeOK
  <1>3. (\E e \in Devices : infos'[e] > 0) => gatewayUp
    BY DEF UpOK
  <1>4. \A x \in Sensors : steady'[x] => steady[x] /\ OnLine(x)' /\ timer'[x] >= timer[x]
    BY <1>1 DEF SteadyOK, OnLine, Publishing, Linked, TypeOK
  <1> QED  BY <1>2, <1>3, <1>4, QuietInv

\* What Tick does to a silence, a timer and a reading.
LEMMA TickEffect ==
    ASSUME TypeOK, Tick
    PROVE  /\ \A d \in Devices : silence'[d] \in Silences /\ (silence'[d] = None <=> silence[d] = None)
           /\ \A d \in Devices : silence[d] # None => silence'[d] <= silence[d] + 1
           /\ \A d \in Devices : timer'[d] \in Nat /\ timer'[d] <= Longest[d]
           /\ \A d \in Devices : timer[d] < Longest[d] => timer'[d] = timer[d] + 1
           /\ \A s \in Sensors : readings'[s] \in Seq(0 .. Delay)
           /\ \A s \in Sensors : readings'[s] = << >> <=> readings[s] = << >>
           /\ \A s \in Sensors : readings[s] # << >> => readings'[s][1] = readings[s][1] + 1
  <1> USE Constants DEF Tick
  <1>1. ASSUME NEW d \in Devices
        PROVE  /\ silence'[d] \in Silences /\ (silence'[d] = None <=> silence[d] = None)
               /\ silence[d] # None => silence'[d] <= silence[d] + 1
    <2>1. silence[d] \in Silences /\ silence'[d] = Older(silence[d])
      BY DEF TypeOK
    <2> QED  BY <2>1 DEF Silences, Older
  <1>2. ASSUME NEW d \in Devices
        PROVE  /\ timer'[d] \in Nat /\ timer'[d] <= Longest[d]
               /\ timer[d] < Longest[d] => timer'[d] = timer[d] + 1
    <2>1. /\ timer[d] \in Nat /\ timer[d] <= Longest[d]
          /\ timer'[d] = IF timer[d] < Longest[d] THEN timer[d] + 1 ELSE timer[d]
      BY DEF TypeOK
    <2> QED  BY <2>1, Intervals
  <1>3. ASSUME NEW s \in Sensors
        PROVE  /\ readings'[s] \in Seq(0 .. Delay)
               /\ readings'[s] = << >> <=> readings[s] = << >>
               /\ readings[s] # << >> => readings'[s][1] = readings[s][1] + 1
    <2>1. /\ readings[s] \in Seq(0 .. Delay)
          /\ \A i \in DOMAIN readings[s] : readings[s][i] < Delay
          /\ readings'[s] = [i \in DOMAIN readings[s] |-> readings[s][i] + 1]
      BY DEF TypeOK
    <2>2. /\ Len(readings[s]) \in Nat /\ DOMAIN readings[s] = 1 .. Len(readings[s])
          /\ readings[s] = [i \in 1 .. Len(readings[s]) |-> readings[s][i]]
          /\ \A i \in 1 .. Len(readings[s]) : readings[s][i] \in 0 .. Delay
          /\ readings[s] = << >> <=> Len(readings[s]) = 0
      BY <2>1
    <2>3. \A i \in 1 .. Len(readings[s]) : readings[s][i] + 1 \in 0 .. Delay
      BY <2>1, <2>2
    <2>4. readings'[s] \in [1 .. Len(readings[s]) -> 0 .. Delay]
      BY <2>1, <2>2, <2>3
    <2> HIDE DEF Tick
    <2>5. readings'[s] \in Seq(0 .. Delay) /\ Len(readings'[s]) = Len(readings[s])
      BY <2>2, <2>4, Sequence, Zenon
    <2>6. readings'[s] = << >> <=> readings[s] = << >>
      BY <2>2, <2>5, EmptySeq
    <2>7. ASSUME readings[s] # << >> PROVE readings'[s][1] = readings[s][1] + 1
      <3>1. 1 \in DOMAIN readings[s]
        BY <2>2, <2>7
      <3> QED  BY <2>1, <3>1
    <2> QED  BY <2>5, <2>6, <2>7
  <1> QED  BY <1>1, <1>2, <1>3

\* When time passes, silence grows no faster than what bounds it.
LEMMA TickInv ==
    ASSUME IInv, Tick
    PROVE  IInv'
  <1> USE Constants DEF IInv
  <1>1. TypeOK'
    <2>1. /\ silence' \in [Devices -> Silences] /\ timer' \in [Devices -> Nat]
          /\ readings' \in [Sensors -> Seq(0 .. Delay)]
          /\ \A d \in Devices : timer'[d] <= Longest[d]
      <3>1. /\ silence' = [d \in Devices |-> silence'[d]]
            /\ timer' = [d \in Devices |-> timer'[d]]
            /\ readings' = [s \in Sensors |-> readings'[s]]
        BY DEF Tick
      <3> QED  BY <3>1, TickEffect
    <2> QED  BY <2>1 DEF TypeOK, Tick
  <1>2. UpOK'
    BY TickEffect DEF UpOK, Listed, Tick
  <1>3. SteadyOK'
    <2> SUFFICES ASSUME NEW s \in Sensors, steady'[s]
                 PROVE  OnLine(s)' /\ (Listed(s)' => SilenceBound(s)')
      BY DEF SteadyOK
    <2>1. OnLine(s) /\ (Listed(s) => SilenceBound(s)) /\ OnLine(s)'
      BY DEF SteadyOK, OnLine, Publishing, Linked, Tick
    <2>2. timer[s] < Longest[s]
      <3>1. timer[s] \in Nat /\ ~(timer[s] >= interval[s])
        BY <2>1 DEF Tick, Due, OnLine, TypeOK
      <3> QED  BY <3>1, IntervalsNow
    <2>3. ASSUME Listed(s)' PROVE SilenceBound(s)'
      <3>1. silence[s] \in Int /\ silence'[s] \in Int /\ silence'[s] <= silence[s] + 1
        BY <2>3, TickEffect DEF Listed, TypeOK, Silences
      <3>2. SilenceBound(s)
        BY <2>1, <3>1 DEF Listed
      <3>3. CASE readings[s] = << >>
        <4>1. readings'[s] = << >> /\ timer'[s] = timer[s] + 1 /\ timer[s] \in Nat
          BY <2>2, <3>3, TickEffect DEF TypeOK
        <4> QED  BY <3>1, <3>2, <3>3, <4>1 DEF SilenceBound
      <3>4. CASE readings[s] # << >>
        <4>1. /\ readings'[s][1] = readings[s][1] + 1 /\ readings[s][1] \in Nat
              /\ readings'[s] # << >> /\ Longest[s] \in Nat
          BY <3>4, TickEffect, Intervals, FirstReading DEF TypeOK
        <4> QED  BY <3>1, <3>2, <3>4, <4>1 DEF SilenceBound
      <3> QED  BY <3>3, <3>4
    <2> QED  BY <2>1, <2>3
  <1> QED  BY <1>1, <1>2, <1>3

-----------------------------------------------------------------------------
(* Theorems                                                                *)

\* Every step preserves the invariant.
LEMMA NextInv ==
    ASSUME IInv, [Next]_vars
    PROVE  IInv'
  <1>1. ASSUME NEW d \in Devices, HandleDeviceInfo(d) \/ PowerOn(d) \/ PowerOff(d)
        PROVE  IInv'
    BY <1>1, HandleDeviceInfoInv, PowerOnInv, PowerOffInv
  <1>2. ASSUME NEW s \in Sensors,
               \/ HandleReading(s) \/ LoseReadings(s) \/ Publish(s)
               \/ Disconnect(s) \/ Reconnect(s) \/ DiscoverSensor(s)
        PROVE  IInv'
    BY <1>2, HandleReadingInv, LoseReadingsInv, PublishInv,
       DisconnectInv, ReconnectInv, DiscoverSensorInv
  <1>3. ASSUME NEW a \in Actuators, NEW sent \in BOOLEAN,
               CommandActuator(a, sent) \/ DiscoverActuator(a, sent) \/ Renew(a, sent)
        PROVE  IInv'
    BY <1>3, CommandActuatorInv, DiscoverActuatorInv, RenewInv
  <1>4. CASE UNCHANGED vars
    <2>1. TypeOK'
      BY <1>4 DEF vars, IInv, TypeOK
    <2>2. UpOK'
      BY <1>4 DEF vars, IInv, UpOK, Listed
    <2>3. SteadyOK'
      BY <1>4 DEF vars, IInv, SteadyOK, OnLine, Publishing, Linked, Listed, SilenceBound
    <2> QED  BY <2>1, <2>2, <2>3 DEF IInv
  <1>5. ASSUME NEW s \in Sensors, NEW answered \in BOOLEAN,
               \/ \E st \in {"ACTIVE", "IDLE"} : CommandSensor(s, st, answered)
               \/ \E i \in 1 .. Longest[s] : SetFrequency(s, i, answered)
        PROVE  IInv'
    BY <1>5, CommandSensorInv, SetFrequencyInv
  <1> QED
    BY <1>1, <1>2, <1>3, <1>4, <1>5, GatewayStartInv, GatewayStopInv, SweepOfflineInv, TickInv,
       RegisterInv
    DEF Next

\* The invariant holds in every reachable state.
THEOREM Invariance == Spec => []IInv
  BY InitInv, NextInv, PTL DEF Spec

\* Every variable of the registry and of the devices keeps its type.
THEOREM TypeCorrect == Spec => []TypeOK
  <1>1. IInv => TypeOK
    BY DEF IInv
  <1> QED  BY <1>1, Invariance, PTL

\* A steady sensor has never been silent for longer than its longest interval and
\* a delay.
LEMMA SteadySilence ==
    ASSUME IInv, NEW s \in Sensors, steady[s], Listed(s)
    PROVE  silence[s] \in Int /\ silence[s] <= Longest[s] + Delay
  <1> USE Constants DEF IInv
  <1>1. silence[s] \in Int /\ timer[s] \in Nat /\ timer[s] <= Longest[s]
    BY DEF TypeOK, Silences, Listed
  <1>2. readings[s] # << >> => readings[s][1] \in Nat /\ readings[s][1] <= Delay
    BY FirstReading DEF TypeOK
  <1>3. SilenceBound(s)
    BY DEF SteadyOK
  <1> QED  BY <1>1, <1>2, <1>3, Intervals DEF SilenceBound

\* Nothing but the clean-up and the gateway's end takes a device off the list.
LEMMA OnlySweepRemoves ==
    ASSUME IInv, [Next]_vars, NEW s \in Sensors, Removed(s)
    PROVE  SweepOffline
  <1> USE Constants DEF IInv
  <1>1. silence \in [Devices -> Silences] /\ s \in Devices
    BY DEF TypeOK
  <1>2. ASSUME NEW d \in Devices, Seen(d) PROVE FALSE
    BY <1>1, <1>2 DEF Seen, Removed, Listed
  <1>3. ASSUME silence' = silence PROVE FALSE
    BY <1>3 DEF Removed, Listed
  <1>4. ~GatewayStop
    BY DEF GatewayStop, Removed
  <1>5. ASSUME Tick PROVE FALSE
    BY <1>5, TickEffect DEF Removed, Listed
  <1>6. ASSUME NEW d \in Devices, HandleDeviceInfo(d) \/ PowerOn(d) \/ PowerOff(d)
        PROVE  FALSE
    BY <1>2, <1>3, <1>6 DEF HandleDeviceInfo, PowerOn, PowerOff
  <1>7. ASSUME NEW x \in Sensors,
               \/ HandleReading(x) \/ LoseReadings(x) \/ Publish(x)
               \/ Disconnect(x) \/ Reconnect(x) \/ DiscoverSensor(x)
        PROVE  FALSE
    BY <1>2, <1>3, <1>7
       DEF HandleReading, LoseReadings, Publish, Disconnect, Reconnect, DiscoverSensor
  <1>8. ASSUME NEW x \in Sensors, NEW answered \in BOOLEAN,
               \/ \E st \in {"ACTIVE", "IDLE"} : CommandSensor(x, st, answered)
               \/ \E i \in 1 .. Longest[x] : SetFrequency(x, i, answered)
        PROVE  FALSE
    BY <1>2, <1>3, <1>8 DEF CommandSensor, SetFrequency, Commanded
  <1>9. ASSUME NEW x \in Sensors, NEW sent \in BOOLEAN,
               NEW l \in Links, Register(x, sent, l)
        PROVE  FALSE
    BY <1>3, <1>9 DEF Register
  <1>10. ASSUME NEW a \in Actuators, NEW sent \in BOOLEAN,
                CommandActuator(a, sent) \/ DiscoverActuator(a, sent) \/ Renew(a, sent)
         PROVE  FALSE
    BY <1>2, <1>3, <1>10 DEF CommandActuator, DiscoverActuator, Renew
  <1>11. ASSUME GatewayStart PROVE FALSE
    BY <1>3, <1>11 DEF GatewayStart
  <1>12. CASE UNCHANGED vars
    BY <1>3, <1>12 DEF vars
  <1> QED
    BY <1>4, <1>5, <1>6, <1>7, <1>8, <1>9, <1>10, <1>11, <1>12 DEF Next

\* The clean-up removes no sensor that is steady, whatever the number of devices,
\* if the longest intervals and the delay of the readings stay within OfflineAfter: the
\* gateway (main, lines 627-637) then never drops a working sensor by itself.
THEOREM SteadySensorsAreKept ==
    ASSUME \A s \in Sensors : Longest[s] + Delay <= OfflineAfter
    PROVE  Spec => SteadySensorsKept
  <1>1. ASSUME IInv, [Next]_vars, NEW s \in Sensors, Removed(s)
        PROVE  ~steady[s]
    <2> SUFFICES ASSUME steady[s] PROVE FALSE
      OBVIOUS
    <2>1. SweepOffline /\ Listed(s) /\ silence'[s] = None
      BY <1>1, OnlySweepRemoves DEF Removed
    <2>2. silence[s] > OfflineAfter
      BY <2>1, Constants DEF SweepOffline, Listed
    <2>3. silence[s] \in Int /\ silence[s] <= Longest[s] + Delay
      BY <1>1, <2>1, SteadySilence
    <2> QED  BY <2>2, <2>3, Intervals, Constants
  <1>2. IInv /\ [Next]_vars => [\A s \in Sensors : Removed(s) => ~steady[s]]_vars
    BY <1>1
  <1> QED  BY <1>2, Invariance, PTL DEF Spec, SteadySensorsKept

=============================================================================
