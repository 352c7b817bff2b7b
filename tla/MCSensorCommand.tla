---------------------------- MODULE MCSensorCommand ----------------------------
(* Instances of SensorCommand for TLC.                                     *)
EXTENDS SensorCommand, TLC

CONSTANTS java, esp, c1, c2

\* One unit of time is five seconds: Timeout = 2 and ResponseTTL = 3 are the
\* 10 and the 15 seconds of the code.
\* The sensors' clocks agree with the gateway's.
Synchronised == [s \in Sensors |-> 0]
\* The sensors' clocks are one unit slow, the most that ResponseTTL allows for.
SlowClock == [s \in Sensors |-> ResponseTTL - Timeout]
\* The board stamps its responses with millis(), the time since it was
\* started: to the gateway they are decades old.
BoardStampsUptime == [s \in Sensors |-> IF s = esp THEN 1000 ELSE 0]

CallSymmetry == Permutations(Calls)

=============================================================================
