---------------------------- MODULE MCDeviceRegistry ----------------------------
(* Instances of DeviceRegistry for TLC.  A unit of time is five seconds:     *)
(* OfflineAfter = 3 is the 15 seconds of the code, a relay renews every unit. *)
EXTENDS DeviceRegistry

CONSTANTS java, esp, relay

\* A reading every 10 seconds: with a delay of 5, the longest that is safe.
TenSeconds == [d \in Devices |-> IF d \in Sensors THEN 2 ELSE 1]
\* A reading every 5 seconds, as the sensors are started.
FiveSeconds == [d \in Devices |-> 1]

=============================================================================
