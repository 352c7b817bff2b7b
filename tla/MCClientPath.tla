----------------------------- MODULE MCClientPath -----------------------------
(* A lamp and a sensor, two calls, and one thread for both.                *)
EXTENDS ClientPath

CONSTANTS c1, c2, lamp, sensor

\* (Everything is the same with on and off exchanged.)
AllOff == [d \in {lamp, sensor} |-> "off"]

=============================================================================
