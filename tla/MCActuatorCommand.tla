--------------------------- MODULE MCActuatorCommand ---------------------------
(* Instances of ActuatorCommand for TLC.                                   *)
EXTENDS ActuatorCommand

CONSTANTS relay1, c1, c2

=============================================================================
