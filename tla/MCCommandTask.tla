--------------------------- MODULE MCCommandTask ----------------------------
(* Instances of CommandTask for TLC. *)
EXTENDS CommandTask

AllHosts == Host

\* The second line is longer than the buffer of the instance.
Lengths == <<1, 4, 2>>
=============================================================================
