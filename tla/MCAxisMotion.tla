---------------------------- MODULE MCAxisMotion ----------------------------
(***************************************************************************)
(* Instances of AxisMotion: one axis that receives every command and whose *)
(* drive faults, and two axes that home, jog and stop beside each other.   *)
(***************************************************************************)
EXTENDS AxisMotion, TLC

CONSTANTS x, y

OneAxis == {x}
OneAccepts == x :> Commands

TwoAxes == {x, y}
TwoAccept == (x :> {"zero", "jog"}) @@ (y :> {"zero", "stop"})

None == {}
=============================================================================
