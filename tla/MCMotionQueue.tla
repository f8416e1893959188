---------------------------- MODULE MCMotionQueue ----------------------------
(***************************************************************************)
(* A ring of three slots and three segments: every head position is        *)
(* reached with an empty, a part filled, a wrapped and a full ring.        *)
(***************************************************************************)
EXTENDS MotionQueue

CONSTANTS s1, s2, s3, none

ThreeSegments == {s1, s2, s3}
=============================================================================
