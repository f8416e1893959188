--------------------------- MODULE MCHomingMotion ---------------------------
(***************************************************************************)
(* Instances of HomingMotion: two axes that go home from a line's end, in  *)
(* one phase or two, together or singly, and what interferes.              *)
(***************************************************************************)
EXTENDS HomingMotion, TLC

Point(x, y) == (0 :> x) @@ (1 :> y)

AllAxes == {0, 1}
OnlyX == {0}
None == {}

\* Far enough for two phases on both axes, in different senses.
Away == {Point(5, -5)}
OneMove == {<<0, 2>>}

OneOrBoth == {{0}, {0, 1}}
=============================================================================
