---------------------------- MODULE MCLineMotion ----------------------------
(***************************************************************************)
(* Instances of LineMotion: two axes, lines led by either axis in either   *)
(* sense, whose slave goes an uneven share of the master's way.            *)
(***************************************************************************)
EXTENDS LineMotion, TLC

Point(x, y) == (0 :> x) @@ (1 :> y)

AllAxes == {0, 1}
None == {}

\* Out and back led by axis 0, a queued line led by axis 1, and a positioning.
OutAndBack == {Point(5, 3), Point(0, 0)}
OneSegment == {Point(-1, 3)}
OneMove == {<<0, 2>>}

\* A line led by axis 0 in its negative sense; slaves that go the whole
\* way, backwards and forwards.
NegativeLine == {Point(-5, -3)}
FallingLine == {Point(5, -5)}
Diagonal == {Point(5, 5)}

\* One count, in the way of a line at the feed of one count per cycle.
ShortSegment == {Point(1, 0)}

\* Away from the origin, and from there a line whose master starts at a
\* negative position.
NegativeSide == {Point(-5, 0), Point(0, 5)}
=============================================================================
