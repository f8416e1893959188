----------------------------- MODULE MCArcMotion -----------------------------
(***************************************************************************)
(* Instances of ArcMotion: X and Y, half a circle and a quarter back, a     *)
(* queued line, and what interferes with them.                             *)
(***************************************************************************)
EXTENDS ArcMotion, TLC

Point(x, y) == (0 :> x) @@ (1 :> y)

AllAxes == {0, 1}
None == {}

\* The sequence of values as a function of the counts from 0.
Along(values) == [s \in 0..(Len(values) - 1) |-> values[s + 1]]

\* Half a circle of radius 2 around (2, 0), and a quarter of it back, which
\* starts where the first is in its middle.
Half ==
  [from |-> Point(0, 0), to |-> Point(4, 0), length |-> 6,
   at |-> Point(Along(<<0, 1, 1, 2, 3, 3, 4, 3>>), Along(<<0, 1, 1, 2, 1, 1, 0, 0>>))]

Back ==
  [from |-> Point(2, 2), to |-> Point(0, 0), length |-> 3,
   at |-> Point(Along(<<2, 1, 1, 0, 1>>), Along(<<2, 1, 1, 0, -1>>))]

OutAndBack == {Half, Back}
OneArc == {Half}

OnlyX == {0}

Home == {Point(0, 0)}
OneSegment == {Point(2, -1)}
OneMove == {<<0, -2>>}
=============================================================================
