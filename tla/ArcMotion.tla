------------------------------- MODULE ArcMotion -------------------------------
(***************************************************************************)
(* Arcs of X and Y (Interp_ArcXY, Arc_ProcessStep and Arc_Abort of         *)
(* User/Src/motion_api.c) over the axes and the queue of LineMotion.       *)
(*                                                                         *)
(* g_arc writes the targets of axes 0 and 1 at the beginning of each pass, *)
(* before the axes are controlled, whatever has become of them: lines,     *)
(* positionings, stops and drive faults do not end it.  It also leaves a   *)
(* direction on its axes, as a jog does, and an axis with a direction jogs *)
(* on when a planner of its own ends.                                      *)
(***************************************************************************)
EXTENDS LineMotion

CONSTANTS Arcs,       \* where X and Y start, pass and end
          Landing,    \* how far the end may lie off the circle
          Edge        \* bound: positions of a jogging axis beyond are one

VARIABLES g_arc,      \* NoArc before the first
          direction   \* axis[ax].direction

arcVars == <<vars, g_arc, direction>>

XY == {0, 1}

\* An arc: from is the encoder at its start, at[a][s] the coordinate s counts
\* along the circle, rounded towards its centre, and to the end.
ASSUME ArcAssumption ==
  /\ XY \subseteq Axes /\ Landing \in Nat
  /\ Edge \in Nat /\ Edge > Reach + StopDist + Speed
  /\ \A arc \in Arcs :
       /\ arc.length \in Nat \ {0}
       /\ {arc.from, arc.to} \subseteq [XY -> -Reach..Reach]
       /\ arc.at \in [XY -> [0..(arc.length + Speed) -> -Reach..Reach]]
       /\ \A a \in XY :
            /\ Abs(arc.at[a][0] - arc.from[a]) <= 1
            /\ Abs(arc.at[a][arc.length] - arc.to[a]) <= Landing
            /\ \A s \in 1..(arc.length + Speed) : Abs(arc.at[a][s] - arc.at[a][s - 1]) <= 1

NoArc == [active |-> FALSE]

\* What is left of an arc that has ended.
Ended(arc) == IF arc = NoArc THEN arc ELSE [active |-> FALSE, shape |-> arc.shape]

\* shape: cx, cy, ex, ey, radius_d, start_angle, sweep and arc_len; the rest is
\* g_arc.splanner, with the contract of LineMotion.
Active(shape, planner) ==
  [active |-> TRUE, shape |-> shape, planner |-> planner]

ArcInit == Init /\ g_arc = NoArc /\ direction = [a \in Axes |-> 0]

-----------------------------------------------------------------------------
\* Interp_ArcXY: the axes it takes keep their planners and directions.
Interp_ArcXY(s, arc) ==
  [a \in Axes |-> IF a \in XY
                  THEN [s[a] EXCEPT !.mode = "ARC", !.motion_busy = TRUE,
                                    !.velocity = IF s[a].mode = "ARC" THEN 0 ELSE @,
                                    !.asked = "arc"]
                  ELSE s[a]]

\* SCurve_Plan of the way along the arc.
ArcPlanned(arc) ==
  [running |-> TRUE, pos |-> 0, goal |-> arc.length, dir |-> 1, vel |-> 0]

\* Arc_Abort.
Arc_Abort(s) ==
  [a \in Axes |-> IF s[a].mode = "ARC"
                  THEN [s[a] EXCEPT !.mode = "HOLD", !.velocity = 0, !.motion_busy = FALSE]
                  ELSE s[a]]

\* The coordinate of the arc when its planner is p.
Coordinate(p, a) == g_arc.shape.at[a][p.pos]

\* The way a coordinate goes in the step to p: vx and vy.
Tangent(p, a) == Coordinate(p, a) - Coordinate(g_arc.planner, a)

\* Mutant of ArcDone: the arc also waits for X.
ArcDoneWithX(p) == ~p.running /\ axis[0].mode = "ARC"

\* The arc ends with its planner.
ArcDone(p) == ~p.running

\* Mutant of EndsOn: the end of the arc is set for X only.
EndsOnX(p, a) == ArcDone(p) /\ a = 0

\* Whether the step to p ends the arc on axis a.
EndsOn(p, a) == ArcDone(p)

\* Arc_ProcessStep with the planner stepped to p: X and Y are put on the
\* circle, or ended, in whatever mode they are; the other axes are held.
ArcStepped(p) ==
  [a \in Axes |->
     IF a \notin XY THEN [axis[a] EXCEPT !.target_pos = axis[a].actual_pos]
     ELSE IF EndsOn(p, a)
     THEN [axis[a] EXCEPT !.target_pos = g_arc.shape.to[a], !.velocity = 0,
                          !.motion_busy = FALSE, !.mode = "HOLD"]
     ELSE [axis[a] EXCEPT !.target_pos = Coordinate(p, a),
                          !.velocity = Abs(Tangent(p, a))]]

ArcDirection(p) ==
  [a \in Axes |-> IF a \notin XY THEN direction[a]
                  ELSE IF Tangent(p, a) >= 0 THEN 1 ELSE -1]

\* Stands for a goal out of reach, as a jog has it.
FarGoal(d) == d * (Edge + StopDist + Speed + 1)

Jogs(r) == r.running /\ r.goal \in {FarGoal(1), FarGoal(-1)}

\* Axis_ApplyVelocity of an axis whose planner has ended.
JogOn(r, d) ==
  [Planned(r, FarGoal(d)) EXCEPT !.mode = "POS", !.motion_busy = TRUE]

\* The bound: a jogging axis that passes the edge is left there.
AtEdge(r) ==
  IF Jogs(r) /\ Abs(r.pos) > Edge
  THEN [r EXCEPT !.pos = Edge * r.dir, !.target_pos = Edge * r.dir] ELSE r

\* Axis_ControlCycle of an axis with direction d that is no slave.
ControlledOn(r, d) ==
  CASE r.mode = "ARC" -> {r}
    [] r.mode = "VEL" /\ d # 0 ->
         {[r EXCEPT !.velocity = v, !.target_pos = @ + v * d] : v \in 0..Speed}
    [] r.mode = "POS" /\ d # 0 ->
         {IF r.running /\ ~q.running THEN JogOn(q, d) ELSE AtEdge(q) :
            q \in Controlled(r)}
    [] OTHER -> Controlled(r)

-----------------------------------------------------------------------------
\* Mutant of QueueGate: Motion_ProcessQueue without the look at g_arc.
QueueGateOpen(arc) == TRUE

\* Motion_ProcessQueue leaves the queue alone while an arc is active.
QueueGate(arc) == ~arc.active

\* Axis_ControlCycle of the axis a of s, the slaves to follow.
ArcAfter(s, faults, turn, a) ==
  LET r == Read(s[a], a \in faults)
  IN  IF s[a].mode = "DDA" THEN {r}
      ELSE ControlledOn(r, IF a \in faults THEN 0 ELSE turn[a])

\* The rest of a pass, when the arc has left the axes at s: the axes, the
\* slaves, the queue.
Control(s, turn) ==
  \E faults \in SUBSET Faulty :
    /\ Faults(faults)
    /\ direction' = [a \in Axes |-> IF a \in faults THEN 0 ELSE turn[a]]
    /\ \E ran \in Outcomes(LAMBDA a : ArcAfter(s, faults, turn, a)) :
         IF QueueGate(g_arc') THEN ProcessQueue(Follow(s, ran))
         ELSE axis' = Follow(s, ran) /\ UNCHANGED <<qvars, looping>>

\* One pass of vEtherCAT_Task.
ArcPass ==
  \/ ~g_arc.active /\ UNCHANGED g_arc /\ Control(axis, direction)
  \/ /\ g_arc.active
     /\ \E p \in Stepped(g_arc.planner) :
          /\ g_arc' = IF ArcDone(p) THEN Ended(g_arc) ELSE Active(g_arc.shape, p)
          /\ Control(ArcStepped(p), ArcDirection(p))

\* A stop leaves no jog that moves: it has not begun to decelerate before.
Ceases(r, q) == Moving(r) => ~Jogs(q)

\* Axis_StopOne of an axis with direction d, which is the sense of a
\* deceleration that starts without a planner.
Stopped(r, d, smooth) ==
  {IF d = -1 /\ ~Moving(r) /\ Moving(q)
   THEN [q EXCEPT !.dir = -1, !.goal = 2 * q.pos - q.goal] ELSE q :
     q \in {q \in StopOne(r, smooth) : Ceases(r, q)}}

-----------------------------------------------------------------------------
\* Mutant of StartsAt: from where the axis was to go.
StartsAtTarget(a) == axis[a].cmd_target_pos

\* The radius and the angle are taken from the encoder.
StartsAt(a) == axis[a].actual_pos

\* A trigger of the panel (2 or 3) whose geometry is accepted.
StartArc(arc) ==
  /\ Command /\ \A a \in XY : StartsAt(a) = arc.from[a]
  /\ axis' = Interp_ArcXY(axis, arc) /\ g_arc' = Active(arc, ArcPlanned(arc))
  /\ UNCHANGED <<direction, queue, paused>>

\* The commands of LineMotion that leave arc and directions as they are.
ArcLine(t) == Line(t) /\ UNCHANGED <<g_arc, direction>>

ArcLineLoops(t) == LineLoops(t) /\ UNCHANGED <<g_arc, direction>>

ArcMoveTo(a, to) == MoveTo(a, to) /\ UNCHANGED <<g_arc, direction>>

ArcStop(a, smooth) ==
  /\ Command /\ UNCHANGED <<queue, paused, g_arc>>
  /\ \E r \in Stopped(axis[a], direction[a], smooth) : axis' = [axis EXCEPT ![a] = r]
  /\ direction' = [direction EXCEPT ![a] = 0]

ArcHalt(a) ==
  /\ Halt(a) /\ Ceases(axis[a], axis'[a])
  /\ direction' = [direction EXCEPT ![a] = 0] /\ UNCHANGED g_arc

\* Motion_Abort: a flush, the end of the arc and a stop of every axis.
ArcAbort(smooth) ==
  /\ Command /\ Flush /\ Stops = Axes
  /\ LET s == IF g_arc.active THEN Arc_Abort(axis) ELSE axis
     IN  axis' \in Outcomes(LAMBDA a : Stopped(s[a], direction[a], smooth))
  /\ g_arc' = Ended(g_arc) /\ direction' = [a \in Axes |-> 0]

ArcResetDone(a) ==
  ResetDone(a) /\ direction' = [direction EXCEPT ![a] = 0] /\ UNCHANGED g_arc

ArcQueueCommand == QueueCommand /\ UNCHANGED <<g_arc, direction>>

ArcSpin == looping /\ UNCHANGED arcVars

ArcNext ==
  \/ ArcPass
  \/ \E arc \in Arcs : StartArc(arc)
  \/ \E t \in Lines : ArcLine(t) \/ ArcLineLoops(t)
  \/ \E move \in Moves : ArcMoveTo(move[1], move[2])
  \/ \E a \in Stops, smooth \in Smooth : ArcStop(a, smooth)
  \/ \E a \in Halts : ArcHalt(a)
  \/ \E smooth \in Smooth : ArcAbort(smooth)
  \/ \E a \in Axes : ArcResetDone(a)
  \/ ArcQueueCommand
  \/ ArcSpin

ArcSpec == ArcInit /\ [][ArcNext]_arcVars
-----------------------------------------------------------------------------
\* No axis is left behind by an arc, or taken away from it, whatever else
\* commands, stops and faults do to it: in ARC mode, which no planner moves and
\* only an arc ends, are those that were last told to follow the arc that is
\* active, and both of them (motion_api.c:531, 595, 611).
ArcMode ==
  \A a \in XY : axis[a].mode = "ARC" <=> g_arc.active /\ axis[a].asked = "arc"

\* An arc moves its axes by no more than the drive accepts (0x6320,
\* motion_profile.c:509) also when it replaces a motion, another arc
\* or what a fault has left, and when it ends beside the circle (586).
ArcDoesNotJump ==
  [][\A a \in XY : /\ axis[a].asked = "arc" /\ axis'[a].asked = "arc" /\ Close(a)
                   => Abs(axis'[a].sent - axis[a].sent) <= 2 * Speed + 1 + Landing]_arcVars

\* A queued line starts where the arc before it ended, not where the arc is
\* (motion_api.c:717): not further from it than the drive's lag, a last cycle and
\* what the end may lie beside the circle.
QueueWaitsForArc ==
  [][/\ \A a \in XY : axis[a].asked = "arc" /\ Close(a)
     /\ queue # <<>> /\ queue' = Tail(queue)
     /\ \A a \in Axes : axis'[a].asked = "line" /\ ~axis'[a].fault
     => \A a \in XY : Abs(axis'[a].actual_pos - g_arc.shape.to[a])
                        <= 2 * Speed + 1 + Landing]_arcVars

\* An arc that is active runs, also when an axis has left it: a planner that
\* runs ends (Finishes of module SCurve), and with it the arc, the ARC mode of
\* its axes and the waiting of the queue.
ArcAdvances == g_arc.active => g_arc.planner.running

\* "A jog whose way is at its end is continued" (motion_api.c:1534): a jog,
\* and there is none here.
OnlyJogsGoOn ==
  ~g_arc.active => \A a \in Axes : axis[a].mode = "POS" => ~Jogs(axis[a])

\* "Stop of a single axis: decelerate to zero" (motion_api.c:872): the axis
\* then stays where it is.
StopEndsArc ==
  [][\A a \in Axes : axis[a].asked \in {"stop", "slowed"} /\ axis'[a].asked = axis[a].asked
                     => ~Jumps(a)]_arcVars
=============================================================================
