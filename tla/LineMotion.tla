------------------------------ MODULE LineMotion ------------------------------
(***************************************************************************)
(* Straight lines of several axes (Interp_Line of User/Src/motion_api.c):  *)
(* the axis with the longest way is the master and runs an S-curve, the    *)
(* others are slaves that follow it in proportion (AXIS_MODE_DDA).  Lines  *)
(* are commanded at any moment or dispatched from the motion queue at the  *)
(* end of a pass of the EtherCAT task; single axis commands and drive      *)
(* faults interfere.                                                       *)
(*                                                                         *)
(* The planner is the contract that module SCurve establishes: it advances *)
(* by at most Speed a cycle, passes its goal by at most Speed, ends within *)
(* Speed of it, and a stop makes it end further on.  The drive is external *)
(* and reaches a commanded position by the next cycle.  No axis jogs here, *)
(* so axis[ax].direction is 0 throughout.                                  *)
(***************************************************************************)
EXTENDS Integers, FiniteSetsExt, SegmentQueue

CONSTANTS NUM_AXES,
          Lines,      \* the targets of the lines commanded directly
          Moves,      \* <<axis, position>> of single axis positionings
          Stops,      \* the axes that are stopped singly
          Halts,      \* the axes that get a speed of 0
          Faulty,     \* the axes whose drive may fault
          Smooth,     \* the values of PARAM_SMOOTH_STOP_EN
          Speed,      \* counts per cycle of the fastest motion
          Window,     \* pos_step, within which an arriving axis is aligned
          StopDist,   \* the longest way of a stop
          Reach,      \* targets are within -Reach..Reach
          CrawlWay,   \* Interp_Line may hang on a line shorter than this
          MaxEvents   \* bound: commands and faults in a behaviour

VARIABLES axis,
          events,     \* no state of the code: the commands and faults so far
          looping     \* Interp_Line was called and does not return

vars == <<axis, queue, paused, events, looping>>

Axes == 0..(NUM_AXES - 1)

ASSUME LineAssumption ==
  /\ NUM_AXES \in Nat \ {0} /\ Speed \in Nat \ {0} /\ Window \in Nat
  /\ StopDist \in Nat /\ Reach \in Nat /\ MaxEvents \in Nat /\ Capacity \in Nat
  /\ CrawlWay \in Nat
  /\ Lines \cup Segments \subseteq [Axes -> -Reach..Reach]
  /\ Moves \subseteq Axes \X (-Reach..Reach)
  /\ Stops \cup Halts \cup Faulty \subseteq Axes /\ Smooth \subseteq BOOLEAN

Abs(n) == IF n < 0 THEN -n ELSE n

AtLeast(n, lo) == IF n < lo THEN lo ELSE n

\* sent is the target position of the last process data; running, pos, goal,
\* dir and vel are what matters of axis[ax].splanner; fault is the fault bit of
\* status_word.  asked is no state of
\* the code: what the axis was last told ("slowed": a master
\* stopped on its line), or "fault" since its drive faulted.
AxisState ==
  [mode : {"HOLD", "VEL", "POS", "DDA"}, motion_busy : BOOLEAN,
   actual_pos : Int, target_pos : Int, cmd_target_pos : Int, sent : Int,
   velocity : 0..Speed, fault : BOOLEAN,
   running : BOOLEAN, pos : Int, goal : Int, dir : {-1, 1}, vel : 0..Speed,
   dda_master : Axes \cup {-1}, dda_start : Int, dda_delta : Int,
   dda_master_start : Int, dda_master_delta : Nat,
   asked : {"none", "line", "slowed", "stop", "move", "fault"}]

\* Axis_Init and the enabling at start-up, with every axis at its origin.
Idle ==
  [mode |-> "HOLD", motion_busy |-> FALSE,
   actual_pos |-> 0, target_pos |-> 0, cmd_target_pos |-> 0, sent |-> 0,
   velocity |-> 0, fault |-> FALSE,
   running |-> FALSE, pos |-> 0, goal |-> 0, dir |-> 1, vel |-> 0,
   dda_master |-> -1, dda_start |-> 0, dda_delta |-> 0,
   dda_master_start |-> 0, dda_master_delta |-> 0, asked |-> "none"]

Init == axis = [a \in Axes |-> Idle] /\ QueueInit /\ events = 0 /\ looping = FALSE

-----------------------------------------------------------------------------
\* SCurve_Plan from the encoder position.
Planned(r, to) ==
  [r EXCEPT !.running = to # r.actual_pos, !.pos = r.actual_pos, !.goal = to,
            !.dir = IF to < r.actual_pos THEN -1 ELSE 1, !.vel = 0]

\* Mutant of Leader: the first axis that has any way to go.
LeaderFirst(delta) == Min({a \in Axes : delta[a] # 0})

\* The first axis with the longest way.
Leader(delta) == Min({a \in Axes : \A b \in Axes : Abs(delta[b]) <= Abs(delta[a])})

\* Mutant of MasterStart: recorded before SCurve_Plan.
MasterStartStale(r) == r.pos

\* splanner.start_pos of the master r, once planned.
MasterStart(r) == r.actual_pos

\* The axes s after Interp_Line to the targets t, from wherever they are.
Interp_Line(s, t) ==
  LET delta   == [a \in Axes |-> t[a] - s[a].actual_pos]
      m       == Leader(delta)
      Told(a) == [s[a] EXCEPT !.cmd_target_pos = t[a], !.motion_busy = TRUE,
                              !.asked = "line"]
  IN  IF \A a \in Axes : delta[a] = 0 THEN s
      ELSE [a \in Axes |->
              IF a = m
              THEN [Planned(Told(a), t[a]) EXCEPT !.mode = "POS", !.dda_master = -1]
              ELSE [Told(a) EXCEPT
                      !.mode = "DDA", !.target_pos = s[a].actual_pos,
                      !.dda_master = m,
                      !.dda_start = s[a].actual_pos, !.dda_delta = delta[a],
                      !.dda_master_start = MasterStart(s[m]),
                      !.dda_master_delta = Abs(delta[m])]]

\* Interp_Line lowers the feed of a line that is too short for it by a twentieth
\* at a time, and a twentieth of less than 20 counts per cycle is 0: that loop
\* does not end (Crawls of module SCurvePlan).  Feeds are not told apart here, so
\* that any short line may or may not hang; nothing has been written then.
MayLoop(s, t) ==
  LET way == [a \in Axes |-> Abs(t[a] - s[a].actual_pos)]
  IN  (\E a \in Axes : way[a] > 0) /\ \A a \in Axes : way[a] < CrawlWay

\* Axis_ApplyPosition of a linear axis.
ApplyPosition(r, to) ==
  [Planned(r, to) EXCEPT !.mode = "POS", !.cmd_target_pos = to,
                         !.motion_busy = TRUE, !.asked = "move"]

Moving(r) == r.running /\ r.vel > 0

\* A new stop ends StopDist further on at the most.
Slowed(r) == {[r EXCEPT !.goal = r.pos + r.dir * d] : d \in 0..StopDist}

\* SCurve_Stop of a moving planner: the goal stays if it already decelerates.
Braked(r) == {r} \cup Slowed(r)

\* Axis_StopOne.
StopOne(r, smooth) ==
  LET s == [r EXCEPT !.target_pos = r.actual_pos,
                     !.asked = IF @ \in {"line", "slowed"} /\ r.mode = "POS" /\ r.running
                               THEN "slowed" ELSE "stop"]
      Braking(q) == [q EXCEPT !.mode = "POS", !.motion_busy = TRUE]
  IN  IF Moving(r) THEN {Braking(q) : q \in Braked(s)}
      ELSE IF r.velocity > 0 /\ smooth
      THEN {Braking(q) : q \in Slowed([s EXCEPT !.running = TRUE, !.pos = r.actual_pos,
                                                !.vel = r.velocity, !.dir = 1])}
      ELSE IF r.mode = "POS"
      THEN {[s EXCEPT !.velocity = 0, !.motion_busy = FALSE]}
      ELSE {[s EXCEPT !.mode = "VEL", !.cmd_target_pos = r.actual_pos]}

\* Axis_ApplyVelocity with rpm = 0.
Halted(r) ==
  {[q EXCEPT !.mode = "POS", !.motion_busy = TRUE, !.asked = "stop"] :
     q \in IF Moving(r) THEN Braked(r) ELSE {r}}

-----------------------------------------------------------------------------
\* What Axis_ControlCycle does with a fault, before the mode is looked at.
Faulted(r) ==
  [r EXCEPT !.mode = "HOLD", !.cmd_target_pos = r.actual_pos,
            !.target_pos = r.actual_pos, !.velocity = 0,
            !.motion_busy = FALSE, !.asked = "fault"]

\* The planner after SCurve_Step.
Stepped(r) ==
  IF ~r.running THEN {r}
  ELSE {q \in {[r EXCEPT !.pos = @ + r.dir * v, !.vel = v] : v \in 0..Speed} :
          (r.goal - q.pos) * r.dir >= -Speed}
       \cup {[r EXCEPT !.running = FALSE, !.pos = to, !.vel = 0] :
               to \in {e \in {r.pos, r.goal} : Abs(r.goal - r.pos) <= Speed}}

\* The planner of a positioning axis has just ended: an axis close to its
\* commanded target is put there.
Arrived(r) ==
  LET at == IF Abs(r.cmd_target_pos - r.pos) <= Window THEN r.cmd_target_pos ELSE r.pos
  IN  [r EXCEPT !.velocity = 0, !.motion_busy = FALSE, !.target_pos = at, !.pos = at]

\* Axis_ControlCycle of an axis that is no slave: its outcomes.
Controlled(r) ==
  CASE r.mode = "POS" ->
         {IF r.running /\ ~q.running THEN Arrived(q)
          ELSE [q EXCEPT !.target_pos = q.pos, !.velocity = q.vel] : q \in Stepped(r)}
    [] r.mode \in {"VEL", "HOLD"} -> {[r EXCEPT !.velocity = v] : v \in {0, r.velocity}}

\* Mutant of Expected: rounded down.
ExpectedFloor(r, m) ==
  (AtLeast(m.pos - r.dda_master_start, 0) * Abs(r.dda_delta)) \div r.dda_master_delta

\* The way a slave has to have gone when its master is at m.
Expected(r, m) ==
  (AtLeast(m.pos - r.dda_master_start, 0) * Abs(r.dda_delta) + r.dda_master_delta \div 2)
    \div r.dda_master_delta

SlaveDir(r) == IF r.dda_delta >= 0 THEN 1 ELSE -1

\* The way it has gone.
Emitted(r) == (r.target_pos - r.dda_start) * SlaveDir(r)

\* Axis_ControlCycle of a slave: it only ever catches up; when the master is
\* done it lands on a target one pulse away and holds.
Followed(r, m) ==
  LET at == r.dda_start + SlaveDir(r) * AtLeast(Expected(r, m), Emitted(r))
  IN  IF m.running
      THEN [r EXCEPT !.target_pos = at,
                     !.velocity = (m.vel * Abs(r.dda_delta)) \div r.dda_master_delta]
      ELSE [r EXCEPT !.target_pos =
                       IF Abs(r.cmd_target_pos - at) = 1 THEN r.cmd_target_pos ELSE at,
                     !.velocity = 0, !.motion_busy = FALSE, !.mode = "HOLD"]

\* Axis_ControlCycle reads the encoder and the fault bit first and sends the
\* target last.
Read(r, faulted) ==
  LET e == [r EXCEPT !.actual_pos = r.sent, !.fault = faulted]
  IN  IF faulted THEN Faulted(e) ELSE e

Sent(r) == [r EXCEPT !.sent = r.target_pos]

\* Mutants of AllDone: looks at the first axis only; asks for axes at rest.
AllDoneFirst(s) == ~(s[0].motion_busy /\ s[0].running)

AllDoneIdle(s) == \A a \in Axes : ~s[a].motion_busy

\* What Motion_ProcessQueue waits for: each axis's own planner.
AllDone(s) == \A a \in Axes : ~(s[a].motion_busy /\ s[a].running)

\* Motion_ProcessQueue at the end of a pass that left the axes at s; a segment
\* whose line hangs is still in the queue.
ProcessQueue(s) ==
  \/ /\ AllDone(s) /\ UNCHANGED looping
     /\ \E seg \in Segments : Take(seg) /\ axis' = Interp_Line(s, seg)
  \/ /\ paused \/ queue = <<>> \/ ~AllDone(s)
     /\ axis' = s /\ UNCHANGED <<qvars, looping>>
  \/ /\ AllDone(s) /\ ~paused /\ queue # <<>> /\ MayLoop(s, Head(queue))
     /\ looping' = TRUE /\ axis' = s /\ UNCHANGED qvars

\* Mutant of MasterSeen: the slaves are controlled before their master.
MasterSeenBefore(ran, r) == axis[r.dda_master]

\* A slave sees its master as the pass has left it.
MasterSeen(ran, r) == ran[r.dda_master]

\* The axes, each replaced by one of its outcomes.
Outcomes(Of(_)) ==
  LET of == [a \in Axes |-> Of(a)]
  IN  {f \in [Axes -> UNION {of[a] : a \in Axes}] : \A a \in Axes : f[a] \in of[a]}

\* First the axes that are no slaves, then the slaves.
After(faults, a) ==
  LET r == Read(axis[a], a \in faults)
  IN  IF axis[a].mode = "DDA" THEN {r} ELSE Controlled(r)

Follow(s, ran) ==
  [a \in Axes |-> Sent(IF s[a].mode # "DDA" \/ ran[a].mode = "HOLD" THEN ran[a]
                       ELSE Followed(ran[a], MasterSeen(ran, ran[a])))]

Faults(faults) ==
  /\ ~looping
  /\ faults # {} => events < MaxEvents
  /\ events' = IF faults = {} THEN events ELSE events + 1

\* One pass of vEtherCAT_Task, the last one if a line hangs.
Pass ==
  \E faults \in SUBSET Faulty :
    /\ Faults(faults)
    /\ \E ran \in Outcomes(LAMBDA a : After(faults, a)) : ProcessQueue(Follow(axis, ran))

-----------------------------------------------------------------------------
\* Between two passes a command is called; the task waits for its return.
Call == ~looping /\ events < MaxEvents /\ events' = events + 1

\* It rewrites the axes and returns.
Command == Call /\ UNCHANGED looping

Line(t) ==
  /\ Command /\ axis' = Interp_Line(axis, t) /\ UNCHANGED qvars

\* It never returns.
LineLoops(t) ==
  /\ Call /\ MayLoop(axis, t) /\ looping' = TRUE /\ UNCHANGED <<axis, queue, paused>>

MoveTo(a, to) ==
  /\ Command /\ axis' = [axis EXCEPT ![a] = ApplyPosition(@, to)] /\ UNCHANGED qvars

Stop(a, smooth) ==
  /\ Command /\ UNCHANGED qvars
  /\ \E r \in StopOne(axis[a], smooth) : axis' = [axis EXCEPT ![a] = r]

Halt(a) ==
  /\ Command /\ UNCHANGED qvars
  /\ \E r \in Halted(axis[a]) : axis' = [axis EXCEPT ![a] = r]

\* Motion_Abort: a flush and a stop of every axis.
Abort(smooth) ==
  /\ Command /\ Flush /\ Stops = Axes
  /\ axis' \in Outcomes(LAMBDA a : StopOne(axis[a], smooth))

\* The end of the fault reset sequence of ethercat_task.c.
ResetDone(a) ==
  /\ Command /\ a \in Faulty /\ axis[a].asked = "fault"
  /\ axis' = [axis EXCEPT ![a] =
                [@ EXCEPT !.mode = "HOLD", !.velocity = 0, !.motion_busy = FALSE,
                          !.running = FALSE, !.pos = 0, !.goal = 0, !.dir = 1, !.vel = 0]]
  /\ UNCHANGED qvars

QueueCommand ==
  /\ Command
  /\ \/ \E seg \in Segments : Put(seg)
     \/ Pause \/ Resume
  /\ UNCHANGED axis

\* One more round of Interp_Line's loop.
Spin == looping /\ UNCHANGED vars

Next ==
  \/ Pass
  \/ \E t \in Lines : Line(t) \/ LineLoops(t)
  \/ \E move \in Moves : MoveTo(move[1], move[2])
  \/ \E a \in Stops, smooth \in Smooth : Stop(a, smooth)
  \/ \E a \in Halts : Halt(a)
  \/ \E smooth \in Smooth : Abort(smooth)
  \/ \E a \in Axes : ResetDone(a)
  \/ QueueCommand
  \/ Spin

\* The task runs every 5 ms, and a planner that is stepped and not commanded
\* comes to its end (Finishes of module SCurve; MaxEvents makes the commands
\* cease), unless a line hangs and steps no planner any more.
PlannerEnds(a) == []<>(looping \/ ~(axis[a].mode = "POS" /\ axis[a].running))

Fairness == WF_vars(Pass) /\ \A a \in Axes : PlannerEnds(a)

Spec == Init /\ [][Next]_vars /\ Fairness
-----------------------------------------------------------------------------
TypeOK ==
  /\ axis \in [Axes -> AxisState]
  /\ queue \in Seq(Segments) /\ Len(queue) <= Capacity
  /\ paused \in BOOLEAN /\ looping \in BOOLEAN

\* The slave a follows a line, and so does its master m, or decelerates on it.
OnLine(a, m) ==
  /\ axis[a].mode = "DDA" /\ axis[a].asked = "line"
  /\ m = axis[a].dda_master /\ axis[m].asked \in {"line", "slowed"}

\* A slave is within half a pulse of its share of its master's way, whatever
\* the order of the axes, when lines replace lines and the master is stopped
\* (motion_api.c:1571-1579): the tool stays on the straight line.
OffLine(a, m) ==
  2 * Abs(Emitted(axis[a]) * axis[a].dda_master_delta
          - Abs(axis[m].pos - axis[a].dda_master_start) * Abs(axis[a].dda_delta))
    > axis[a].dda_master_delta

Straight ==
  \A a, m \in Axes : OnLine(a, m) /\ axis[m].dir > 0 => ~OffLine(a, m)

\* The slaves end with their master, in the same pass (motion_api.c:340).
EndsTogether == \A a, m \in Axes : OnLine(a, m) => axis[m].running

\* Every axis of a line that ran to its end is within one cycle's way of its
\* target, also when the master passed its target or was not aligned with it.
EndsNear ==
  \A a \in Axes :
    /\ axis[a].asked = "line" /\ axis[a].mode = "HOLD"
    /\ axis[axis[a].dda_master].asked = "line" /\ axis[axis[a].dda_master].dir > 0
    => Abs(axis[a].cmd_target_pos - axis[a].target_pos) <= Speed

\* When a motion is replaced by one in the other sense the commanded position
\* goes back by the drive's lag, a first step and the pulse of a landing slave.
Jumps(a) == Abs(axis'[a].sent - axis[a].sent) > 2 * Speed + 1

\* The planner of the master of slave a was zeroed by a fault reset, in the
\* middle of the line.
MasterReset(a) ==
  /\ axis[a].mode = "DDA" /\ axis[axis[a].dda_master].asked = "fault"
  /\ ~axis[axis[a].dda_master].running

\* The planner of the master of slave a, which leads no line any more, is ahead of
\* what the slave has followed: it was zeroed, or planned anew from an encoder
\* that was ahead.
LeftBehind(a) ==
  LET r == axis[a]
      m == axis[r.dda_master]
  IN  /\ r.mode = "DDA" /\ m.asked \notin {"line", "slowed"}
      /\ 2 * (AtLeast(m.pos - r.dda_master_start, 0) * Abs(r.dda_delta)
              - Emitted(r) * r.dda_master_delta) > r.dda_master_delta

\* The drive is within a cycle's way of where it was sent.
Close(a) == Abs(axis[a].sent - axis[a].actual_pos) <= Speed

\* No line, positioning or fault, whenever it comes, moves the commanded
\* position in one cycle by more than that, and the alignment of an axis that
\* arrives: the drive reports 0x6320 on more (motion_profile.c:509).  A slave
\* that its master has left behind is left out (ResetHoldsStill).
LinesDoNotJump ==
  [][\A a \in Axes : /\ axis[a].asked \notin {"slowed", "stop"}
                     /\ Close(a) /\ ~LeftBehind(a)
                     => Abs(axis'[a].sent - axis[a].sent) <= 2 * Speed + Window + 1]_vars

\* All axes have been on the line last commanded, in its positive sense.
LineDone ==
  \A a \in Axes :
    /\ axis[a].asked = "line"
    /\ axis[a].dda_master # -1 => axis[axis[a].dda_master].dir > 0

\* A queued line starts within two cycles' way (the landing and the drive's
\* lag) of where the line before it was to end, on every axis: it is not
\* dispatched into a motion.
SegmentsJoin ==
  [][/\ LineDone /\ \A a \in Axes : Close(a)
     /\ queue # <<>> /\ queue' = Tail(queue)
     /\ \A a \in Axes : axis'[a].asked = "line" /\ ~axis'[a].fault
     => \A a \in Axes : Abs(axis'[a].actual_pos - axis[a].cmd_target_pos) <= 2 * Speed]_vars

\* Once commands cease the queue empties, unless it is paused, a stop or a
\* fault has left an axis as it is, or a short and slow line hangs in Interp_Line:
\* no other line, positioning or reset keeps Motion_ProcessQueue waiting for ever.
QueueDrains ==
  []<>(\/ queue = <<>> \/ paused \/ looping
       \/ \E a \in Axes : axis[a].asked \in {"slowed", "stop", "fault"})

\* "Called each cycle, starts the next segment after the one completed"
\* (motion_api.c:711): also one that is short and slow.
AlwaysDrains ==
  []<>(\/ queue = <<>> \/ paused
       \/ \E a \in Axes : axis[a].asked \in {"slowed", "stop", "fault"})

\* "All axes start and stop strictly together, forming a straight line"
\* (motion_api.c:340), whatever the sense of the master.
StraightBothWays ==
  \A a, m \in Axes : OnLine(a, m) /\ axis[m].asked = "line" => ~OffLine(a, m)

\* "Never make a large jump: the drive checks the increment of each cycle and
\* reports 0x6320" (motion_profile.c:509), also when an axis is stopped.
NeverJumps == [][\A a \in Axes : ~Jumps(a)]_vars

\* The reset of a drive clears all motion state "so that no old state causes an
\* abnormal motion after the enabling" (ethercat_task.c:235): nor does the
\* axis that follows it jump.
ResetHoldsStill == [][\A a \in Axes : MasterReset(a) => ~Jumps(a)]_vars

\* A stop decelerates (motion_api.c:875): the axis does not go the other way
\* than it went.
StopsForward ==
  [][\A a \in Axes : axis[a].mode = "DDA" /\ axis'[a].asked = "stop" /\ axis'[a].mode = "POS"
                     => axis'[a].dir = SlaveDir(axis[a])]_vars
=============================================================================
