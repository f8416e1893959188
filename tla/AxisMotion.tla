----------------------------- MODULE AxisMotion -----------------------------
(***************************************************************************)
(* The single axis commands of User/Src/motion_api.c and the pass of the   *)
(* EtherCAT task that executes them.  Commands (serial_cmd.c between two   *)
(* passes, modbus_slave.c at the start of one) write the axis records; a   *)
(* pass runs Axis_ControlCycle on every axis, then Axis_CheckHomingDone,   *)
(* then the end of the fault reset sequence.                               *)
(*                                                                         *)
(* Positions are abstracted to what the control flow tells apart: the sign *)
(* of a displacement, and whether an encoder is within POS_ARRIVE_THRESH   *)
(* of the commanded target, are inputs.  The planner is reduced to the     *)
(* phases of module SCurve: done, running, decelerating.                   *)
(***************************************************************************)
EXTENDS Integers

CONSTANTS Axes,
          Accepts,  \* the commands each axis receives in this instance
          Faulty,   \* the axes whose drive may fault
          Smooth    \* the values of PARAM_SMOOTH_STOP_EN

VARIABLES axis,           \* axis[ax] of motion_api.c
          homing_active,
          fault           \* the fault bit of each drive's status word

vars == <<axis, homing_active, fault>>

Commands == {"jog", "halt", "position", "zero", "stop", "reset"}

ASSUME AcceptsAssumption == Accepts \in [Axes -> SUBSET Commands]
ASSUME FaultyAssumption == Faulty \subseteq Axes
ASSUME SmoothAssumption == Smooth \subseteq BOOLEAN

Signs == {-1, 1}

\* seg, goal, vel and dir abstract axis[ax].splanner: the segment, whether the
\* target is the far end of a jog, current_vel > 0 and the direction.  velocity
\* is axis[ax].velocity > 0, pending the sign of jog_pending_rpm, homing also
\* holds homing_phase.  asked is no state of the code: the last command since
\* the drive last faulted or was reset.
AxisState ==
  [mode : {"HOLD", "VEL", "POS"}, motion_busy : BOOLEAN,
   direction : {-1, 0, 1}, pending : {-1, 0, 1}, velocity : BOOLEAN,
   homing : {"no", "single", "fast", "creep"}, resetting : BOOLEAN,
   seg : {"DONE", "RUN", "DEC"}, goal : {"point", "far"},
   vel : BOOLEAN, dir : {-1, 0, 1},
   asked : Commands \cup {"none"}]

\* Axis_Init, and the enabling of every axis at start-up.
Idle ==
  [mode |-> "HOLD", motion_busy |-> FALSE, direction |-> 0, pending |-> 0,
   velocity |-> FALSE, homing |-> "no", resetting |-> FALSE,
   seg |-> "DONE", goal |-> "point", vel |-> FALSE, dir |-> 1, asked |-> "none"]

Init ==
  /\ axis = [a \in Axes |-> Idle]
  /\ homing_active = FALSE
  /\ fault = [a \in Axes |-> FALSE]

-----------------------------------------------------------------------------
\* SCurve_Plan over a displacement of sign s.
Planned(r, s, goal) ==
  [r EXCEPT !.seg = IF s = 0 THEN "DONE" ELSE "RUN",
            !.goal = goal, !.vel = FALSE, !.dir = s]

\* A planner that is not done and has a speed.
Moving(r) == r.seg # "DONE" /\ r.vel

\* SCurve_Stop of a moving planner.
Braked(r) == [r EXCEPT !.seg = "DEC", !.goal = "point"]

\* Every stop that decelerates leaves the axis positioning and busy.
Braking(r) ==
  [Braked(r) EXCEPT !.mode = "POS", !.motion_busy = TRUE, !.direction = 0]

\* Mutant of StopOne: a braking axis keeps its pending reversal.
StopOneKeepsPending(r, smooth) ==
  LET s == [r EXCEPT !.homing = "no"]
  IN  IF Moving(r) THEN Braking(s)
      ELSE [s EXCEPT !.direction = 0, !.velocity = FALSE, !.motion_busy = FALSE]

\* Axis_StopOne after Axis_CancelHoming.
StopOne(r, smooth) ==
  LET s == [r EXCEPT !.homing = "no", !.pending = 0]
  IN  CASE Moving(r) -> Braking(s)
        [] ~Moving(r) /\ r.velocity /\ smooth ->
             Braking([s EXCEPT !.vel = TRUE,
                               !.dir = IF r.direction = 0 THEN 1 ELSE r.direction])
        [] ~Moving(r) /\ ~(r.velocity /\ smooth) /\ r.mode = "POS" ->
             [s EXCEPT !.direction = 0, !.velocity = FALSE, !.motion_busy = FALSE]
        [] OTHER -> [s EXCEPT !.direction = 0, !.mode = "VEL"]

\* Axis_ApplyVelocity with rpm = 0.
Halted(r) ==
  LET s == [r EXCEPT !.homing = "no", !.pending = 0]
  IN  [(IF Moving(r) THEN Braked(s) ELSE s) EXCEPT
         !.mode = "POS", !.motion_busy = TRUE, !.direction = 0]

\* Axis_ApplyVelocity reverses a jog that is under way by stopping it first.
Reverses(r, s) == r.direction # 0 /\ r.direction # s /\ Moving(r)

\* Axis_ApplyVelocity with rpm > 0 in direction s.
ApplyVelocity(r, s) ==
  IF Reverses(r, s)
  THEN [Braking(r) EXCEPT !.homing = "no", !.pending = s]
  ELSE [Planned(r, s, "far") EXCEPT
          !.homing = "no", !.mode = "POS", !.motion_busy = TRUE,
          !.direction = s, !.pending = 0]

\* Axis_ApplyPosition over a displacement of sign s.
ApplyPosition(r, s) ==
  [Planned(r, s, "point") EXCEPT
     !.homing = "no", !.mode = "POS", !.motion_busy = TRUE]

\* ZERO of serial_cmd.c (phase "single") and of modbus_slave.c (two phases).
ApplyZero(r, s, phase) ==
  [Planned(r, s, "point") EXCEPT !.homing = phase, !.mode = "POS"]

-----------------------------------------------------------------------------
\* The planner after SCurve_Step: a first step gives it a speed, a running one
\* may start to decelerate, and it ends at rest.
Stepped(r) ==
  IF r.seg = "DONE" THEN {r}
  ELSE {[r EXCEPT !.seg = "DONE", !.vel = FALSE]}
       \cup {[r EXCEPT !.seg = "DEC", !.vel = v] : v \in BOOLEAN}
       \cup IF r.seg = "RUN" THEN {[r EXCEPT !.vel = TRUE]} ELSE {}

\* Mutants of Arrived: the axis that starts again is left not busy; a pending
\* reversal is not looked at.
ArrivedNotBusy(r) ==
  LET d == [r EXCEPT !.velocity = FALSE, !.motion_busy = FALSE]
      Again(s) == [ApplyVelocity(d, s) EXCEPT !.motion_busy = FALSE]
  IN  IF r.pending # 0 THEN Again(r.pending)
      ELSE IF r.direction # 0 THEN Again(r.direction) ELSE d

ArrivedForgets(r) ==
  LET d == [r EXCEPT !.velocity = FALSE, !.motion_busy = FALSE]
  IN  IF r.direction # 0 THEN ApplyVelocity(d, r.direction) ELSE d

\* The planner of a positioning axis has just ended: a pending reversal or a
\* direction still set starts the next jog.
Arrived(r) ==
  LET d == [r EXCEPT !.velocity = FALSE, !.motion_busy = FALSE]
  IN  IF r.pending # 0 THEN ApplyVelocity(d, r.pending)
      ELSE IF r.direction # 0 THEN ApplyVelocity(d, r.direction)
      ELSE d

\* Mutant of Faulted: stays in its mode.
FaultedKeepsMode(r) ==
  [r EXCEPT !.direction = 0, !.velocity = FALSE, !.motion_busy = FALSE,
            !.asked = "none"]

Faulted(r) ==
  [r EXCEPT !.mode = "HOLD", !.direction = 0, !.velocity = FALSE,
            !.motion_busy = FALSE, !.asked = "none"]

\* The outcomes of Axis_ControlCycle.  Only commands set a direction in VEL
\* mode, and none does.
ControlCycle(a) ==
  LET r == axis[a]
  IN  IF fault[a] THEN {Faulted(r)}
      ELSE IF r.mode = "POS"
      THEN {IF q.seg = "DONE" /\ r.seg # "DONE" THEN Arrived(q)
            ELSE [q EXCEPT !.velocity = q.vel] : q \in Stepped(r)}
      ELSE {r, [r EXCEPT !.velocity = FALSE]}

\* Step 5 of the fault reset sequence of ethercat_task.c.
ResetDone(r) ==
  [r EXCEPT !.velocity = FALSE, !.direction = 0, !.mode = "HOLD",
            !.motion_busy = FALSE, !.pending = 0, !.resetting = FALSE,
            !.seg = "DONE", !.goal = "point", !.vel = FALSE, !.dir = 1,
            !.asked = "none"]

\* Mutant of Pass: each axis ends its own homing.
PassSingly(next, at, back, ready) ==
  LET Homed(a) == a \in at /\ ~next[a].velocity
  IN  /\ axis' = [a \in Axes |-> IF Homed(a) THEN [next[a] EXCEPT !.homing = "no"]
                                ELSE next[a]]
      /\ homing_active' = \E a \in Axes : next[a].homing # "no" /\ ~Homed(a)
      /\ UNCHANGED fault

\* One pass of vEtherCAT_Task.  at: axes whose encoder is near their target;
\* back: axes whose second homing phase moves backwards; ready: drives that
\* have reached Operation Enabled.  A switch to the second homing phase leaves
\* the axis away from its new target.
Pass(next, at, back, ready) ==
  LET cancelled == {a \in Axes : axis[a].homing # "no" /\ next[a].homing = "no"}
      active == IF cancelled = {} THEN homing_active
                ELSE \E a \in Axes : next[a].homing # "no"
      At(a) == a \in at /\ ~next[a].velocity
      switched == {a \in Axes : active /\ next[a].homing = "fast" /\ At(a)}
      homed == /\ active /\ switched = {}
               /\ \A a \in Axes : next[a].homing # "no" => At(a)
      Checked(a) ==
        IF a \in switched
        THEN [Planned(next[a], IF a \in back THEN -1 ELSE 1, "point")
                EXCEPT !.homing = "creep"]
        ELSE IF homed THEN [next[a] EXCEPT !.homing = "no"] ELSE next[a]
  IN  /\ axis' = [a \in Axes |-> IF a \in ready THEN ResetDone(Checked(a)) ELSE Checked(a)]
      /\ homing_active' = (active /\ ~homed)
      /\ UNCHANGED fault

Cycle ==
  LET outcome == [a \in Axes |-> ControlCycle(a)]
  IN  \E next \in [Axes -> UNION {outcome[a] : a \in Axes}] :
        /\ \A a \in Axes : next[a] \in outcome[a]
        /\ \E at \in SUBSET {a \in Axes : next[a].homing # "no" /\ ~next[a].velocity} :
           \E back \in SUBSET {a \in at : next[a].homing = "fast"} :
           \E ready \in SUBSET {a \in Axes : axis[a].resetting /\ ~fault[a]} :
             Pass(next, at, back, ready)

-----------------------------------------------------------------------------
\* Mutant of Command: cancelling one homing forgets the others.
CommandForgetsHoming(a, c, r) ==
  /\ c \in Accepts[a]
  /\ axis' = [axis EXCEPT ![a] = [r EXCEPT !.asked = c]]
  /\ homing_active' = (homing_active /\ axis[a].homing = "no")
  /\ UNCHANGED fault

\* A command rewrites one axis; Axis_CancelHoming recomputes homing_active.
Command(a, c, r) ==
  /\ c \in Accepts[a]
  /\ axis' = [axis EXCEPT ![a] = [r EXCEPT !.asked = c]]
  /\ homing_active' = IF axis[a].homing = "no" THEN homing_active
                      ELSE \E b \in Axes \ {a} : axis[b].homing # "no"
  /\ UNCHANGED fault

Jog(a, s) == Command(a, "jog", ApplyVelocity(axis[a], s))

Halt(a) == Command(a, "halt", Halted(axis[a]))

MoveTo(a, s) == Command(a, "position", ApplyPosition(axis[a], s))

Stop(a, smooth) == Command(a, "stop", StopOne(axis[a], smooth))

\* The first phase of a two phase homing has a way to go.
Zero(a, s, phase) ==
  /\ "zero" \in Accepts[a]
  /\ phase = "fast" => s # 0
  /\ axis' = [axis EXCEPT ![a] = [ApplyZero(axis[a], s, phase) EXCEPT !.asked = "zero"]]
  /\ homing_active' = TRUE
  /\ UNCHANGED fault

\* RESET of serial_cmd.c also stops the axis.
ResetAndStop(a, smooth) ==
  Command(a, "reset", [StopOne(axis[a], smooth) EXCEPT !.resetting = TRUE])

\* RESET of modbus_slave.c, for a drive in fault.
Reset(a) ==
  /\ "reset" \in Accepts[a] /\ fault[a]
  /\ axis' = [axis EXCEPT ![a].resetting = TRUE]
  /\ UNCHANGED <<homing_active, fault>>

\* The drive faults at any time and clears the fault only when told to.
DriveFault(a) ==
  /\ a \in Faulty
  /\ fault' = [fault EXCEPT ![a] = TRUE] /\ UNCHANGED <<axis, homing_active>>

DriveClear(a) ==
  /\ axis[a].resetting
  /\ fault' = [fault EXCEPT ![a] = FALSE] /\ UNCHANGED <<axis, homing_active>>

Next ==
  \/ Cycle
  \/ \E a \in Axes :
       \/ \E s \in Signs : Jog(a, s)
       \/ Halt(a)
       \/ \E s \in {-1, 0, 1} : MoveTo(a, s)
       \/ \E s \in {-1, 0, 1}, phase \in {"single", "fast", "creep"} : Zero(a, s, phase)
       \/ \E smooth \in Smooth : Stop(a, smooth) \/ ResetAndStop(a, smooth)
       \/ Reset(a) \/ DriveFault(a) \/ DriveClear(a)

\* The task runs every 5 ms; a planner that decelerates and is stepped comes
\* to its end (Finishes of module SCurve).
PlannerEnds(a) ==
  (axis[a].mode = "POS" /\ axis[a].seg = "DEC")
    ~> (axis[a].mode # "POS" \/ axis[a].seg # "DEC")

Fairness == WF_vars(Cycle) /\ \A a \in Axes : PlannerEnds(a)

Spec == Init /\ [][Next]_vars /\ Fairness
-----------------------------------------------------------------------------
TypeOK ==
  /\ axis \in [Axes -> AxisState]
  /\ homing_active \in BOOLEAN
  /\ fault \in [Axes -> BOOLEAN]

\* A homing axis is never forgotten: Axis_CheckHomingDone looks at nothing
\* while homing_active is clear, and commands to other axes recompute it.
HomingKnown == (\E a \in Axes : axis[a].homing # "no") => homing_active

\* Homing ends for all axes in the same pass (motion_api.c:1144), except for
\* one that starts to jog instead.
HomesTogether ==
  [][\A a, b \in Axes :
       (/\ axis[a].homing # "no" /\ axis'[a].homing = "no"
        /\ axis'[a].asked = "zero" /\ axis'[a].goal = "point")
       => axis'[b].homing = "no"]_vars

\* A drive fault or a reset ends every motion: no pending reversal, leftover
\* direction, running planner or homing phase moves the axis again before a
\* command does (ethercat_task.c:235-241).
MovesOnlyWhenAsked ==
  \A a \in Axes : axis[a].mode = "POS" /\ axis[a].seg # "DONE" => axis[a].asked # "none"

\* An axis that a jog or a positioning moves is busy, across reversals and
\* automatic continuations: CFG_APPLY renumbers the axes when none is busy.
MovingIsBusy ==
  \A a \in Axes : axis[a].asked \in {"jog", "position"} /\ axis[a].mode = "POS"
                /\ axis[a].seg # "DONE" => axis[a].motion_busy

\* After Axis_StopOne a planner that decelerates or rests does not start
\* again by itself.
StopIsFinal ==
  [][\A a \in Axes :
       (axis[a].asked = "stop" /\ axis'[a].asked = "stop" /\ axis[a].seg # "RUN")
       => axis'[a].seg # "RUN"]_vars

\* A jog reversed while it moves does start in the other direction, unless a
\* command or a fault comes first.
ReversalCompletes ==
  \A a \in Axes : (axis[a].asked = "jog" /\ axis[a].pending # 0)
                 ~> (axis[a].pending = 0 \/ axis[a].asked # "jog")

\* Axis_StopOne leaves no planner running: "the planner has already stopped"
\* (motion_api.c:958) when it is not decelerated.
StopsWhenAsked ==
  \A a \in Axes : axis[a].asked = "stop" /\ axis[a].mode = "POS" => axis[a].seg # "RUN"

\* An axis told to go to a position or to zero ends there and does not jog
\* off (motion_api.c:1049).
JogsOnlyWhenAsked ==
  \A a \in Axes : axis[a].mode = "POS" /\ axis[a].seg = "RUN" /\ axis[a].goal = "far"
                => axis[a].asked \notin {"position", "zero"}
=============================================================================
