----------------------------- MODULE HomingMotion -----------------------------
(***************************************************************************)
(* Homing over the axes, lines and queue of LineMotion: ZERO of            *)
(* serial_cmd.c (one phase) and of modbus_slave.c (two phases), and        *)
(* Axis_CheckHomingDone of motion_api.c at the end of every pass.          *)
(*                                                                         *)
(* A homing axis is a positioning one with a flag that single axis         *)
(* commands cancel.  Lines and faults do not, and the check goes by the    *)
(* commanded target, which both of them set.                               *)
(***************************************************************************)
EXTENDS LineMotion

CONSTANTS Zeros,   \* the sets of axes that are sent home together
          Creep,   \* creep_dist: where the first phase ends
          Thresh   \* POS_ARRIVE_THRESH

VARIABLES homing,         \* axis[ax].homing with homing_phase: "no", "single",
                          \* "fast", "creep"
          homing_active

homeVars == <<vars, homing, homing_active>>

\* ZERO makes its own speed the pos_step that Arrived compares with.
ASSUME HomingAssumption ==
  /\ Zeros \subseteq SUBSET Axes /\ Creep \in Nat /\ Thresh \in Nat
  /\ Speed <= Window /\ Thresh < Creep \div 2

HomeInit == Init /\ homing = [a \in Axes |-> "no"] /\ homing_active = FALSE

-----------------------------------------------------------------------------
\* Mutant of Zeroed: planned from where the axis was to go.
ZeroedFromTarget(r, to) ==
  [Planned(r, to) EXCEPT !.pos = r.cmd_target_pos, !.mode = "POS",
                         !.cmd_target_pos = to, !.asked = "zero"]

\* The planning of a ZERO, which leaves motion_busy as it is.
Zeroed(r, to) ==
  [Planned(r, to) EXCEPT !.mode = "POS", !.cmd_target_pos = to, !.asked = "zero"]

Nearby(a) == Abs(axis[a].actual_pos) <= 2 * Creep

\* creep_dist of axis a among as: halved once an axis before it was near, which
\* slows the creeping of all that follow.
CreepDist(as, a) ==
  IF \E b \in as : b < a /\ Nearby(b) THEN Creep \div 2 ELSE Creep

\* Where the first phase goes: on its own side of the origin, and to the
\* origin itself from nearby.
Approach(as, a) ==
  IF Abs(axis[a].actual_pos) <= 2 * CreepDist(as, a) THEN 0
  ELSE IF axis[a].actual_pos > 0 THEN CreepDist(as, a) ELSE -CreepDist(as, a)

\* The second phase starts from the encoder, in whatever mode the axis is.
Creeping(r) ==
  [Planned(r, 0) EXCEPT !.cmd_target_pos = 0,
                        !.target_pos = r.actual_pos, !.sent = r.actual_pos]

\* Axis_IsAtTarget.
IsAtTarget(r) == Abs(r.cmd_target_pos - r.actual_pos) <= Thresh /\ r.velocity = 0

\* The axes whose first phase ends.
Switching(s) ==
  {a \in Axes : homing_active /\ homing[a] = "fast" /\ IsAtTarget(s[a])}

\* The axes once those have begun their second phase.
Switched(s) ==
  [a \in Axes |-> IF a \in Switching(s) THEN Creeping(s[a]) ELSE s[a]]

\* Mutant of AllHome: looks before the second phase has its target.
AllHomeEarly(s, t) == \A a \in Axes : homing[a] # "no" => IsAtTarget(s[a])

\* Whether all axes that home are where they were sent.
AllHome(s, t) == \A a \in Axes : homing[a] # "no" => IsAtTarget(t[a])

\* Axis_CheckHomingDone of the axes s, which leaves them at t.
CheckHomingDone(s, t) ==
  LET done == homing_active /\ AllHome(s, t)
  IN  /\ homing' = [a \in Axes |-> IF done THEN "no"
                                   ELSE IF a \in Switching(s) THEN "creep" ELSE homing[a]]
      /\ homing_active' = (homing_active /\ ~done)

\* One pass of vEtherCAT_Task: the axes, the homing check, the queue.
HomePass ==
  \E faults \in SUBSET Faulty :
    /\ Faults(faults)
    /\ \E ran \in Outcomes(LAMBDA a : After(faults, a)) :
         LET s == Follow(axis, ran)
             t == Switched(s)
         IN  CheckHomingDone(s, t) /\ ProcessQueue(t)

-----------------------------------------------------------------------------
\* Mutant of Cancelled: a command leaves the flag of its axis.
NotCancelled(as) == UNCHANGED <<homing, homing_active>>

\* Axis_CancelHoming of the axes as.
Cancelled(as) ==
  /\ homing' = [a \in Axes |-> IF a \in as THEN "no" ELSE homing[a]]
  /\ homing_active' = IF \A a \in as : homing[a] = "no" THEN homing_active
                      ELSE \E a \in Axes \ as : homing[a] # "no"

\* The axes as are sent home, each to its own target and in its own phase.
SendHome(as, to(_), phase(_)) ==
  /\ Command /\ UNCHANGED qvars
  /\ axis' = [a \in Axes |-> IF a \in as THEN Zeroed(axis[a], to(a)) ELSE axis[a]]
  /\ homing' = [a \in Axes |-> IF a \in as THEN phase(a) ELSE homing[a]]
  /\ homing_active' = TRUE

\* ZERO and X:ZERO.
SerialZero(as) == SendHome(as, LAMBDA a : 0, LAMBDA a : "single")

\* Command 3 of the panel; the target position that it also writes is written
\* again before it is sent.
PanelZero(as) ==
  SendHome(as, LAMBDA a : Approach(as, a),
           LAMBDA a : IF Approach(as, a) # 0 THEN "fast" ELSE "creep")

HomeLine(t) == Line(t) /\ UNCHANGED <<homing, homing_active>>

HomeLineLoops(t) == LineLoops(t) /\ UNCHANGED <<homing, homing_active>>

HomeMoveTo(a, to) == MoveTo(a, to) /\ Cancelled({a})

HomeStop(a, smooth) == Stop(a, smooth) /\ Cancelled({a})

HomeHalt(a) == Halt(a) /\ Cancelled({a})

HomeAbort(smooth) == Abort(smooth) /\ Cancelled(Axes)

HomeResetDone(a) == ResetDone(a) /\ UNCHANGED <<homing, homing_active>>

HomeQueueCommand == QueueCommand /\ UNCHANGED <<homing, homing_active>>

HomeSpin == looping /\ UNCHANGED homeVars

HomeNext ==
  \/ HomePass
  \/ \E as \in Zeros : SerialZero(as) \/ PanelZero(as)
  \/ \E t \in Lines : HomeLine(t) \/ HomeLineLoops(t)
  \/ \E move \in Moves : HomeMoveTo(move[1], move[2])
  \/ \E a \in Stops, smooth \in Smooth : HomeStop(a, smooth)
  \/ \E a \in Halts : HomeHalt(a)
  \/ \E smooth \in Smooth : HomeAbort(smooth)
  \/ \E a \in Axes : HomeResetDone(a)
  \/ HomeQueueCommand
  \/ HomeSpin

\* The task runs every 5 ms, and planners end, as in LineMotion.
HomeSpec ==
  /\ HomeInit /\ [][HomeNext]_homeVars
  /\ WF_homeVars(HomePass) /\ \A a \in Axes : PlannerEnds(a)
-----------------------------------------------------------------------------
\* Homing is only ever completed at home: an axis that was sent home, and not
\* elsewhere since, stands at the origin when its homing ends, in one
\* phase or two, whatever the others that home with it do
\* (motion_api.c:1144).
HomedAtOrigin ==
  [][\A a \in Axes : /\ homing[a] # "no" /\ homing'[a] = "no"
                     /\ axis[a].asked = "zero" /\ axis'[a].asked = "zero"
                     => Abs(0 - axis'[a].actual_pos) <= Thresh]_homeVars

\* Nor does an axis that homes, changes from one phase to the next, or is
\* sent home from a line move by more than the drive accepts
\* (motion_api.c:1172).
HomingDoesNotJump ==
  [][\A a \in Axes : /\ axis[a].asked = "zero" /\ axis'[a].asked = "zero" /\ Close(a)
                     => ~Jumps(a)]_homeVars

\* Once commands cease homing ends, for all axes: one that stands at home, is
\* stopped or is sent elsewhere waits for the others and keeps none of them waiting,
\* except that the flag of one that a fault or a line has taken stays
\* (motion_api.c:1179), and that a line hangs in Interp_Line.
HomingEnds ==
  []<>(\/ looping \/ \A a \in Axes : homing[a] = "no"
       \/ \E a \in Axes : homing[a] # "no" /\ axis[a].asked \in {"line", "fault"})

\* A line ends where it was told to: no pass gives an axis on a line another
\* target, also when the line has interrupted its homing (motion_api.c:1154).
LineKeepsTarget ==
  [][HomePass /\ UNCHANGED queue
     => \A a \in Axes : axis[a].asked = "line" /\ axis'[a].asked = "line"
                        => axis'[a].cmd_target_pos = axis[a].cmd_target_pos]_homeVars
=============================================================================
