--------------------------- MODULE AxisMotion_proof ---------------------------
(***************************************************************************)
(* Proofs about the axis commands and the control pass of AxisMotion, for  *)
(* every number of axes: no homing is forgotten, only a command moves an   *)
(* axis, a moving axis is busy, and a stopped one stays stopped.           *)
(***************************************************************************)
EXTENDS AxisMotion, TLAPS

\* No reversal, continued jog or homing is to follow.
Settled(r) == r.direction = 0 /\ r.pending = 0 /\ r.homing = "no"

\* What holds of each axis record beyond its type: an axis positions only on a
\* command, a jog or a positioning has ended any homing, and moves busy, and a
\* stop has left nothing that starts it again.
Sound(r) ==
  /\ r \in AxisState
  /\ r.mode = "POS" => r.asked # "none"
  /\ r.asked \in {"jog", "position"} => r.homing = "no"
  /\ r.asked \in {"jog", "position"} /\ r.mode = "POS" /\ r.seg # "DONE" => r.motion_busy
  /\ r.asked = "stop" => Settled(r)

\* Record r is q but for a homing that may have been cancelled.
Keeps(q, r) == r.homing \in {"no", q.homing}

\* A stopped axis whose planner does not run is not started from q to r.
Quiet(q, r) == q.asked = "stop" /\ r.asked = "stop" /\ q.seg # "RUN" => r.seg # "RUN"

LEMMA PlannedSound ==
  ASSUME NEW r \in AxisState, NEW s \in {-1, 0, 1}, NEW goal \in {"point", "far"}
  PROVE  /\ Planned(r, s, goal) \in AxisState
         /\ Planned(r, s, goal).homing = r.homing
BY DEF Planned, AxisState

\* The results of the commands are records of an axis without a homing.
LEMMA ApplyVelocityType ==
  ASSUME NEW r \in AxisState, NEW s \in Signs
  PROVE  /\ ApplyVelocity(r, s) \in AxisState
         /\ ApplyVelocity(r, s).homing = "no"
         /\ ApplyVelocity(r, s).motion_busy
         /\ ApplyVelocity(r, s).asked = r.asked
         /\ ~Moving(r) => ApplyVelocity(r, s).goal = "far"
<1>1. CASE Reverses(r, s)
  BY <1>1 DEF ApplyVelocity, Braking, Braked, Signs, AxisState, Reverses
<1>2. CASE ~Reverses(r, s)
  BY <1>2 DEF ApplyVelocity, Planned, Signs, AxisState
<1> QED BY <1>1, <1>2

LEMMA ApplyPositionType ==
  ASSUME NEW r \in AxisState, NEW s \in {-1, 0, 1}
  PROVE  /\ ApplyPosition(r, s) \in AxisState
         /\ ApplyPosition(r, s).homing = "no"
         /\ ApplyPosition(r, s).motion_busy
BY DEF ApplyPosition, Planned, AxisState

LEMMA HaltedType ==
  ASSUME NEW r \in AxisState
  PROVE  Halted(r) \in AxisState /\ Halted(r).homing = "no"
<1>1. CASE Moving(r)
  BY <1>1 DEF Halted, Braked, AxisState
<1>2. CASE ~Moving(r)
  BY <1>2 DEF Halted, AxisState
<1> QED BY <1>1, <1>2

LEMMA StopOneType ==
  ASSUME NEW r \in AxisState, NEW smooth \in BOOLEAN
  PROVE  /\ StopOne(r, smooth) \in AxisState /\ Settled(StopOne(r, smooth))
         /\ r.seg # "RUN" => StopOne(r, smooth).seg # "RUN"
<1>1. CASE Moving(r)
  BY <1>1 DEF StopOne, Settled, Braking, Braked, AxisState
<1>2. CASE ~Moving(r) /\ r.velocity /\ smooth
  BY <1>2 DEF StopOne, Settled, Braking, Braked, AxisState
<1>3. CASE ~Moving(r) /\ ~(r.velocity /\ smooth) /\ r.mode = "POS"
  BY <1>3 DEF StopOne, Settled, AxisState
<1>4. CASE ~Moving(r) /\ ~(r.velocity /\ smooth) /\ r.mode # "POS"
  BY <1>4 DEF StopOne, Settled, AxisState
<1> QED BY <1>1, <1>2, <1>3, <1>4

LEMMA ApplyZeroType ==
  ASSUME NEW r \in AxisState, NEW s \in {-1, 0, 1}, NEW phase \in {"single", "fast", "creep"}
  PROVE  ApplyZero(r, s, phase) \in AxisState /\ ApplyZero(r, s, phase).homing = phase
BY DEF ApplyZero, Planned, AxisState

\* A command leaves a sound record, whatever record it finds.
LEMMA Commanded ==
  ASSUME NEW r \in AxisState, NEW c \in Commands,
         r.homing = "no", c \in {"jog", "position"} => r.motion_busy,
         c = "stop" => Settled(r)
  PROVE  Sound([r EXCEPT !.asked = c])
BY DEF Sound, Settled, AxisState, Commands

-----------------------------------------------------------------------------
\* A step of the planner does not start it.
LEMMA SteppedFacts ==
  ASSUME NEW r, Sound(r), NEW q \in Stepped(r)
  PROVE  /\ Sound(q) /\ q.homing = r.homing /\ q.mode = r.mode /\ q.asked = r.asked
         /\ r.seg # "RUN" => q.seg # "RUN"
<1>1. CASE r.seg = "DONE"
  BY <1>1 DEF Stepped
<1>2. CASE r.seg # "DONE"
  <2>1. CASE q = [r EXCEPT !.seg = "DONE", !.vel = FALSE]
    BY <2>1 DEF Sound, Settled, AxisState
  <2>2. ASSUME NEW v \in BOOLEAN, q = [r EXCEPT !.seg = "DEC", !.vel = v]
        PROVE  /\ Sound(q) /\ q.homing = r.homing /\ q.mode = r.mode /\ q.asked = r.asked
               /\ r.seg # "RUN" => q.seg # "RUN"
    BY <1>2, <2>2 DEF Sound, Settled, AxisState
  <2>3. CASE r.seg = "RUN" /\ q = [r EXCEPT !.vel = TRUE]
    BY <2>3 DEF Sound, Settled, AxisState
  <2> QED BY <1>2, <2>1, <2>2, <2>3 DEF Stepped
<1> QED BY <1>1, <1>2

LEMMA ArrivedFacts ==
  ASSUME NEW r, Sound(r), r.seg = "DONE", r.mode = "POS"
  PROVE  /\ Sound(Arrived(r)) /\ Keeps(r, Arrived(r))
         /\ Arrived(r).asked = r.asked
         /\ r.asked = "stop" => Arrived(r).seg = "DONE"
         /\ Arrived(r).homing # r.homing => Arrived(r).goal = "far"
<1> DEFINE d == [r EXCEPT !.velocity = FALSE, !.motion_busy = FALSE]
<1>1. /\ Sound(d) /\ d \in AxisState /\ ~Moving(d)
      /\ d.asked = r.asked /\ d.homing = r.homing /\ d.seg = "DONE"
  BY DEF Sound, Settled, AxisState, Moving
<1>2. ASSUME NEW s \in Signs, r.asked # "stop", Arrived(r) = ApplyVelocity(d, s) PROVE
        /\ Sound(Arrived(r)) /\ Keeps(r, Arrived(r))
        /\ Arrived(r).asked = r.asked
        /\ Arrived(r).homing # r.homing => Arrived(r).goal = "far"
  <2>0. ~Reverses(d, s)
    BY <1>1 DEF Reverses
  <2>1. /\ ApplyVelocity(d, s) \in AxisState
        /\ ApplyVelocity(d, s).homing = "no" /\ ApplyVelocity(d, s).motion_busy
        /\ ApplyVelocity(d, s).asked = r.asked /\ ApplyVelocity(d, s).goal = "far"
    BY <1>1, ApplyVelocityType
  <2> HIDE DEF d
  <2> QED BY <1>2, <2>1 DEF Sound, Keeps
<1>3. CASE r.pending # 0
  <2>1. r.asked # "stop" /\ r.pending \in Signs /\ Arrived(r) = ApplyVelocity(d, r.pending)
    BY <1>3 DEF Arrived, Sound, Settled, AxisState, Signs
  <2> QED BY <1>2, <2>1
<1>4. CASE r.pending = 0 /\ r.direction # 0
  <2>1. r.asked # "stop" /\ r.direction \in Signs /\ Arrived(r) = ApplyVelocity(d, r.direction)
    BY <1>4 DEF Arrived, Sound, Settled, AxisState, Signs
  <2> QED BY <1>2, <2>1
<1>5. CASE r.pending = 0 /\ r.direction = 0
  <2>1. Arrived(r) = d
    BY <1>5 DEF Arrived
  <2> QED BY <1>1, <2>1 DEF Keeps
<1> QED BY <1>3, <1>4, <1>5

\* What the control cycle leaves of an axis.
LEMMA ControlFacts ==
  ASSUME NEW a \in Axes, Sound(axis[a]), NEW r \in ControlCycle(a)
  PROVE  /\ Sound(r) /\ Keeps(axis[a], r) /\ Quiet(axis[a], r)
         /\ r.homing # axis[a].homing /\ r.asked = "zero" => r.goal = "far"
<1>1. CASE fault[a]
  <2>1. r = Faulted(axis[a])
    BY <1>1 DEF ControlCycle
  <2> QED BY <2>1 DEF Faulted, Sound, Settled, AxisState, Keeps, Quiet
<1>2. CASE ~fault[a] /\ axis[a].mode = "POS"
  <2>1. PICK q \in Stepped(axis[a]) :
          r = IF q.seg = "DONE" /\ axis[a].seg # "DONE" THEN Arrived(q)
              ELSE [q EXCEPT !.velocity = q.vel]
    BY <1>2 DEF ControlCycle
  <2>2. /\ Sound(q) /\ q.homing = axis[a].homing /\ q.mode = "POS"
        /\ q.asked = axis[a].asked /\ (axis[a].seg # "RUN" => q.seg # "RUN")
    BY <1>2, SteppedFacts
  <2>3. CASE q.seg = "DONE" /\ axis[a].seg # "DONE"
    <3>1. r = Arrived(q)
      BY <2>1, <2>3
    <3>2. /\ Sound(r) /\ Keeps(q, r) /\ (q.asked = "stop" => r.seg = "DONE")
          /\ r.homing # q.homing => r.goal = "far"
      BY <2>2, <2>3, <3>1, ArrivedFacts
    <3> QED BY <2>2, <3>2 DEF Keeps, Quiet
  <2>4. CASE ~(q.seg = "DONE" /\ axis[a].seg # "DONE")
    <3>1. r = [q EXCEPT !.velocity = q.vel]
      BY <2>1, <2>4
    <3> QED BY <2>2, <3>1 DEF Sound, Settled, AxisState, Keeps, Quiet
  <2> QED BY <2>3, <2>4
<1>3. CASE ~fault[a] /\ axis[a].mode # "POS"
  <2>1. r = axis[a] \/ r = [axis[a] EXCEPT !.velocity = FALSE]
    BY <1>3 DEF ControlCycle
  <2> QED BY <2>1 DEF Sound, Settled, AxisState, Keeps, Quiet
<1> QED BY <1>1, <1>2, <1>3

\* The second homing phase and the end of a homing keep a record sound.
LEMMA CheckedFacts ==
  ASSUME NEW r, Sound(r), NEW s \in {-1, 1}
  PROVE  /\ Sound([r EXCEPT !.homing = "no"])
         /\ r.homing = "fast" => r.asked # "stop" /\ Sound([Planned(r, s, "point") EXCEPT !.homing = "creep"])
<1>1. Sound([r EXCEPT !.homing = "no"])
  BY DEF Sound, Settled, AxisState
<1>2. ASSUME r.homing = "fast"
      PROVE  r.asked # "stop" /\ Sound([Planned(r, s, "point") EXCEPT !.homing = "creep"])
  <2>1. r \in AxisState /\ r.asked \notin {"jog", "position", "stop"}
    BY <1>2 DEF Sound, Settled
  <2> QED BY <2>1 DEF Sound, Planned, AxisState
<1> QED BY <1>1, <1>2

LEMMA ResetSound ==
  ASSUME NEW r, Sound(r)
  PROVE  Sound(ResetDone(r)) /\ ResetDone(r).homing = r.homing /\ ResetDone(r).asked = "none"
BY DEF ResetDone, Sound, AxisState

-----------------------------------------------------------------------------
\* The inductive invariant.
IInv == TypeOK /\ HomingKnown /\ \A a \in Axes : Sound(axis[a])

\* All axes end their homing in the same step, or none does.
Together ==
  \A a, b \in Axes :
    (/\ axis[a].homing # "no" /\ axis'[a].homing = "no"
     /\ axis'[a].asked = "zero" /\ axis'[a].goal = "point")
    => axis'[b].homing = "no"

\* No step starts an axis that has been stopped.
AllQuiet == \A a \in Axes : Quiet(axis[a], axis'[a])

Promises == Together /\ AllQuiet

LEMMA InitInv == Init => IInv
<1> SUFFICES ASSUME Init PROVE IInv
  OBVIOUS
<1>1. Idle \in AxisState /\ Sound(Idle) /\ Idle.homing = "no"
  BY DEF Idle, AxisState, Sound, Commands
<1>2. \A a \in Axes : axis[a] = Idle
  BY DEF Init
<1>3. TypeOK
  BY <1>1 DEF Init, TypeOK
<1>4. HomingKnown
  BY <1>1, <1>2 DEF HomingKnown
<1> QED BY <1>1, <1>2, <1>3, <1>4 DEF IInv

\* A command that leaves a sound record without a homing.
LEMMA CommandInv ==
  ASSUME IInv, NEW a \in Axes, NEW c \in Commands \ {"zero"}, NEW r \in AxisState,
         r.homing = "no", c \in {"jog", "position"} => r.motion_busy,
         c = "stop" => Settled(r) /\ (axis[a].seg # "RUN" => r.seg # "RUN"),
         Command(a, c, r)
  PROVE  IInv' /\ Promises
<1> DEFINE n == [r EXCEPT !.asked = c]
<1>0. Sound(n)
  BY Commanded
<1>1. /\ Sound(n) /\ n \in AxisState /\ n.homing = "no"
      /\ n.asked = c /\ n.seg = r.seg
  BY <1>0 DEF AxisState, Commands
<1> HIDE DEF n
<1>2. /\ axis' = [axis EXCEPT ![a] = n] /\ fault' = fault
      /\ homing_active' = IF axis[a].homing = "no" THEN homing_active
                          ELSE \E b \in Axes \ {a} : axis[b].homing # "no"
  BY DEF Command, n
<1>3. /\ axis' \in [Axes -> AxisState] /\ axis'[a] = n
      /\ \A b \in Axes \ {a} : axis'[b] = axis[b]
  BY <1>1, <1>2 DEF IInv, TypeOK
<1>4. TypeOK'
  <2>1. homing_active' \in BOOLEAN
    BY <1>2, Zenon DEF IInv, TypeOK
  <2> QED BY <1>2, <1>3, <2>1 DEF IInv, TypeOK
<1>5. HomingKnown'
  BY <1>1, <1>2, <1>3, Zenon DEF IInv, HomingKnown
<1>6. \A b \in Axes : Sound(axis'[b])
  BY <1>1, <1>3 DEF IInv
<1>7. Together
  BY <1>1, <1>3 DEF Together
<1>8. AllQuiet
  BY <1>1, <1>3 DEF AllQuiet, Quiet
<1> QED BY <1>4, <1>5, <1>6, <1>7, <1>8 DEF IInv, Sound, Settled, Promises

LEMMA ZeroInv ==
  ASSUME IInv, NEW a \in Axes, NEW s \in {-1, 0, 1},
         NEW phase \in {"single", "fast", "creep"}, Zero(a, s, phase)
  PROVE  IInv' /\ Promises
<1> DEFINE n == [ApplyZero(axis[a], s, phase) EXCEPT !.asked = "zero"]
<1>1. axis[a] \in AxisState
  BY DEF IInv, TypeOK
<1>2. ApplyZero(axis[a], s, phase) \in AxisState /\ ApplyZero(axis[a], s, phase).homing = phase
  BY <1>1, ApplyZeroType
<1>3. Sound(n) /\ n \in AxisState /\ n.homing # "no" /\ n.asked = "zero"
  BY <1>2 DEF Sound, Settled, AxisState, Commands
<1> HIDE DEF n
<1>4. axis' = [axis EXCEPT ![a] = n] /\ homing_active' = TRUE /\ fault' = fault
  BY DEF Zero, n
<1>5. /\ axis' \in [Axes -> AxisState] /\ axis'[a] = n
      /\ \A b \in Axes \ {a} : axis'[b] = axis[b]
  BY <1>3, <1>4 DEF IInv, TypeOK
<1>6. TypeOK' /\ HomingKnown'
  BY <1>4, <1>5 DEF IInv, TypeOK, HomingKnown
<1>7. \A b \in Axes : Sound(axis'[b])
  BY <1>3, <1>5 DEF IInv
<1>8. Together
  BY <1>3, <1>5 DEF Together
<1>9. AllQuiet
  BY <1>3, <1>5 DEF AllQuiet, Quiet
<1> QED BY <1>6, <1>7, <1>8, <1>9 DEF IInv, Sound, Settled, Promises

\* RESET of the panel and the drive's own steps.
LEMMA DriveInv ==
  ASSUME IInv, NEW a \in Axes, Reset(a) \/ DriveFault(a) \/ DriveClear(a)
  PROVE  IInv' /\ Promises
<1>1. CASE Reset(a)
  <2>1. /\ axis' = [axis EXCEPT ![a].resetting = TRUE]
        /\ homing_active' = homing_active /\ fault' = fault
    BY <1>1 DEF Reset
  <2>2. /\ axis' \in [Axes -> AxisState]
        /\ \A b \in Axes : /\ Sound(axis'[b]) /\ axis'[b].homing = axis[b].homing
                           /\ axis'[b].seg = axis[b].seg
    <3> DEFINE n == [axis[a] EXCEPT !.resetting = TRUE]
    <3>1. Sound(axis[a]) /\ axis[a] \in AxisState
      BY DEF IInv, TypeOK
    <3>2. /\ Sound(n) /\ n \in AxisState /\ n.homing = axis[a].homing
          /\ n.seg = axis[a].seg
      BY <3>1 DEF Sound, Settled, AxisState
    <3>3. axis' = [axis EXCEPT ![a] = n]
      BY <2>1
    <3> HIDE DEF n
    <3> QED BY <3>2, <3>3 DEF IInv, TypeOK
  <2> QED BY <2>1, <2>2 DEF IInv, TypeOK, HomingKnown, Sound, Settled,
                            Promises, Together, AllQuiet, Quiet
<1>2. CASE DriveFault(a) \/ DriveClear(a)
  <2>1. /\ axis' = axis /\ homing_active' = homing_active
        /\ fault' \in [Axes -> BOOLEAN]
    BY <1>2 DEF DriveFault, DriveClear, IInv, TypeOK
  <2> QED BY <2>1 DEF IInv, TypeOK, HomingKnown, Sound, Settled,
                       Promises, Together, AllQuiet, Quiet
<1> QED BY <1>1, <1>2

\* A pass: control cycles, then the homing check, then the resets.
LEMMA CycleInv == ASSUME IInv, Cycle PROVE IInv' /\ Promises
<1>1. PICK next \in [Axes -> UNION {ControlCycle(a) : a \in Axes}],
           at \in SUBSET Axes, back \in SUBSET Axes, ready \in SUBSET Axes :
        /\ \A a \in Axes : next[a] \in ControlCycle(a)
        /\ Pass(next, at, back, ready)
  BY DEF Cycle
<1> DEFINE cancelled == {a \in Axes : axis[a].homing # "no" /\ next[a].homing = "no"}
           active == IF cancelled = {} THEN homing_active
                     ELSE \E a \in Axes : next[a].homing # "no"
           At(a) == a \in at /\ ~next[a].velocity
           switched == {a \in Axes : active /\ next[a].homing = "fast" /\ At(a)}
           homed == /\ active /\ switched = {}
                    /\ \A a \in Axes : next[a].homing # "no" => At(a)
           Checked(a) ==
             IF a \in switched
             THEN [Planned(next[a], IF a \in back THEN -1 ELSE 1, "point")
                     EXCEPT !.homing = "creep"]
             ELSE IF homed THEN [next[a] EXCEPT !.homing = "no"] ELSE next[a]
<1>2. /\ axis' = [a \in Axes |-> IF a \in ready THEN ResetDone(Checked(a)) ELSE Checked(a)]
      /\ homing_active' = (active /\ ~homed) /\ fault' = fault
  BY <1>1, Zenon DEF Pass
<1>3. ASSUME NEW a \in Axes
      PROVE  /\ Sound(next[a]) /\ Keeps(axis[a], next[a]) /\ Quiet(axis[a], next[a])
             /\ next[a].homing # axis[a].homing /\ next[a].asked = "zero" => next[a].goal = "far"
  BY <1>1, ControlFacts DEF IInv
<1>4. \A a \in switched : next[a].homing = "fast"
  OBVIOUS
<1>5. homed => switched = {}
  OBVIOUS
<1>6. active \in BOOLEAN /\ homed \in BOOLEAN
  BY Zenon DEF IInv, TypeOK
<1>7. (\E a \in Axes : next[a].homing # "no") => active
  <2>1. CASE cancelled = {}
    BY <1>3, <2>1, Zenon DEF IInv, HomingKnown, Keeps
  <2>2. CASE cancelled # {}
    BY <2>2, Zenon
  <2> QED BY <2>1, <2>2
<1>8. ASSUME NEW a \in Axes
      PROVE  /\ Sound(Checked(a)) /\ Checked(a).asked = next[a].asked
             /\ Checked(a).homing = IF a \in switched THEN "creep"
                                    ELSE IF homed THEN "no" ELSE next[a].homing
             /\ a \notin switched => Checked(a).goal = next[a].goal
             /\ Checked(a).asked = "stop" => Checked(a).seg = next[a].seg
  <2>1. CASE a \in switched
    <3> DEFINE s == IF a \in back THEN -1 ELSE 1
    <3>1. s \in {-1, 1}
      OBVIOUS
    <3> HIDE DEF s
    <3>2. Checked(a) = [Planned(next[a], s, "point") EXCEPT !.homing = "creep"]
      BY <2>1 DEF s
    <3>3. next[a].asked # "stop" /\ Sound([Planned(next[a], s, "point") EXCEPT !.homing = "creep"])
      BY <1>3, <1>4, <2>1, <3>1, CheckedFacts
    <3> HIDE DEF Checked, switched
    <3> QED BY <1>3, <2>1, <3>2, <3>3 DEF Sound, Planned, AxisState
  <2>2. CASE a \notin switched /\ homed
    <3>1. Checked(a) = [next[a] EXCEPT !.homing = "no"]
      BY <2>2
    <3>2. Sound([next[a] EXCEPT !.homing = "no"])
      BY <1>3, CheckedFacts
    <3> HIDE DEF Checked, switched, homed
    <3> QED BY <1>3, <2>2, <3>1, <3>2 DEF Sound, AxisState
  <2>3. CASE a \notin switched /\ ~homed
    <3>1. Checked(a) = next[a]
      BY <2>3
    <3> HIDE DEF Checked, switched, homed
    <3> QED BY <1>3, <2>3, <3>1
  <2> QED BY <2>1, <2>2, <2>3
<1> HIDE DEF cancelled, active, At, switched, homed, Checked
<1>9. ASSUME NEW a \in Axes
      PROVE  /\ Sound(axis'[a]) /\ axis'[a].homing = Checked(a).homing
             /\ axis'[a].asked # "none" => a \notin ready /\ axis'[a] = Checked(a)
  <2>1. CASE a \in ready
    BY <1>2, <1>8, <2>1, ResetSound
  <2>2. CASE a \notin ready
    BY <1>2, <1>8, <2>2
  <2> QED BY <2>1, <2>2
<1>10. TypeOK'
  <2>1. axis' \in [Axes -> AxisState]
    BY <1>2, <1>9 DEF Sound
  <2>2. homing_active' \in BOOLEAN /\ fault' \in [Axes -> BOOLEAN]
    BY <1>2, <1>6 DEF IInv, TypeOK
  <2> QED BY <2>1, <2>2 DEF TypeOK
<1>11. HomingKnown'
  <2> SUFFICES ASSUME NEW a \in Axes, axis'[a].homing # "no"
               PROVE  homing_active'
    BY DEF HomingKnown
  <2>1. Checked(a).homing # "no"
    BY <1>9
  <2>2. next[a].homing # "no" /\ ~homed
    BY <1>4, <1>5, <1>8, <2>1
  <2> QED BY <1>2, <1>7, <2>2
<1>12. Together
  <2> SUFFICES ASSUME NEW a \in Axes, NEW b \in Axes,
                      axis[a].homing # "no", axis'[a].homing = "no",
                      axis'[a].asked = "zero", axis'[a].goal = "point"
               PROVE  axis'[b].homing = "no"
    BY DEF Together
  <2>1. /\ Checked(a).homing = "no" /\ Checked(a).asked = "zero"
        /\ Checked(a).goal = "point"
    BY <1>9
  <2>2. a \notin switched /\ next[a].asked = "zero" /\ next[a].goal = "point"
    BY <1>8, <2>1
  <2>3. next[a].homing # "no"
    BY <1>3, <2>2
  <2>4. homed
    BY <1>8, <2>1, <2>2, <2>3
  <2>5. Checked(b).homing = "no"
    BY <1>5, <1>8, <2>4
  <2> QED BY <1>9, <2>5
<1>13. AllQuiet
  BY <1>3, <1>8, <1>9 DEF AllQuiet, Quiet
<1> QED BY <1>9, <1>10, <1>11, <1>12, <1>13 DEF IInv, Sound, Settled, Promises

LEMMA NextInv == IInv /\ [Next]_vars => IInv' /\ (Promises \/ UNCHANGED vars)
<1> SUFFICES ASSUME IInv, [Next]_vars PROVE IInv' /\ (Promises \/ UNCHANGED vars)
  OBVIOUS
<1>0. \A a \in Axes : axis[a] \in AxisState
  BY DEF IInv, TypeOK
<1>1. CASE Cycle
  BY <1>1, CycleInv
<1>2. ASSUME NEW a \in Axes, NEW s \in Signs, Jog(a, s) PROVE IInv' /\ Promises
  <2>1. /\ ApplyVelocity(axis[a], s) \in AxisState
        /\ ApplyVelocity(axis[a], s).homing = "no" /\ ApplyVelocity(axis[a], s).motion_busy
    BY <1>0, ApplyVelocityType
  <2> QED BY <1>2, <2>1, CommandInv DEF Jog, Commands
<1>3. ASSUME NEW a \in Axes, Halt(a) PROVE IInv' /\ Promises
  <2>1. Halted(axis[a]) \in AxisState /\ Halted(axis[a]).homing = "no"
    BY <1>0, HaltedType
  <2> QED BY <1>3, <2>1, CommandInv DEF Halt, Commands
<1>4. ASSUME NEW a \in Axes, NEW s \in {-1, 0, 1}, MoveTo(a, s) PROVE IInv' /\ Promises
  <2>1. /\ ApplyPosition(axis[a], s) \in AxisState
        /\ ApplyPosition(axis[a], s).homing = "no" /\ ApplyPosition(axis[a], s).motion_busy
    BY <1>0, ApplyPositionType
  <2> QED BY <1>4, <2>1, CommandInv DEF MoveTo, Commands
<1>5. ASSUME NEW a \in Axes, NEW s \in {-1, 0, 1}, NEW phase \in {"single", "fast", "creep"},
             Zero(a, s, phase)
      PROVE  IInv' /\ Promises
  BY <1>5, ZeroInv
<1>6. ASSUME NEW a \in Axes, NEW smooth \in Smooth,
             Stop(a, smooth) \/ ResetAndStop(a, smooth)
      PROVE  IInv' /\ Promises
  <2> DEFINE r == StopOne(axis[a], smooth)
             q == [r EXCEPT !.resetting = TRUE]
  <2>1. /\ r \in AxisState /\ Settled(r) /\ r.homing = "no"
        /\ axis[a].seg # "RUN" => r.seg # "RUN"
    BY <1>0, StopOneType, SmoothAssumption DEF Settled
  <2>2. q \in AxisState /\ q.homing = "no"
    <3> HIDE DEF r
    <3> QED BY <2>1 DEF AxisState
  <2>3. Command(a, "stop", r) \/ Command(a, "reset", q)
    BY <1>6 DEF Stop, ResetAndStop
  <2> HIDE DEF r, q
  <2> QED BY <2>1, <2>2, <2>3, CommandInv DEF Commands
<1>7. ASSUME NEW a \in Axes, Reset(a) \/ DriveFault(a) \/ DriveClear(a)
      PROVE  IInv' /\ Promises
  BY <1>7, DriveInv
<1>8. CASE UNCHANGED vars
  BY <1>8 DEF vars, IInv, TypeOK, HomingKnown, Sound, Settled
<1> QED BY <1>1, <1>2, <1>3, <1>4, <1>5, <1>6, <1>7, <1>8, Zenon DEF Next

LEMMA Invariance == Spec => []IInv
BY InitInv, NextInv, PTL DEF Spec

\* Every axis record stays within its type, for every number of axes.
THEOREM TypeCorrect == Spec => []TypeOK
<1>1. IInv => TypeOK
  BY DEF IInv
<1> QED BY <1>1, Invariance, PTL

\* No command or pass leaves an axis homing that Axis_CheckHomingDone does not
\* look at (motion_api.c:1146-1204).
THEOREM HomingNeverForgotten == Spec => []HomingKnown
<1>1. IInv => HomingKnown
  BY DEF IInv
<1> QED BY <1>1, Invariance, PTL

\* After a fault or a reset an axis moves again only on a command
\* (motion_api.c:1386-1447, ethercat_task.c:227-247).
THEOREM MovesOnCommand == Spec => []MovesOnlyWhenAsked
<1>1. IInv => MovesOnlyWhenAsked
  BY DEF IInv, Sound, MovesOnlyWhenAsked
<1> QED BY <1>1, Invariance, PTL

\* A jogging or positioning axis is busy, whatever commands, homings and
\* faults came before (motion_api.c:983-1109).
THEOREM BusyWhileMoving == Spec => []MovingIsBusy
<1>1. IInv => MovingIsBusy
  BY DEF IInv, Sound, MovingIsBusy
<1> QED BY <1>1, Invariance, PTL

\* Axis_CheckHomingDone ends the homing of all axes at once.
THEOREM HomingEndsTogether == Spec => HomesTogether
<1>1. IInv /\ [Next]_vars =>
        [\A a, b \in Axes :
          (/\ axis[a].homing # "no" /\ axis'[a].homing = "no"
           /\ axis'[a].asked = "zero" /\ axis'[a].goal = "point")
          => axis'[b].homing = "no"]_vars
  BY NextInv DEF Promises, Together
<1> QED BY <1>1, Invariance, PTL DEF Spec, HomesTogether

\* Axis_StopOne clears all that could start the axis again once its planner
\* decelerates or rests (motion_api.c:881-974).
THEOREM StopsForGood == Spec => StopIsFinal
<1>1. IInv /\ [Next]_vars =>
        [\A a \in Axes :
           (axis[a].asked = "stop" /\ axis'[a].asked = "stop" /\ axis[a].seg # "RUN")
           => axis'[a].seg # "RUN"]_vars
  BY NextInv DEF Promises, AllQuiet, Quiet
<1> QED BY <1>1, Invariance, PTL DEF Spec, StopIsFinal
=============================================================================
