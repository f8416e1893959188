------------------------------- MODULE SCurve -------------------------------
(***************************************************************************)
(* One S-curve planner of User/Src/motion_profile.c, as the control cycle  *)
(* and the commands of motion_api.c drive it: SCurve_Plan starts a motion, *)
(* SCurve_Step runs once per control cycle, SCurve_Stop (alone, or with    *)
(* the parameters Axis_StopOne writes first) turns any motion into a       *)
(* deceleration.  A new plan starts at position 0: positions only enter    *)
(* the code as differences.                                                *)
(***************************************************************************)
EXTENDS SCurvePlan

CONSTANTS Motions,     \* <<displacement, limits>>: arguments of SCurve_Plan
          StopLimits,  \* [max_vel, max_acc, jerk] that Axis_StopOne writes
          StopThresh,  \* SCURVE_STOP_THRESH: speed at which landing may snap
          MaxSpeed     \* no motion is planned faster

VARIABLES segment, seg_elapsed, start_pos, target_pos, current_pos,
          current_vel, current_acc,
          p,           \* the other fields of the planner
          limits       \* history: has a stop changed those of a deceleration?

vars == <<segment, seg_elapsed, start_pos, target_pos, current_pos,
          current_vel, current_acc, p, limits>>

LimitSet == [max_vel : 1..MaxSpeed, max_acc : Nat \ {0}, jerk : Nat \ {0}]

MovingFields ==
  {q \in PlanFields : /\ q.direction # 0 /\ q.max_vel \in 1..MaxSpeed
                      /\ q.max_acc > 0 /\ q.jerk > 0}

\* The results of SCurve_Plan for the motions of the instance.
Plans ==
  {[disp |-> m[1],
    fields |-> IF m[1] = 0 THEN NoProfile(m[2].max_vel, m[2].max_acc, m[2].jerk)
               ELSE Profile(m[1], m[2].max_vel, m[2].max_acc, m[2].jerk)] : m \in Motions}

ASSUME ConstantAssumption ==
  /\ MaxSpeed \in Nat /\ StopThresh \in Nat
  /\ Motions \subseteq Int \X LimitSet
  /\ StopLimits \subseteq LimitSet

Accelerating == {"ACC_JERK_UP", "ACC_CONST", "ACC_JERK_DOWN"}
Decelerating == {"DEC_JERK_UP", "DEC_CONST", "DEC_JERK_DOWN"}
Segments == Accelerating \cup {"CONST_VEL"} \cup Decelerating \cup {"DONE"}

\* SCurve_Init.
Init ==
  /\ segment = "DONE" /\ seg_elapsed = 0
  /\ start_pos = 0 /\ target_pos = 0
  /\ current_pos = 0 /\ current_vel = 0 /\ current_acc = 0
  /\ p = [NoProfile(0, 0, 0) EXCEPT !.direction = 1]
  /\ limits = "kept"

\* SCurve_Plan, also in the middle of a motion: the velocity restarts at 0.
Plan(plan) ==
  /\ start_pos' = 0 /\ target_pos' = plan.disp /\ current_pos' = 0
  /\ current_vel' = 0 /\ current_acc' = 0 /\ seg_elapsed' = 0
  /\ segment' = IF plan.disp = 0 THEN "DONE" ELSE "ACC_JERK_UP"
  /\ p' = plan.fields /\ limits' = "kept"

-----------------------------------------------------------------------------
\* Mutant of Integrate: lands on the target from any distance.
IntegrateAnywhere(v, a, s, e) ==
  LET pos  == current_pos + v * p.direction
      snap == v <= StopThresh /\ s # "DONE"
  IN  /\ current_pos' = IF snap THEN target_pos ELSE pos
      /\ current_vel' = IF snap THEN 0 ELSE v
      /\ current_acc' = IF snap THEN 0 ELSE a
      /\ segment' = IF snap THEN "DONE" ELSE s
      /\ seg_elapsed' = e /\ UNCHANGED <<p, start_pos, target_pos, limits>>

\* The end of SCurve_Step: velocity v and acceleration a are the segment's
\* result, s and e the segment and elapsed cycles it leaves.  The position
\* advances by v; a slow profile within two counts of the target lands on it.
Integrate(v, a, s, e) ==
  LET pos  == current_pos + v * p.direction
      snap == v <= StopThresh /\ Abs(target_pos - pos) <= 2 /\ s # "DONE"
  IN  /\ current_pos' = IF snap THEN target_pos ELSE pos
      /\ current_vel' = IF snap THEN 0 ELSE v
      /\ current_acc' = IF snap THEN 0 ELSE a
      /\ segment' = IF snap THEN "DONE" ELSE s
      /\ seg_elapsed' = e
      /\ p' = IF s = "DEC_JERK_UP" /\ segment # s
              THEN [p EXCEPT !.v_at_dec_start = v] ELSE p
      /\ UNCHANGED <<start_pos, target_pos, limits>>

\* Stay in the segment for `duration' cycles, then go to next.
Timed(v, a, duration, next) ==
  IF seg_elapsed + 1 >= duration THEN Integrate(v, a, next, 0)
  ELSE Integrate(v, a, segment, seg_elapsed + 1)

AccJerkUp ==
  /\ segment = "ACC_JERK_UP"
  /\ LET a == AtMost(current_acc + p.jerk, p.max_acc)
         v == AtMost(current_vel + a, p.max_vel)
     IN  Timed(v, a, p.Tj, IF p.Ta > 0 THEN "ACC_CONST"
                           ELSE IF v >= p.max_vel THEN "CONST_VEL"
                           ELSE "ACC_JERK_DOWN")

AccConst ==
  /\ segment = "ACC_CONST"
  /\ Timed(AtMost(current_vel + p.max_acc, p.max_vel), current_acc, p.Ta, "ACC_JERK_DOWN")

AccJerkDown ==
  /\ segment = "ACC_JERK_DOWN"
  /\ LET a == AtLeast(current_acc - p.jerk, 0)
         v == AtMost(current_vel + a, p.max_vel)
         next == IF p.Tv > 0 THEN "CONST_VEL" ELSE "DEC_JERK_UP"
     IN  IF seg_elapsed + 1 >= p.Tj \/ a = 0 THEN Integrate(v, 0, next, 0)
         ELSE Integrate(v, a, segment, seg_elapsed + 1)

\* The distance left decides when the deceleration starts.
Remaining == (target_pos - current_pos) * (IF p.direction > 0 THEN 1 ELSE -1)

\* Mutant of ConstVel: starts to decelerate one cycle late.
ConstVelLate ==
  /\ segment = "CONST_VEL"
  /\ IF Remaining + current_vel <= p.decel_dist
     THEN Integrate(current_vel, 0, "DEC_JERK_UP", 0)
     ELSE Integrate(current_vel, 0, segment, seg_elapsed + 1)

ConstVel ==
  /\ segment = "CONST_VEL"
  /\ IF Remaining - current_vel <= p.decel_dist
     THEN Integrate(current_vel, 0, "DEC_JERK_UP", 0)
     ELSE Integrate(current_vel, 0, segment, seg_elapsed + 1)

DecJerkUp ==
  /\ segment = "DEC_JERK_UP"
  /\ LET a == AtLeast(current_acc - p.jerk, -p.max_acc)
     IN  Timed(AtLeast(current_vel + a, 0), a, p.Tj2,
               IF p.Td > 0 THEN "DEC_CONST" ELSE "DEC_JERK_DOWN")

\* Mutant of DecConst: the elapsed cycles are not counted.
DecConstUncounted ==
  /\ segment = "DEC_CONST"
  /\ LET v == AtLeast(current_vel - p.max_acc, 0)
     IN  IF seg_elapsed + 1 >= p.Td THEN Integrate(v, current_acc, "DEC_JERK_DOWN", 0)
         ELSE Integrate(v, current_acc, segment, seg_elapsed)

DecConst ==
  /\ segment = "DEC_CONST"
  /\ Timed(AtLeast(current_vel - p.max_acc, 0), current_acc, p.Td, "DEC_JERK_DOWN")

\* Mutant of DecJerkDown: the acceleration may pass zero.
DecJerkDownUnclamped ==
  /\ segment = "DEC_JERK_DOWN"
  /\ LET a == current_acc + p.jerk
         v == AtLeast(current_vel + a, 0)
     IN  IF seg_elapsed + 1 >= p.Tj2 \/ v <= p.jerk THEN Integrate(0, 0, "DONE", 0)
         ELSE Integrate(v, a, segment, seg_elapsed + 1)

\* The last velocity is dropped before it is integrated.
DecJerkDown ==
  /\ segment = "DEC_JERK_DOWN"
  /\ LET a == AtMost(current_acc + p.jerk, 0)
         v == AtLeast(current_vel + a, 0)
     IN  IF seg_elapsed + 1 >= p.Tj2 \/ v <= p.jerk THEN Integrate(0, 0, "DONE", 0)
         ELSE Integrate(v, a, segment, seg_elapsed + 1)

\* SCurve_Step of a planner that is not done.
Step ==
  \/ AccJerkUp \/ AccConst \/ AccJerkDown \/ ConstVel
  \/ DecJerkUp \/ DecConst \/ DecJerkDown
-----------------------------------------------------------------------------
\* SCurve_Stop with the fields q: a planner already decelerating only takes
\* the fields, one that has not moved yet is done.
StopFrom(q) ==
  \/ /\ segment \in Decelerating
     /\ p' = q /\ limits' = IF q = p THEN limits ELSE "changed"
     /\ UNCHANGED <<segment, seg_elapsed, start_pos, target_pos, current_pos,
                    current_vel, current_acc>>
  \/ /\ segment \in Accelerating \cup {"CONST_VEL"}
     /\ current_vel = 0
     /\ p' = q /\ segment' = "DONE" /\ current_acc' = 0
     /\ UNCHANGED <<seg_elapsed, start_pos, target_pos, current_pos, current_vel,
                    limits>>
  \/ /\ segment \in Accelerating \cup {"CONST_VEL"}
     /\ current_vel > 0
     /\ LET dist == StopDist(current_vel, q.max_acc, q.jerk)
        IN  /\ target_pos' = current_pos + q.direction * dist
            /\ p' = [q EXCEPT !.Tj2 = StopTj2(q.max_acc, q.jerk),
                              !.Td = StopTd(current_vel, q.max_acc, q.jerk),
                              !.decel_dist = dist,
                              !.v_at_dec_start = current_vel]
     /\ start_pos' = current_pos
     /\ segment' = "DEC_JERK_UP" /\ seg_elapsed' = 0 /\ current_acc' = 0
     /\ UNCHANGED <<current_pos, current_vel, limits>>

Stop == StopFrom(p)

\* Axis_StopOne of a moving axis: limits recomputed from the axis's present
\* positioning speed (the speed limit only for a smooth stop), then SCurve_Stop.
StopOne(r) ==
  /\ current_vel > 0
  /\ \E mv \in {r.max_vel, p.max_vel} :
       StopFrom([p EXCEPT !.max_vel = mv, !.max_acc = r.max_acc, !.jerk = r.jerk])

Next ==
  \/ \E plan \in Plans : Plan(plan)
  \/ Step
  \/ Stop
  \/ \E r \in StopLimits : StopOne(r)

Fairness == WF_vars(Step)

Spec == Init /\ [][Next]_vars /\ Fairness
-----------------------------------------------------------------------------
TypeOK ==
  /\ segment \in Segments /\ seg_elapsed \in Nat
  /\ start_pos \in Int /\ target_pos \in Int /\ current_pos \in Int
  /\ current_vel \in 0..MaxSpeed /\ current_acc \in Int
  /\ p \in PlanFields /\ limits \in {"kept", "changed"}

\* A control cycle never moves the commanded position backwards by more than
\* the landing window, nor forwards by more than the speed limit in force:
\* the drive reports 0x6320 on a jump (motion_profile.c:509).
StepIncrement ==
  [][Step => LET inc == (current_pos' - current_pos) * p.direction
             IN  -2 <= inc /\ inc <= AtLeast(current_vel, p.max_vel) + 2]_vars

\* Once a planner decelerates, whatever stop or retuned stop arrives, its
\* velocity never rises again and it never leaves the deceleration but to be
\* done, until a new plan.
DecelOnly ==
  [][~(\E plan \in Plans : Plan(plan)) /\ segment \in Decelerating
       => /\ current_vel' <= current_vel
          /\ segment' \in Decelerating \cup {"DONE"}]_vars

\* A stop whose limits nothing changed ends at the position SCurve_Stop announced
\* as the target, or short of it by at most three steps of full deceleration: the
\* simulation counts the last cycle, which SCurve_Step drops.
StopLands ==
  segment = "DONE" /\ start_pos # 0 /\ limits = "kept" => Remaining \in 0..(3 * p.max_acc)

\* The deceleration is that of the plan.
AsPlanned == start_pos = 0 /\ limits = "kept"

\* A planned motion that runs to its end lands less than a cycle of travel
\* beyond its target, and less than that and a step of the jerk short of it: what
\* Axis_ControlCycle then aligns (motion_api.c:1508-1518).  The shortest profile
\* covers twice its first step; a shorter displacement is passed by it.
Residual ==
  [][/\ DecJerkDown /\ segment' = "DONE" /\ AsPlanned
     /\ Abs(target_pos) >= 2 * AtMost(p.jerk, p.max_vel)
     => LET left == (target_pos - current_pos') * p.direction
        IN  -p.max_vel < left /\ left < p.max_vel + p.jerk]_vars

\* "The residual error is always smaller than one cycle of travel; holds for
\* homing and all positionings" (motion_api.c:1511-1512).
ResidualAligned ==
  [][DecJerkDown /\ segment' = "DONE" /\ AsPlanned
       => Abs(target_pos - current_pos') <= p.max_vel]_vars

\* A planner that is stepped and not replanned for ever reaches DONE, also
\* when stops interrupt it: a stuck planner leaves motion_busy set.
Finishes ==
  []<><<\E plan \in Plans : Plan(plan)>>_vars \/ <>[](segment = "DONE")
=============================================================================
