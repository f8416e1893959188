----------------------------- MODULE SCurvePlan -----------------------------
(***************************************************************************)
(* The pure part of the S-curve planner of User/Src/motion_profile.c: the  *)
(* discrete simulation of a seven segment profile and the arithmetic that  *)
(* SCurve_Plan and SCurve_Stop do once, before a motion or a deceleration  *)
(* starts.  Positions are relative to the start of the motion; velocities  *)
(* are counts per control cycle, as in the code.                           *)
(***************************************************************************)
EXTENDS Integers, FiniteSetsExt

Abs(x) == IF x < 0 THEN -x ELSE x

AtMost(x, hi) == IF x > hi THEN hi ELSE x

AtLeast(x, lo) == IF x < lo THEN lo ELSE x

Clamp(x, lo, hi) == AtLeast(AtMost(x, hi), lo)

\* The powers of the function f.  The recursion halves the exponent, so that it
\* stays shallow.
Power(f) ==
  LET g[k \in Nat] ==
        IF k = 0 THEN [s \in DOMAIN f |-> s] ELSE IF k = 1 THEN f
        ELSE [s \in DOMAIN f |-> g[k - k \div 2][g[k \div 2][s]]]
  IN  g

\* A counted loop of n cycles, whose body is f.
Iterate(f, s, n) == Power(f)[n][s]

\* A loop whose body f runs as long as the state is in C.
While(f, C) ==
  LET loop[s \in DOMAIN f] == IF s \in C THEN loop[f[s]] ELSE s
  IN  loop

SimState == [pos : Int, vel : Int, acc : Int]

\* The fields of SCurvePlanner_t that SCurve_Plan computes.
PlanFields ==
  [direction : {-1, 0, 1}, max_vel : Nat, max_acc : Nat, jerk : Nat,
   Tj : Nat, Ta : Nat, Tv : Nat, Td : Nat, Tj2 : Nat, decel_dist : Nat,
   v_at_dec_start : Nat]

-----------------------------------------------------------------------------
\* One cycle of a simulated segment: the acceleration changes by da within
\* lo..hi, the velocity by the new acceleration within 0..mv.
SimCycle(s, da, lo, hi, mv) ==
  LET a == Clamp(s.acc + da, lo, hi)
      v == Clamp(s.vel + a, 0, mv)
  IN  [acc |-> a, vel |-> v, pos |-> s.pos + v]

Ramp(s, n, da, lo, hi, mv) ==
  Iterate([r \in SimState |-> SimCycle(r, da, lo, hi, mv)], s, n)

Rest == [pos |-> 0, vel |-> 0, acc |-> 0]

\* Jerk up, constant acceleration, jerk down, from rest.
SimAccelPhase(tj, ta, amax, jerk, mv) ==
  LET up   == Ramp(Rest, tj, jerk, 0, amax, mv)
      flat == Ramp(up, ta, 0, 0, amax, mv)
  IN  Ramp(flat, tj, -jerk, 0, amax, mv)

\* The mirror image, from the state s down to rest.
SimDecel(s, tj2, td, amax, jerk, mv) ==
  LET up   == Ramp(s, tj2, -jerk, -amax, 0, mv)
      flat == Ramp(up, td, 0, -amax, 0, mv)
  IN  Ramp(flat, tj2, jerk, -amax, 0, mv)

SimDecelDist(cruise, tj2, td, amax, jerk) ==
  SimDecel([Rest EXCEPT !.vel = cruise], tj2, td, amax, jerk, cruise).pos

\* The displacement of the whole profile q.
SCurve_SimulateDisp(q) ==
  LET a == SimAccelPhase(q.Tj, q.Ta, q.max_acc, q.jerk, q.max_vel)
      c == [a EXCEPT !.pos = @ + a.vel * q.Tv]
  IN  SimDecel(c, q.Tj2, q.Td, q.max_acc, q.jerk, q.max_vel).pos

\* Integer cube root: a power of two to start from, then five Newton steps.
Doubled(x) ==
  While([r \in Nat \ {0} |-> 2 * r], {r \in Nat \ {0} : r * r * r < x})[1]

icbrt(x) ==
  IF x <= 0 THEN 0
  ELSE Iterate([r \in Nat \ {0} |-> (2 * r + x \div (r * r)) \div 3],
               AtLeast(Doubled(x) \div 2, 1), 5)

-----------------------------------------------------------------------------
\* The profile q with jerk time t: Tj2 and the peak acceleration follow.
WithTj(q, t) == [q EXCEPT !.Tj = t, !.Tj2 = t, !.max_acc = t * q.jerk]

\* Step 2: the longest jerk time whose end velocity does not exceed max_vel.
JerkTime(mv, ma, jerk) ==
  Max({1} \cup {t \in 1..(ma \div jerk) : (jerk * t * (t + 1)) \div 2 <= mv})

\* Step 5, short travel: from the cube root guess, up to the first jerk time
\* that reaches disp, then down until it is no longer passed.
ShortTj(q, disp) ==
  LET sim == [t \in Nat |-> SCurve_SimulateDisp(WithTj(q, t))]
      guess == AtLeast(icbrt(disp \div (2 * q.jerk)), 1)
      up == While([t \in Nat |-> t + 1], {t \in Nat : sim[t] < disp})[guess]
  IN  While([t \in Int |-> t - 1], {t \in Nat : t > 1 /\ sim[t] > disp})[up]

\* Step 6: whole cycles of constant velocity are added for a displacement
\* that is too short; a short profile that is too long loses up to six jerk
\* cycles.
Corrected(q, disp) ==
  LET err == disp - SCurve_SimulateDisp(q)
      longer == IF err > 0 THEN [q EXCEPT !.Tv = @ + err \div q.max_vel] ELSE q
      shrink == [r \in PlanFields |->
                   IF disp < SCurve_SimulateDisp(r) /\ r.Tj > 1
                   THEN WithTj(r, r.Tj - 1) ELSE r]
  IN  IF q.Ta = 0 THEN Iterate(shrink, longer, 6) ELSE longer

\* The fields when there is nowhere to go: only the limits are set.
NoProfile(mv, ma, jerk) ==
  [direction |-> 0, max_vel |-> mv, max_acc |-> ma, jerk |-> jerk,
   Tj |-> 0, Ta |-> 0, Tv |-> 0, Td |-> 0, Tj2 |-> 0, decel_dist |-> 0,
   v_at_dec_start |-> 0]

\* SCurve_Plan for a displacement disp # 0: the profile of the motion.
Profile(disp, mv, ma, jerk) ==
  LET tj   == JerkTime(mv, ma, jerk)
      amax == tj * jerk
      ta   == AtLeast(mv \div amax - tj, 0)
      accel == SimAccelPhase(tj, ta, amax, jerk, mv)
      decel == SimDecelDist(accel.vel, tj, ta, amax, jerk)
      base == [direction |-> IF disp < 0 THEN -1 ELSE 1,
               max_vel |-> mv, max_acc |-> amax, jerk |-> jerk,
               Tj |-> tj, Ta |-> 0, Tv |-> 0, Td |-> 0, Tj2 |-> tj,
               decel_dist |-> decel, v_at_dec_start |-> 0]
      d    == Abs(disp)
      full == [base EXCEPT !.Ta = ta, !.Td = ta,
                           !.Tv = (d - accel.pos - decel) \div accel.vel]
      tri  == WithTj(base, ShortTj(base, d))
      peak == SimAccelPhase(tri.Tj, 0, tri.max_acc, jerk, mv).vel
      short == [tri EXCEPT !.decel_dist =
                  SimDecelDist(peak, tri.Tj2, 0, tri.max_acc, jerk)]
  IN  Corrected(IF d >= accel.pos + decel /\ ta > 0 THEN full ELSE short, d)

-----------------------------------------------------------------------------
\* SCurve_Stop: jerk time, length of the constant deceleration and distance
\* to rest from velocity v.
StopTj2(ma, jerk) == AtLeast(ma \div jerk, 1)

StopTd(v, ma, jerk) ==
  LET n  == StopTj2(ma, jerk)
      vc == Ramp([Rest EXCEPT !.vel = v], n, -jerk, -ma, 0, v).vel
      entry == ma * n - (jerk * n * (n - 1)) \div 2
  IN  AtLeast(vc - entry, 0) \div ma

\* Mutant of StopDist: forgets the cycles of constant deceleration.
StopDistNoFlat(v, ma, jerk) ==
  LET n  == StopTj2(ma, jerk)
      up == Ramp([Rest EXCEPT !.vel = v], n, -jerk, -ma, 0, v)
  IN  Ramp(up, n, jerk, -ma, 0, v).pos

\* n cycles of constant deceleration ma, whatever acceleration was reached.
Flat(s, n, ma, mv) ==
  Iterate([r \in SimState |-> LET w == Clamp(r.vel - ma, 0, mv)
                              IN  [acc |-> r.acc, vel |-> w, pos |-> r.pos + w]], s, n)

StopDist(v, ma, jerk) ==
  LET n    == StopTj2(ma, jerk)
      up   == Ramp([Rest EXCEPT !.vel = v], n, -jerk, -ma, 0, v)
      flat == Flat(up, StopTd(v, ma, jerk), ma, v)
  IN  Ramp(flat, n, jerk, -ma, 0, v).pos

-----------------------------------------------------------------------------
\* The limits motion_api.c computes for a speed in RPM and a drive of ppr
\* pulses per revolution.
RPM_to_CycleVel(rpm, ppr) == (rpm * ppr + 6000) \div 12000

\* Axis_ApplyVelocity, and Axis_StopOne for the axis's pos_step.
JogLimits(step) ==
  LET ma == AtLeast(step \div 80, 50)
  IN  [max_vel |-> step, max_acc |-> ma, jerk |-> AtLeast(ma \div 12, 1)]

\* SCurve_AutoAccJerk: below 160000 counts per cycle the square root never
\* exceeds S_ACCEL_MIN, so only the axis's cap (0: none) lowers it.
AutoLimits(step, acc_cap) ==
  LET ma == IF acc_cap > 0 THEN AtMost(400, acc_cap) ELSE 400
  IN  [max_vel |-> step, max_acc |-> ma, jerk |-> AtLeast(ma \div 400, 1)]

\* Axis_ApplyPosition of the R axis: a trapezoid, jerk = max_acc.
RotaryLimits(step, acc_cap) ==
  [AutoLimits(step, acc_cap) EXCEPT !.jerk = AutoLimits(step, acc_cap).max_acc]

-----------------------------------------------------------------------------
\* Interp_Line estimates the way of an acceleration, with the limits lim of the
\* line's feed, by a jerk time of its own: that of SCurve_Plan is longer.
LineJerkTime(lim) ==
  Max({1} \cup {t \in 1..(lim.max_acc \div lim.jerk) :
                  (lim.max_acc + lim.jerk) * t <= lim.max_vel})

\* A line over the way d is too short to accelerate to v and back.
TooShort(d, v, lim) ==
  LET tj   == LineJerkTime(lim)
      v_tj == (lim.jerk * tj * (tj + 1)) \div 2
      ta   == AtLeast(v - v_tj, 0) \div (tj * lim.jerk)
  IN  d < 2 * v * (tj + ta)

\* What a feed that is too high is lowered by, time after time.
FeedCut(lim) == lim.max_vel \div 20

\* A cut of nothing: the loop of Interp_Line does not end.
Crawls(d, lim) == TooShort(d, lim.max_vel, lim) /\ FeedCut(lim) = 0

\* The feed that it ends with otherwise, at least a quarter of the one asked for.
LineFeed(d, lim) ==
  LET cut == While([v \in Int |-> v - FeedCut(lim)], {v \in Nat \ {0} : TooShort(d, v, lim)})
  IN  AtLeast(cut[lim.max_vel], lim.max_vel \div 4)

\* The limits of a line over the way d that does not crawl.
LineLimits(d, step, acc_cap) ==
  AutoLimits(LineFeed(d, AutoLimits(step, acc_cap)), acc_cap)
=============================================================================
