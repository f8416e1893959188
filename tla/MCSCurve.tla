------------------------------ MODULE MCSCurve ------------------------------
(***************************************************************************)
(* Instances of SCurve with the limits the firmware computes: 50000 pulses *)
(* per revolution on X, Y and Z, 36000 on a rotary R axis.                 *)
(***************************************************************************)
EXTENDS SCurve

Linear(rpm) == RPM_to_CycleVel(rpm, 50000)
Rotary(rpm) == RPM_to_CycleVel(rpm, 36000)

\* Jogs and positionings at 1 to 200 RPM: full profiles (26000 at 200 RPM,
\* 900 under an acceleration cap of 3), triangles, single counts, one
\* that passes its target (4000 at 20 RPM), and lines whose feed was lowered.
LinearMotions ==
  {0, 40, 5000, -26000} \X {JogLimits(Linear(200))}
  \cup {-700, 3, 4000} \X {JogLimits(Linear(10)), AutoLimits(Linear(20), 0)}
  \cup {3000} \X {AutoLimits(Linear(200), 0)}
  \cup {1, 900} \X {AutoLimits(Linear(10), 3)}
  \cup {1, 2, -6, 13} \X {AutoLimits(Linear(1), 1)}
  \cup {700, 5000} \X {RotaryLimits(Rotary(100), 0)}
  \cup {<<30, LineLimits(30, Linear(5), 0)>>, <<900, LineLimits(900, Linear(200), 0)>>}

\* Without a cap a line crawls below 20 counts per cycle (5 RPM with 50000 pulses
\* per revolution) and twice the square of its feed; otherwise it gets a feed that
\* suits its way, or a quarter of the one asked for.
ASSUME LinesCrawl ==
  \A step \in 1..40, d \in 1..800 :
    LET lim == AutoLimits(step, 0)
    IN  /\ Crawls(d, lim) <=> step < 20 /\ d < 2 * step * step
        /\ ~Crawls(d, lim) =>
             /\ LineFeed(d, lim) \in 1..step
             /\ ~TooShort(d, LineFeed(d, lim), lim) \/ LineFeed(d, lim) = step \div 4

\* Axis_StopOne after the positioning speed was set to 20 or 200 RPM.
StopSettings == {JogLimits(Linear(200)), JogLimits(Linear(20))}

\* A positioning of R by one degree at 100 RPM.
OneDegree == {100} \X {RotaryLimits(Rotary(100), 0)}

None == {}
SlowMax == Linear(200)
=============================================================================
