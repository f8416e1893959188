-------------------------- MODULE LineMotion_proof --------------------------
(***************************************************************************)
(* Proofs about LineMotion, for every number of axes and every set of      *)
(* lines, about ArcMotion, for every set of arcs, and about HomingMotion.   *)
(***************************************************************************)
EXTENDS ArcMotion, HomingMotion, WellFoundedInduction, TLAPS

\* The least element of a set of natural numbers is in it.
LEMMA LeastNatural ==
  ASSUME NEW S, S \subseteq Nat, S # {}
  PROVE  \E n \in S : \A k \in S : n <= k
<1>1. IsWellFoundedOn(OpToRel(<, Nat), Nat)
  BY NatLessThanWellFounded
<1>2. PICK n \in S : \A k \in S : ~(<<k, n>> \in OpToRel(<, Nat))
  <2> DEFINE R == OpToRel(<, Nat)
  <2>1. IsWellFoundedOn(R, Nat)
    BY <1>1
  <2> HIDE DEF R
  <2>2. \E n \in S : \A k \in S : ~(<<k, n>> \in R)
    BY <2>1, WFMin
  <2> QED BY <2>2 DEF R
<1>3. \A k \in S : n <= k
  <2> TAKE k \in S
  <2>1. ~(k < n)
    BY <1>2 DEF OpToRel
  <2> QED BY <2>1
<1> QED BY <1>3

LEMMA MinIsLeast ==
  ASSUME NEW S, S \subseteq Nat, S # {}
  PROVE  Min(S) \in S /\ \A k \in S : Min(S) <= k
BY LeastNatural DEF Min

\* Natural numbers of the first n axes are bounded.
LEMMA Bounded ==
  ASSUME NEW f, \A a \in Axes : f[a] \in Nat
  PROVE  \E b \in Nat : \A a \in Axes : f[a] <= b
<1> DEFINE Bounds(n) == {b \in Nat : \A a \in Axes : a < n => f[a] <= b}
           Unbounded == {n \in Nat : Bounds(n) = {}}
<1>1. Unbounded = {}
  <2> SUFFICES ASSUME Unbounded # {} PROVE FALSE
    OBVIOUS
  <2>1. PICK n \in Unbounded : \A k \in Unbounded : n <= k
    BY LeastNatural
  <2>2. n \in Nat /\ Bounds(n) = {}
    BY <2>1
  <2>3. n # 0
    <3>1. 0 \in Bounds(0)
      BY DEF Axes
    <3> QED BY <2>2, <3>1
  <2>4. n - 1 \in Nat /\ n - 1 \notin Unbounded
    BY <2>1, <2>2, <2>3
  <2>5. PICK b \in Nat : \A a \in Axes : a < n - 1 => f[a] <= b
    BY <2>4
  <2>6. PICK c \in Nat : b <= c /\ (n - 1 \in Axes => f[n - 1] <= c)
    <3>1. CASE n - 1 \in Axes
      <4>1. f[n - 1] \in Nat
        BY <3>1
      <4> DEFINE c == IF f[n - 1] <= b THEN b ELSE f[n - 1]
      <4>2. c \in Nat /\ b <= c /\ f[n - 1] <= c
        BY <4>1, <2>5
      <4> QED BY <4>2
    <3>2. CASE n - 1 \notin Axes
      <4>1. b \in Nat /\ b <= b
        BY <2>5
      <4> QED BY <3>2, <4>1
    <3> QED BY <3>1, <3>2
  <2>7. \A a \in Axes : a < n => a < n - 1 \/ a = n - 1
    BY <2>2 DEF Axes
  <2>8. c \in Bounds(n)
    BY <2>5, <2>6, <2>7
  <2> QED BY <2>2, <2>8
<1>2. NUM_AXES \in Nat
  BY LineAssumption
<1>3. PICK b \in Nat : \A a \in Axes : a < NUM_AXES => f[a] <= b
  BY <1>1, <1>2
<1> QED BY <1>2, <1>3 DEF Axes

\* There is an axis with the longest way, and Leader is one.
LEMMA LeaderLongest ==
  ASSUME NEW delta \in [Axes -> Int]
  PROVE  Leader(delta) \in Axes /\ \A b \in Axes : Abs(delta[b]) <= Abs(delta[Leader(delta)])
<1> DEFINE way == [a \in Axes |-> Abs(delta[a])]
<1>1. \A a \in Axes : way[a] \in Nat
  BY DEF Abs
<1>2. PICK c \in Nat : \A a \in Axes : way[a] <= c
  BY <1>1, Bounded
<1> DEFINE Caps == {n \in Nat : \A a \in Axes : way[a] <= n}
<1>3. PICK n \in Caps : \A k \in Caps : n <= k
  BY <1>2, LeastNatural
<1>4. 0 \in Axes
  BY LineAssumption DEF Axes
<1>5. PICK m \in Axes : way[m] = n
  <2> SUFFICES ASSUME \A a \in Axes : way[a] # n PROVE FALSE
    OBVIOUS
  <2>1. \A a \in Axes : way[a] < n
    BY <1>1, <1>3
  <2>2. n - 1 \in Nat
    BY <1>1, <1>3, <1>4, <2>1
  <2>3. n - 1 \in Caps
    BY <1>1, <1>3, <2>1, <2>2
  <2> QED BY <1>3, <2>3
<1> DEFINE Longest == {a \in Axes : \A b \in Axes : Abs(delta[b]) <= Abs(delta[a])}
<1>6. m \in Longest
  BY <1>3, <1>5
<1>7. Longest \subseteq Nat
  BY LineAssumption DEF Axes
<1>8. Min(Longest) \in Longest
  BY <1>6, <1>7, MinIsLeast
<1> QED BY <1>8 DEF Leader

-----------------------------------------------------------------------------
\* An axis of LineMotion, ArcMotion or HomingMotion; Plain: of LineMotion.
AnyAxis ==
  [mode : {"HOLD", "VEL", "POS", "DDA", "ARC"}, motion_busy : BOOLEAN,
   actual_pos : Int, target_pos : Int, cmd_target_pos : Int, sent : Int,
   velocity : 0..Speed, fault : BOOLEAN,
   running : BOOLEAN, pos : Int, goal : Int, dir : {-1, 1}, vel : 0..Speed,
   dda_master : Axes \cup {-1}, dda_start : Int, dda_delta : Int,
   dda_master_start : Int, dda_master_delta : Nat,
   asked : {"none", "line", "slowed", "stop", "move", "fault", "arc", "zero"}]

Plain(r) == r.mode # "ARC" /\ r.asked \notin {"arc", "zero"}

\* The modes in which a planner or nothing moves the axis.
OwnMode(r) == r.mode \in {"HOLD", "VEL", "POS"}

LEMMA PlainState ==
  ASSUME NEW r \in AnyAxis, Plain(r)
  PROVE  r \in AxisState
BY DEF AnyAxis, Plain, AxisState

\* What Interp_Line makes of the axes of a line.
LineTold(r, to) ==
  [r EXCEPT !.cmd_target_pos = to, !.motion_busy = TRUE, !.asked = "line"]

LineMaster(r, to) ==
  [Planned(LineTold(r, to), to) EXCEPT !.mode = "POS", !.dda_master = -1]

LineSlave(r, to, delta, m, start, way) ==
  [LineTold(r, to) EXCEPT
     !.mode = "DDA", !.target_pos = r.actual_pos, !.dda_master = m,
     !.dda_start = r.actual_pos, !.dda_delta = delta,
     !.dda_master_start = start, !.dda_master_delta = way]

LEMMA MasterFields ==
  ASSUME NEW r \in AnyAxis, NEW to \in Int
  PROVE  /\ LineMaster(r, to) \in AnyAxis
         /\ LineMaster(r, to).mode = "POS" /\ LineMaster(r, to).asked = "line"
         /\ to # r.actual_pos => LineMaster(r, to).running
         /\ LineMaster(r, to).pos = r.actual_pos
         /\ LineMaster(r, to).actual_pos = r.actual_pos
<1>1. LineTold(r, to) \in AnyAxis /\ LineTold(r, to).actual_pos = r.actual_pos
  BY DEF LineTold, AnyAxis
<1> DEFINE told == LineTold(r, to)
           plan == Planned(told, to)
<1> HIDE DEF told
<1>2. /\ plan \in AnyAxis /\ plan.asked = told.asked
       /\ (to # told.actual_pos => plan.running)
       /\ plan.pos = told.actual_pos /\ plan.actual_pos = told.actual_pos
  <2>1. 0 \in 0..Speed /\ told \in AnyAxis
    BY <1>1, LineAssumption DEF told
  <2> QED BY <2>1 DEF Planned, AnyAxis
<1>3. told.asked = "line"
  BY DEF LineTold, AnyAxis, told
<1> HIDE DEF plan
<1>4. LineMaster(r, to) = [plan EXCEPT !.mode = "POS", !.dda_master = -1]
  BY DEF LineMaster, plan, told
<1> QED BY <1>1, <1>2, <1>3, <1>4 DEF AnyAxis, told


\* A slave has a master, which goes at least as far.
SlaveOK(r) ==
  r.mode = "DDA" => /\ r.dda_master \in Axes /\ r.dda_master_delta > 0
                    /\ Abs(r.dda_delta) <= r.dda_master_delta

Sound(r) == r \in AnyAxis /\ SlaveOK(r)

\* What a slave of a line is told.
LEMMA SlaveFields ==
  ASSUME NEW r \in AnyAxis, NEW to \in Int, NEW m \in Axes, NEW start \in Int,
         NEW way \in Nat, Abs(to - r.actual_pos) <= way, way > 0
  PROVE  LET q == LineSlave(r, to, to - r.actual_pos, m, start, way)
         IN  /\ Sound(q) /\ q.mode = "DDA" /\ q.dda_master = m
             /\ Emitted(q) = 0 /\ q.dda_master_start = start /\ q.asked = "line"
<1>1. LineTold(r, to) \in AnyAxis
  BY DEF LineTold, AnyAxis
<1> DEFINE told == LineTold(r, to)
           q == LineSlave(r, to, to - r.actual_pos, m, start, way)
<1>2. told \in AnyAxis /\ told.asked = "line"
  BY <1>1 DEF LineTold, AnyAxis
<1> HIDE DEF told
<1>3. r.actual_pos \in Int
  BY DEF AnyAxis
<1>4. q = [told EXCEPT
             !.mode = "DDA", !.target_pos = r.actual_pos, !.dda_master = m,
             !.dda_start = r.actual_pos, !.dda_delta = to - r.actual_pos,
             !.dda_master_start = start, !.dda_master_delta = way]
  BY DEF LineSlave, told
<1> HIDE DEF q
<1>5. /\ q \in AnyAxis /\ q.mode = "DDA" /\ q.dda_master = m /\ q.asked = "line"
      /\ q.target_pos = r.actual_pos /\ q.dda_start = r.actual_pos
      /\ q.dda_delta = to - r.actual_pos
      /\ q.dda_master_start = start /\ q.dda_master_delta = way
  <2>1. PICK d \in Int : d = to - r.actual_pos
    BY <1>3
  <2>2. q = [told EXCEPT
               !.mode = "DDA", !.target_pos = r.actual_pos, !.dda_master = m,
               !.dda_start = r.actual_pos, !.dda_delta = d,
               !.dda_master_start = start, !.dda_master_delta = way]
    BY <1>4, <2>1
  <2>3. /\ q \in AnyAxis /\ q.mode = "DDA" /\ q.dda_master = m /\ q.asked = "line"
        /\ q.target_pos = r.actual_pos /\ q.dda_start = r.actual_pos /\ q.dda_delta = d
        /\ q.dda_master_start = start /\ q.dda_master_delta = way
    BY <1>2, <1>3, <2>2 DEF AnyAxis
  <2> QED BY <2>1, <2>3
<1>6. Emitted(q) = 0
  BY <1>3, <1>5 DEF Emitted, SlaveDir
<1> QED BY <1>5, <1>6 DEF Sound, SlaveOK, q

\* What Interp_Line does, if any axis has a way to go.
LEMMA LineFields ==
  ASSUME NEW s \in [Axes -> AnyAxis], NEW t \in [Axes -> Int], Interp_Line(s, t) # s
  PROVE  \E m \in Axes :
           /\ t[m] # s[m].actual_pos
           /\ Interp_Line(s, t)[m] = LineMaster(s[m], t[m])
           /\ \A a \in Axes \ {m} :
                /\ Abs(t[a] - s[a].actual_pos) <= Abs(t[m] - s[m].actual_pos)
                /\ Interp_Line(s, t)[a] =
                     LineSlave(s[a], t[a], t[a] - s[a].actual_pos, m, s[m].actual_pos,
                               Abs(t[m] - s[m].actual_pos))
<1> DEFINE delta == [a \in Axes |-> t[a] - s[a].actual_pos]
           m == Leader(delta)
<1>1. ~ \A a \in Axes : delta[a] = 0
  BY DEF Interp_Line
<1>2. delta \in [Axes -> Int]
  BY DEF AnyAxis
<1>3. m \in Axes /\ \A b \in Axes : Abs(delta[b]) <= Abs(delta[m])
  BY <1>2, LeaderLongest
<1>4. delta[m] # 0
  BY <1>1, <1>2, <1>3 DEF Abs
<1>5. t[m] # s[m].actual_pos
  BY <1>2, <1>3, <1>4 DEF AnyAxis
<1> HIDE DEF m
<1>6. Interp_Line(s, t)[m] = LineMaster(s[m], t[m])
  BY <1>1, <1>3 DEF Interp_Line, LineMaster, LineTold, m
<1>7. ASSUME NEW a \in Axes \ {m}
      PROVE  Interp_Line(s, t)[a] =
               LineSlave(s[a], t[a], t[a] - s[a].actual_pos, m, s[m].actual_pos,
                         Abs(t[m] - s[m].actual_pos))
  BY <1>1, <1>3, <1>7 DEF Interp_Line, LineSlave, LineTold, MasterStart, m
<1> QED BY <1>3, <1>5, <1>6, <1>7

\* A positioning and the two stops.
LEMMA MoveSound ==
  ASSUME NEW r \in AnyAxis, NEW to \in Int
  PROVE  /\ Sound(ApplyPosition(r, to))
         /\ ApplyPosition(r, to).asked = "move" /\ ApplyPosition(r, to).mode = "POS"
<1>0. 0 \in 0..Speed
  BY LineAssumption
<1>1. Planned(r, to) \in AnyAxis
  BY <1>0 DEF Planned, AnyAxis
<1> QED BY <1>1 DEF ApplyPosition, AnyAxis, Sound, SlaveOK

LEMMA SlowedSound ==
  ASSUME NEW r \in AnyAxis, NEW q \in Braked(r)
  PROVE  /\ q \in AnyAxis
         /\ \E g \in Int : q = [r EXCEPT !.goal = g]
<1>1. r = [r EXCEPT !.goal = r.goal] /\ r.goal \in Int
  BY DEF AnyAxis
<1>2. ASSUME NEW d \in 0..StopDist, q = [r EXCEPT !.goal = r.pos + r.dir * d]
      PROVE  r.pos + r.dir * d \in Int
  BY LineAssumption DEF AnyAxis
<1>3. PICK g \in Int : q = [r EXCEPT !.goal = g]
  BY <1>1, <1>2 DEF Braked, Slowed
<1> QED BY <1>3 DEF AnyAxis

\* A stopped axis is no slave; a master that was stopped on its line goes on, from
\* where it was, or from the encoder position in the positive sense if it has just
\* been planned.
LEMMA StopFields ==
  ASSUME NEW r \in AnyAxis, NEW smooth, NEW q \in StopOne(r, smooth)
  PROVE  /\ Sound(q) /\ q.mode \in {"POS", "VEL"} /\ q.asked \in {"stop", "slowed"}
         /\ q.asked = "slowed" =>
              /\ r.asked \in {"line", "slowed"} /\ r.mode = "POS" /\ r.running
              /\ q.mode = "POS" /\ q.running
              /\ \/ q.pos = r.pos /\ q.dir = r.dir
                 \/ q.dir = 1 /\ q.pos = r.actual_pos /\ r.vel = 0 /\ r.velocity > 0
              /\ ~(q.vel = 0 /\ q.velocity > 0)
<1> DEFINE slow == r.asked \in {"line", "slowed"} /\ r.mode = "POS" /\ r.running
           s == [r EXCEPT !.target_pos = r.actual_pos,
                          !.asked = IF @ \in {"line", "slowed"} /\ r.mode = "POS" /\ r.running
                                    THEN "slowed" ELSE "stop"]
           f == [s EXCEPT !.running = TRUE, !.pos = r.actual_pos,
                          !.vel = r.velocity, !.dir = 1]
<1>1. /\ s \in AnyAxis /\ s.asked \in {"stop", "slowed"} /\ (s.asked = "slowed" => slow)
      /\ s.mode = r.mode /\ s.pos = r.pos /\ s.dir = r.dir /\ s.running = r.running
      /\ s.vel = r.vel /\ s.velocity = r.velocity
  BY DEF AnyAxis
<1>2. /\ f \in AnyAxis /\ f.asked = s.asked /\ f.pos = r.actual_pos /\ f.dir = 1
      /\ f.running = TRUE /\ f.vel = r.velocity
  <2>1. r.velocity \in 0..Speed /\ r.actual_pos \in Int
    BY DEF AnyAxis
  <2> HIDE DEF s
  <2> QED BY <1>1, <2>1 DEF AnyAxis
<1>3. r.vel \in 0..Speed /\ r.velocity \in 0..Speed
  BY DEF AnyAxis
<1>4. CASE Moving(r)
  <2>1. PICK b \in Braked(s) : q = [b EXCEPT !.mode = "POS", !.motion_busy = TRUE]
    BY <1>4 DEF StopOne
  <2> HIDE DEF s, f
  <2>2. PICK g \in Int : b = [s EXCEPT !.goal = g]
    BY <1>1, <2>1, SlowedSound
  <2>3. /\ b \in AnyAxis /\ b.asked = s.asked /\ b.pos = r.pos /\ b.dir = r.dir
        /\ b.running = r.running /\ b.vel = r.vel
    BY <1>1, <2>2 DEF AnyAxis
  <2>4. /\ q \in AnyAxis /\ q.mode = "POS" /\ q.asked = s.asked /\ q.pos = r.pos
        /\ q.dir = r.dir /\ q.running = r.running /\ q.vel = r.vel
    BY <2>1, <2>3 DEF AnyAxis
  <2> QED BY <1>1, <1>3, <1>4, <2>4 DEF Moving, Sound, SlaveOK
<1>5. CASE ~Moving(r) /\ r.velocity > 0 /\ smooth
  <2>1. PICK b \in Slowed(f) : q = [b EXCEPT !.mode = "POS", !.motion_busy = TRUE]
    BY <1>5 DEF StopOne
  <2> HIDE DEF s, f
  <2>2. PICK g \in Int : b = [f EXCEPT !.goal = g]
    BY <1>2, <2>1, SlowedSound DEF Braked
  <2>3. /\ b \in AnyAxis /\ b.asked = f.asked /\ b.pos = f.pos /\ b.dir = f.dir
        /\ b.running = f.running /\ b.vel = f.vel
    BY <1>2, <2>2 DEF AnyAxis
  <2>4. /\ q \in AnyAxis /\ q.mode = "POS" /\ q.asked = f.asked /\ q.pos = f.pos
        /\ q.dir = f.dir /\ q.running = f.running /\ q.vel = f.vel
    BY <2>1, <2>3 DEF AnyAxis
  <2> QED BY <1>1, <1>2, <1>3, <1>5, <2>4 DEF Moving, Sound, SlaveOK
<1>6. CASE ~Moving(r) /\ ~(r.velocity > 0 /\ smooth) /\ r.mode = "POS"
  <2>1. q = [s EXCEPT !.velocity = 0, !.motion_busy = FALSE]
    BY <1>6 DEF StopOne
  <2>2. 0 \in 0..Speed
    BY LineAssumption
  <2> HIDE DEF s, f
  <2>3. /\ q \in AnyAxis /\ q.mode = "POS" /\ q.asked = s.asked /\ q.pos = r.pos
        /\ q.dir = r.dir /\ q.running = r.running /\ q.velocity = 0
    BY <1>1, <1>6, <2>1, <2>2 DEF AnyAxis
  <2> QED BY <1>1, <1>6, <2>3 DEF Sound, SlaveOK
<1>7. CASE ~Moving(r) /\ ~(r.velocity > 0 /\ smooth) /\ r.mode # "POS"
  <2>1. q = [s EXCEPT !.mode = "VEL", !.cmd_target_pos = r.actual_pos]
    BY <1>7 DEF StopOne
  <2>2. r.actual_pos \in Int
    BY DEF AnyAxis
  <2> HIDE DEF s, f
  <2>3. q \in AnyAxis /\ q.mode = "VEL" /\ q.asked = s.asked
    BY <1>1, <2>1, <2>2 DEF AnyAxis
  <2> QED BY <1>1, <1>7, <2>3 DEF Sound, SlaveOK
<1> QED BY <1>4, <1>5, <1>6, <1>7

LEMMA HaltFields ==
  ASSUME NEW r \in AnyAxis, NEW q \in Halted(r)
  PROVE  Sound(q) /\ q.mode = "POS" /\ q.asked = "stop"
<1>1. PICK b \in Braked(r) :
        q = [b EXCEPT !.mode = "POS", !.motion_busy = TRUE, !.asked = "stop"]
  BY DEF Halted, Braked
<1>2. b \in AnyAxis
  BY <1>1, SlowedSound
<1> QED BY <1>1, <1>2 DEF AnyAxis, Sound, SlaveOK

-----------------------------------------------------------------------------
\* The division that gives a slave its share.
LEMMA Products ==
  ASSUME NEW x \in Int, NEW y \in Int, NEW z \in Nat, x <= y
  PROVE  x * z \in Int /\ y * z \in Int /\ x * z <= y * z
OBVIOUS

LEMMA Division ==
  ASSUME NEW n \in Int, NEW d \in Nat, d > 0
  PROVE  /\ n \div d \in Int
         /\ (n \div d) * d <= n /\ n < (n \div d) * d + d
OBVIOUS

\* A slave does not go faster than its master.
LEMMA ShareOfSpeed ==
  ASSUME NEW v \in 0..Speed, NEW d \in Nat, NEW w \in Nat, w > 0, d <= w
  PROVE  (v * d) \div w \in 0..Speed
<1> DEFINE n == v * d
           q == n \div w
<1>1. Speed \in Nat
  BY LineAssumption
<1>2. n \in Nat /\ n <= w * v
  BY <1>1
<1>3. q \in Int /\ q * w <= n /\ n < q * w + w
  BY <1>2, Division
<1>4. q <= v
  <2> SUFFICES ASSUME q >= v + 1 PROVE FALSE
    BY <1>1, <1>3
  <2>1. (v + 1) * w <= q * w
    BY <1>1, <1>3, Products
  <2>2. (v + 1) * w = w * v + w
    BY <1>1
  <2>3. w * v \in Int /\ (v + 1) * w \in Int /\ q * w \in Int
    BY <1>1, <1>3
  <2> HIDE DEF n, q
  <2> QED BY <1>2, <1>3, <2>1, <2>2, <2>3
<1>5. q >= 0
  <2> SUFFICES ASSUME q <= -1 PROVE FALSE
    BY <1>3
  <2>1. q * w <= (-1) * w
    BY <1>3, Products
  <2>2. (-1) * w = -w /\ q * w \in Int
    BY <1>3
  <2> HIDE DEF n, q
  <2> QED BY <1>2, <1>3, <2>1, <2>2
<1> HIDE DEF q, n
<1>6. q \in 0..Speed
  BY <1>1, <1>3, <1>4, <1>5
<1> QED BY <1>6 DEF q, n

\* The share of a slave is rounded to the nearest pulse.
LEMMA ShareRounded ==
  ASSUME NEW x \in Nat, NEW d \in Nat, NEW w \in Nat, w > 0
  PROVE  LET e == (x * d + w \div 2) \div w
         IN  e \in Int /\ -w <= 2 * (e * w - x * d) /\ 2 * (e * w - x * d) <= w
<1> DEFINE n == x * d
           h == w \div 2
           e == (n + h) \div w
<1>1. n \in Nat
  OBVIOUS
<1>2. h \in Nat /\ 2 * h <= w /\ w <= 2 * h + 1
  OBVIOUS
<1> HIDE DEF n, h
<1>3. e \in Int /\ e * w <= n + h /\ n + h < e * w + w
  BY <1>1, <1>2, Division
<1> HIDE DEF e
<1>4. e * w \in Int
  BY <1>3
<1>5. -w <= 2 * (e * w - n) /\ 2 * (e * w - n) <= w
  BY <1>1, <1>2, <1>3, <1>4
<1> QED BY <1>3, <1>5 DEF e, n, h

\* What Axis_ControlCycle reads.
LEMMA ReadFields ==
  ASSUME NEW r, Sound(r), NEW f \in BOOLEAN
  PROVE  LET q == Read(r, f)
         IN  /\ Sound(q)
             /\ f => q.mode = "HOLD" /\ q.asked = "fault"
             /\ ~f => /\ q.mode = r.mode /\ q.asked = r.asked
                      /\ q.running = r.running /\ q.pos = r.pos /\ q.dir = r.dir
                      /\ q.vel = r.vel /\ q.velocity = r.velocity
                      /\ q.target_pos = r.target_pos /\ q.dda_master = r.dda_master
                      /\ q.dda_start = r.dda_start /\ q.dda_delta = r.dda_delta
                      /\ q.dda_master_start = r.dda_master_start
                      /\ q.dda_master_delta = r.dda_master_delta
<1> DEFINE e == [r EXCEPT !.actual_pos = r.sent, !.fault = f]
<1>1. r \in AnyAxis /\ SlaveOK(r)
  BY DEF Sound
<1>2. /\ e \in AnyAxis /\ e.mode = r.mode /\ e.asked = r.asked
      /\ e.running = r.running /\ e.pos = r.pos /\ e.dir = r.dir
      /\ e.vel = r.vel /\ e.velocity = r.velocity
      /\ e.target_pos = r.target_pos /\ e.dda_master = r.dda_master
      /\ e.dda_start = r.dda_start /\ e.dda_delta = r.dda_delta
      /\ e.dda_master_start = r.dda_master_start
      /\ e.dda_master_delta = r.dda_master_delta
  BY <1>1 DEF AnyAxis
<1>3. Read(r, f) = IF f THEN Faulted(e) ELSE e
  BY DEF Read
<1> HIDE DEF e
<1>4. Faulted(e) \in AnyAxis /\ Faulted(e).mode = "HOLD" /\ Faulted(e).asked = "fault"
  <2>1. 0 \in 0..Speed
    BY LineAssumption
  <2> QED BY <1>2, <2>1 DEF Faulted, AnyAxis
<1>5. SlaveOK(e)
  BY <1>1, <1>2 DEF SlaveOK
<1> QED BY <1>2, <1>3, <1>4, <1>5 DEF Sound, SlaveOK

\* A step of the planner.
LEMMA SteppedFields ==
  ASSUME NEW r \in AnyAxis, NEW q \in Stepped(r)
  PROVE  /\ q \in AnyAxis /\ q.mode = r.mode /\ q.asked = r.asked /\ q.dir = r.dir
         /\ q.running => r.running /\ q.pos = r.pos + r.dir * q.vel
         /\ ~r.running => q = r
<1>0. 0 \in 0..Speed /\ r.pos \in Int /\ r.goal \in Int /\ r.dir \in Int
  BY LineAssumption DEF AnyAxis
<1>1. CASE ~r.running
  BY <1>1 DEF Stepped
<1>2. ASSUME r.running, NEW v \in 0..Speed, q = [r EXCEPT !.pos = @ + r.dir * v, !.vel = v]
      PROVE  /\ q \in AnyAxis /\ q.mode = r.mode /\ q.asked = r.asked /\ q.dir = r.dir
             /\ q.pos = r.pos + r.dir * q.vel
  <2>1. PICK to \in Int : to = r.pos + r.dir * v
    BY <1>0
  <2>2. q = [r EXCEPT !.pos = to, !.vel = v]
    BY <1>2, <2>1
  <2> QED BY <2>1, <2>2 DEF AnyAxis
<1>3. ASSUME NEW to \in {r.pos, r.goal}, q = [r EXCEPT !.running = FALSE, !.pos = to, !.vel = 0]
      PROVE  /\ q \in AnyAxis /\ q.mode = r.mode /\ q.asked = r.asked /\ q.dir = r.dir
             /\ ~q.running
  BY <1>0, <1>3 DEF AnyAxis
<1>4. CASE r.running
  <2>1. \/ \E v \in 0..Speed : q = [r EXCEPT !.pos = @ + r.dir * v, !.vel = v]
        \/ \E to \in {r.pos, r.goal} :
             q = [r EXCEPT !.running = FALSE, !.pos = to, !.vel = 0]
    BY <1>4 DEF Stepped
  <2> QED BY <1>2, <1>3, <1>4, <2>1
<1> QED BY <1>1, <1>4

\* A pass over an axis that is no slave.
LEMMA ControlledFields ==
  ASSUME NEW r \in AnyAxis, OwnMode(r), NEW q \in Controlled(r)
  PROVE  /\ Sound(q) /\ q.mode = r.mode /\ q.asked = r.asked
         /\ r.mode = "POS" /\ q.running =>
              r.running /\ q.dir = r.dir /\ q.vel = q.velocity /\ q.pos = r.pos + r.dir * q.vel
<1>1. CASE r.mode = "POS"
  <2>1. PICK p \in Stepped(r) :
          q = IF r.running /\ ~p.running THEN Arrived(p)
              ELSE [p EXCEPT !.target_pos = p.pos, !.velocity = p.vel]
    BY <1>1 DEF Controlled
  <2>2. /\ p \in AnyAxis /\ p.mode = r.mode /\ p.asked = r.asked /\ p.dir = r.dir
        /\ p.running => r.running /\ p.pos = r.pos + r.dir * p.vel
        /\ ~r.running => p = r
    BY <2>1, SteppedFields
  <2>3. CASE r.running /\ ~p.running
    <3>1. q = Arrived(p)
      BY <2>1, <2>3
    <3>2. 0 \in 0..Speed
      BY LineAssumption
    <3>3. PICK at \in Int : q = [p EXCEPT !.velocity = 0, !.motion_busy = FALSE,
                                          !.target_pos = at, !.pos = at]
      BY <2>2, <3>1 DEF Arrived, AnyAxis
    <3>4. q \in AnyAxis /\ q.mode = p.mode /\ q.asked = p.asked /\ q.running = p.running
      BY <2>2, <3>2, <3>3 DEF AnyAxis
    <3> QED BY <1>1, <2>2, <2>3, <3>4 DEF Sound, SlaveOK
  <2>4. CASE ~(r.running /\ ~p.running)
    <3>1. q = [p EXCEPT !.target_pos = p.pos, !.velocity = p.vel]
      BY <2>1, <2>4
    <3>2. /\ q \in AnyAxis /\ q.mode = p.mode /\ q.asked = p.asked /\ q.running = p.running
          /\ q.dir = p.dir /\ q.vel = p.vel /\ q.velocity = p.vel /\ q.pos = p.pos
      BY <2>2, <3>1 DEF AnyAxis
    <3> QED BY <1>1, <2>2, <2>4, <3>2 DEF Sound, SlaveOK
  <2> QED BY <2>3, <2>4
<1>2. CASE r.mode \in {"VEL", "HOLD"}
  <2>1. PICK v \in {0, r.velocity} : q = [r EXCEPT !.velocity = v]
    BY <1>2 DEF Controlled
  <2>2. v \in 0..Speed
    BY <2>1, LineAssumption DEF AnyAxis
  <2> QED BY <1>2, <2>1, <2>2 DEF AnyAxis, Sound, SlaveOK
<1> QED BY <1>1, <1>2 DEF OwnMode

\* A pass over a slave: while its master runs it follows, and when it is done it holds.
LEMMA FollowedFields ==
  ASSUME NEW r, Sound(r), r.mode = "DDA", NEW m \in AnyAxis
  PROVE  LET q == Followed(r, m)
         IN  /\ Sound(q) /\ q.asked = r.asked
             /\ q.running = r.running /\ q.pos = r.pos /\ q.dir = r.dir /\ q.vel = r.vel
             /\ ~m.running => q.mode = "HOLD"
             /\ m.running =>
                  /\ q.mode = "DDA" /\ q.dda_master = r.dda_master
                  /\ q.dda_delta = r.dda_delta
                  /\ q.dda_master_start = r.dda_master_start
                  /\ q.dda_master_delta = r.dda_master_delta
                  /\ Emitted(q) = AtLeast(Expected(r, m), Emitted(r))
<1> DEFINE at == r.dda_start + SlaveDir(r) * AtLeast(Expected(r, m), Emitted(r))
           q == Followed(r, m)
<1>1. /\ r \in AnyAxis /\ r.dda_master \in Axes
      /\ r.dda_master_delta \in Nat /\ r.dda_master_delta > 0
      /\ r.dda_delta \in Int /\ Abs(r.dda_delta) <= r.dda_master_delta
      /\ r.dda_start \in Int /\ r.target_pos \in Int /\ r.cmd_target_pos \in Int
      /\ r.dda_master_start \in Int
  BY DEF Sound, SlaveOK, AnyAxis
<1>2. SlaveDir(r) \in {-1, 1} /\ Emitted(r) \in Int /\ Abs(r.dda_delta) \in Nat
  BY <1>1 DEF SlaveDir, Emitted, Abs
<1>3. m.pos \in Int /\ m.vel \in 0..Speed
  BY DEF AnyAxis
<1>4. Expected(r, m) \in Int
  <2>1. AtLeast(m.pos - r.dda_master_start, 0) \in Nat
    BY <1>1, <1>3 DEF AtLeast
  <2> QED BY <1>1, <1>2, <2>1, ShareRounded DEF Expected
<1>5. AtLeast(Expected(r, m), Emitted(r)) \in Int
  BY <1>2, <1>4 DEF AtLeast
<1>6. at \in Int /\ (at - r.dda_start) * SlaveDir(r) = AtLeast(Expected(r, m), Emitted(r))
  BY <1>1, <1>2, <1>5
<1> HIDE DEF at
<1>7. CASE m.running
  <2>1. PICK v \in 0..Speed : v = (m.vel * Abs(r.dda_delta)) \div r.dda_master_delta
    BY <1>1, <1>2, <1>3, ShareOfSpeed
  <2>2. q = [r EXCEPT !.target_pos = at, !.velocity = v]
    BY <1>7, <2>1 DEF Followed, at
  <2> HIDE DEF q
  <2>3. /\ q \in AnyAxis /\ q.mode = r.mode /\ q.asked = r.asked
        /\ q.running = r.running /\ q.pos = r.pos /\ q.dir = r.dir /\ q.vel = r.vel
        /\ q.dda_master = r.dda_master /\ q.dda_delta = r.dda_delta
        /\ q.dda_master_start = r.dda_master_start /\ q.dda_start = r.dda_start
        /\ q.dda_master_delta = r.dda_master_delta /\ q.target_pos = at
    BY <1>1, <1>6, <2>2 DEF AnyAxis
  <2>4. Emitted(q) = (at - r.dda_start) * SlaveDir(r)
    BY <2>3 DEF Emitted, SlaveDir
  <2>5. Sound(q)
    BY <1>1, <2>3 DEF Sound, SlaveOK
  <2> QED BY <1>6, <1>7, <2>3, <2>4, <2>5 DEF q
<1>8. CASE ~m.running
  <2>1. PICK to \in Int : q = [r EXCEPT !.target_pos = to, !.velocity = 0,
                                        !.motion_busy = FALSE, !.mode = "HOLD"]
    BY <1>1, <1>6, <1>8 DEF Followed, at
  <2>2. 0 \in 0..Speed
    BY LineAssumption
  <2> HIDE DEF q
  <2>3. /\ q \in AnyAxis /\ q.mode = "HOLD" /\ q.asked = r.asked
        /\ q.running = r.running /\ q.pos = r.pos /\ q.dir = r.dir /\ q.vel = r.vel
    BY <1>1, <2>1, <2>2 DEF AnyAxis
  <2> QED BY <1>8, <2>3 DEF Sound, SlaveOK, q
<1> QED BY <1>7, <1>8

-----------------------------------------------------------------------------
\* The slave that has gone e is within half a pulse of d / w of the way x.
Near(e, x, d, w) == -w <= 2 * (e * w - x * d) /\ 2 * (e * w - x * d) <= w

\* A slave that only catches up stays there while its master goes on.
LEMMA NearStep ==
  ASSUME NEW x \in Nat, NEW y \in Nat, x <= y, NEW d \in Nat, NEW w \in Nat, w > 0,
         NEW e \in Int, Near(e, x, d, w)
  PROVE  Near(AtLeast((y * d + w \div 2) \div w, e), y, d, w)
<1> DEFINE c == (y * d + w \div 2) \div w
           nx == x * d
           ny == y * d
<1>1. c \in Int /\ -w <= 2 * (c * w - ny) /\ 2 * (c * w - ny) <= w
  BY ShareRounded
<1>2. nx \in Int /\ ny \in Int /\ nx <= ny
  BY Products
<1> HIDE DEF c, nx, ny
<1>3. CASE c >= e
  <2>1. AtLeast(c, e) = c
    BY <1>1, <1>3 DEF AtLeast
  <2> QED BY <1>1, <2>1 DEF Near, c, ny
<1>4. CASE c < e
  <2>1. AtLeast(c, e) = e
    BY <1>4 DEF AtLeast
  <2>2. c + 1 <= e
    BY <1>1, <1>4
  <2>3. (c + 1) * w <= e * w /\ e * w \in Int
    BY <1>1, <2>2, Products
  <2>4. (c + 1) * w = c * w + w /\ c * w \in Int
    BY <1>1
  <2>5. -w <= 2 * (e * w - nx) /\ 2 * (e * w - nx) <= w
    BY DEF Near, nx
  <2>6. -w <= 2 * (e * w - ny) /\ 2 * (e * w - ny) <= w
    BY <1>1, <1>2, <2>3, <2>4, <2>5
  <2> QED BY <2>1, <2>6 DEF Near, c, ny
<1> QED BY <1>1, <1>3, <1>4

\* How the slave r and its master q are on their line.
Pair(r, q) ==
  /\ q.mode = "POS" /\ q.running
  /\ q.vel = 0 /\ q.velocity > 0 =>
       q.pos = q.actual_pos /\ q.pos = r.dda_master_start /\ Emitted(r) = 0
  /\ q.dir > 0 =>
       /\ q.pos >= r.dda_master_start
       /\ Near(Emitted(r), q.pos - r.dda_master_start, Abs(r.dda_delta), r.dda_master_delta)

Linked(s, a, m) ==
  /\ s[a].mode = "DDA" /\ s[a].asked = "line"
  /\ m = s[a].dda_master /\ s[m].asked \in {"line", "slowed"}

\* All axes are sound, and slaves and masters are on their lines.
AxesOK(s) ==
  /\ s \in [Axes -> AnyAxis] /\ \A a \in Axes : Sound(s[a]) /\ Plain(s[a])
  /\ \A a, m \in Axes : Linked(s, a, m) => Pair(s[a], s[m])

LEMMA LineOK ==
  ASSUME NEW s, AxesOK(s), NEW t \in [Axes -> Int]
  PROVE  AxesOK(Interp_Line(s, t))
<1> DEFINE u == Interp_Line(s, t)
<1>1. CASE u = s
  BY <1>1
<1>2. CASE u # s
  <2>0. s \in [Axes -> AnyAxis]
    BY DEF AxesOK
  <2>1. PICK m \in Axes :
          /\ t[m] # s[m].actual_pos
          /\ u[m] = LineMaster(s[m], t[m])
          /\ \A a \in Axes \ {m} :
               /\ Abs(t[a] - s[a].actual_pos) <= Abs(t[m] - s[m].actual_pos)
               /\ u[a] = LineSlave(s[a], t[a], t[a] - s[a].actual_pos, m, s[m].actual_pos,
                                   Abs(t[m] - s[m].actual_pos))
    BY <1>2, <2>0, LineFields
  <2>2. u = [a \in Axes |-> u[a]]
    <3> DEFINE delta == [a \in Axes |-> t[a] - s[a].actual_pos]
           k == Leader(delta)
           Made(a) == IF a = k THEN LineMaster(s[a], t[a])
                      ELSE LineSlave(s[a], t[a], delta[a], k, s[k].actual_pos, Abs(delta[k]))
    <3>1. ~ \A a \in Axes : delta[a] = 0
      BY <1>2 DEF Interp_Line
    <3>2. u = [a \in Axes |-> Made(a)]
      BY <3>1, Zenon DEF Interp_Line, LineMaster, LineSlave, LineTold, MasterStart
    <3> HIDE DEF u
    <3> QED BY <3>2
  <2> HIDE DEF u
  <2>3. s[m] \in AnyAxis /\ s[m].actual_pos \in Int /\ t[m] \in Int
    BY <2>0 DEF AnyAxis
  <2>4. PICK way \in Nat : way = Abs(t[m] - s[m].actual_pos) /\ way > 0
    BY <2>1, <2>3 DEF Abs
  <2>5. /\ u[m] \in AnyAxis /\ u[m].mode = "POS" /\ u[m].asked = "line" /\ u[m].running
        /\ u[m].pos = s[m].actual_pos /\ u[m].actual_pos = s[m].actual_pos
    BY <2>1, <2>3, MasterFields
  <2>6. ASSUME NEW a \in Axes \ {m}
        PROVE  /\ Sound(u[a]) /\ u[a].mode = "DDA" /\ u[a].dda_master = m
               /\ Emitted(u[a]) = 0 /\ u[a].dda_master_start = s[m].actual_pos
               /\ u[a].asked = "line"
    <3>1. s[a] \in AnyAxis /\ t[a] \in Int
      BY <2>0
    <3> QED BY <2>1, <2>3, <2>4, <3>1, SlaveFields
  <2>7. ASSUME NEW a \in Axes PROVE Sound(u[a]) /\ Plain(u[a])
    BY <2>5, <2>6 DEF Sound, SlaveOK, Plain
  <2>8. u \in [Axes -> AnyAxis]
    BY <2>2, <2>7 DEF Sound
  <2>9. ASSUME NEW a \in Axes, NEW k \in Axes, Linked(u, a, k) PROVE Pair(u[a], u[k])
    <3>1. a # m /\ k = m
      BY <2>5, <2>6, <2>9 DEF Linked
    <3>2. /\ Emitted(u[a]) = 0 /\ u[a].dda_master_start = u[m].pos
          /\ u[a] \in AnyAxis /\ SlaveOK(u[a]) /\ u[a].mode = "DDA"
      BY <2>5, <2>6, <3>1 DEF Sound
    <3>3. Near(0, 0, Abs(u[a].dda_delta), u[a].dda_master_delta)
      <4>1. u[a].dda_master_delta \in Nat /\ Abs(u[a].dda_delta) \in Int
        BY <3>2 DEF AnyAxis, Abs
      <4> QED BY <4>1 DEF Near
    <3>4. u[m].pos \in Int /\ u[m].pos - u[m].pos = 0 /\ u[m].pos >= u[m].pos
      BY <2>5 DEF AnyAxis
    <3> QED BY <2>5, <3>1, <3>2, <3>3, <3>4 DEF Pair
  <2> QED BY <2>7, <2>8, <2>9 DEF AxesOK, u
<1> QED BY <1>1, <1>2

LEMMA PassParts ==
  ASSUME Pass
  PROVE  \E faults \in SUBSET Faulty : \E ran :
           /\ \A a \in Axes : ran[a] \in After(faults, a)
           /\ ProcessQueue(Follow(axis, ran))
BY DEF Pass, After, Outcomes

LEMMA SentFields ==
  ASSUME NEW r, Sound(r)
  PROVE  LET q == Sent(r)
         IN  /\ Sound(q) /\ q.mode = r.mode /\ q.asked = r.asked
             /\ q.running = r.running /\ q.pos = r.pos /\ q.dir = r.dir
             /\ q.vel = r.vel /\ q.velocity = r.velocity
             /\ q.dda_master = r.dda_master /\ q.dda_delta = r.dda_delta
             /\ q.dda_master_start = r.dda_master_start
             /\ q.dda_master_delta = r.dda_master_delta
             /\ Emitted(q) = Emitted(r)
<1>1. r \in AnyAxis /\ SlaveOK(r)
  BY DEF Sound
<1> DEFINE q == Sent(r)
<1>2. /\ q \in AnyAxis /\ q.mode = r.mode /\ q.asked = r.asked
      /\ q.running = r.running /\ q.pos = r.pos /\ q.dir = r.dir
      /\ q.vel = r.vel /\ q.velocity = r.velocity
      /\ q.dda_master = r.dda_master /\ q.dda_delta = r.dda_delta
      /\ q.dda_master_start = r.dda_master_start
      /\ q.dda_master_delta = r.dda_master_delta
      /\ q.target_pos = r.target_pos /\ q.dda_start = r.dda_start
  BY <1>1 DEF Sent, AnyAxis
<1> HIDE DEF q
<1>3. SlaveOK(q) /\ Emitted(q) = Emitted(r)
  BY <1>1, <1>2 DEF SlaveOK, Emitted, SlaveDir
<1> QED BY <1>2, <1>3 DEF Sound, q

\* A pass keeps the axes on their lines.
LEMMA PassAxesOK ==
  ASSUME AxesOK(axis), NEW faults, NEW ran, \A a \in Axes : ran[a] \in After(faults, a)
  PROVE  AxesOK(Follow(axis, ran))
<1> DEFINE s == Follow(axis, ran)
           slave(a) == axis[a].mode = "DDA" /\ ran[a].mode # "HOLD"
<1>1. ASSUME NEW a \in Axes
      PROVE  /\ Sound(ran[a]) /\ Plain(ran[a])
             /\ axis[a].mode # "DDA" => ran[a].mode # "DDA"
             /\ ran[a].asked = axis[a].asked \/ ran[a].asked = "fault"
             /\ slave(a) => ran[a] = Read(axis[a], FALSE) /\ ran[a].mode = "DDA"
  <2>1. Sound(axis[a]) /\ Plain(axis[a]) /\ (a \in faults) \in BOOLEAN
    BY DEF AxesOK
  <2> DEFINE e == Read(axis[a], a \in faults)
  <2>2. /\ Sound(e) /\ (a \in faults => e.mode = "HOLD" /\ e.asked = "fault")
        /\ a \notin faults => e.mode = axis[a].mode /\ e.asked = axis[a].asked
        /\ Plain(e)
    BY <2>1, ReadFields DEF Plain
  <2>3. CASE axis[a].mode = "DDA"
    <3>1. ran[a] = e
      BY <2>3 DEF After
    <3>2. slave(a) => a \notin faults
      BY <2>2, <3>1
    <3>3. ASSUME a \notin faults PROVE e = Read(axis[a], FALSE)
      <4>1. (a \in faults) = FALSE
        BY <3>3
      <4> QED BY <4>1
    <3> QED BY <2>2, <2>3, <3>1, <3>2, <3>3
  <2>4. CASE axis[a].mode # "DDA"
    <3>1. ran[a] \in Controlled(e) /\ OwnMode(e)
      BY <2>2, <2>4 DEF After, OwnMode, Plain, Sound, AnyAxis
    <3>2. Sound(ran[a]) /\ ran[a].mode = e.mode /\ ran[a].asked = e.asked
      BY <2>2, <3>1, ControlledFields DEF Sound
    <3> QED BY <2>2, <2>4, <3>1, <3>2 DEF OwnMode, Plain
  <2> QED BY <2>3, <2>4
<1>2. ASSUME NEW a \in Axes, ~slave(a)
      PROVE  s[a] = Sent(ran[a])
  BY <1>2 DEF Follow
<1>3. ASSUME NEW a \in Axes, slave(a)
      PROVE  /\ s[a] = Sent(Followed(ran[a], ran[ran[a].dda_master]))
             /\ ran[a].dda_master \in Axes
  <2>1. s[a] = Sent(Followed(ran[a], ran[ran[a].dda_master]))
    BY <1>3 DEF Follow, MasterSeen
  <2> QED BY <1>1, <1>3, <2>1 DEF Sound, SlaveOK
<1> HIDE DEF s
<1>4. ASSUME NEW a \in Axes
      PROVE  /\ Sound(s[a]) /\ s[a].asked = ran[a].asked /\ Plain(s[a])
             /\ s[a].running = ran[a].running /\ s[a].pos = ran[a].pos
             /\ s[a].dir = ran[a].dir /\ s[a].vel = ran[a].vel
             /\ ~slave(a) => s[a].mode = ran[a].mode /\ s[a].velocity = ran[a].velocity
             /\ slave(a) =>
                  /\ ~ran[ran[a].dda_master].running => s[a].mode = "HOLD"
                  /\ ran[ran[a].dda_master].running =>
                       /\ s[a].mode = "DDA" /\ s[a].dda_master = ran[a].dda_master
                       /\ s[a].dda_delta = ran[a].dda_delta
                       /\ s[a].dda_master_start = ran[a].dda_master_start
                       /\ s[a].dda_master_delta = ran[a].dda_master_delta
                       /\ Emitted(s[a]) =
                            AtLeast(Expected(ran[a], ran[ran[a].dda_master]), Emitted(ran[a]))
  <2>1. CASE ~slave(a)
    <3>1. s[a] = Sent(ran[a]) /\ Sound(ran[a]) /\ Plain(ran[a])
      BY <1>1, <1>2, <2>1
    <3> HIDE DEF slave
    <3> QED BY <2>1, <3>1, SentFields DEF Plain
  <2>2. CASE slave(a)
    <3> DEFINE k == ran[a].dda_master
               q == Followed(ran[a], ran[k])
    <3>1. /\ k \in Axes /\ ran[k] \in AnyAxis /\ Sound(ran[a]) /\ ran[a].mode = "DDA"
          /\ Plain(ran[a])
      BY <1>1, <1>3, <2>2 DEF Sound
    <3>2. s[a] = Sent(q)
      BY <1>3, <2>2
    <3> HIDE DEF k
    <3>3. /\ Sound(q) /\ q.asked = ran[a].asked
          /\ q.running = ran[a].running /\ q.pos = ran[a].pos /\ q.dir = ran[a].dir
          /\ q.vel = ran[a].vel
          /\ ~ran[k].running => q.mode = "HOLD"
          /\ ran[k].running =>
               /\ q.mode = "DDA" /\ q.dda_master = ran[a].dda_master
               /\ q.dda_delta = ran[a].dda_delta
               /\ q.dda_master_start = ran[a].dda_master_start
               /\ q.dda_master_delta = ran[a].dda_master_delta
               /\ Emitted(q) = AtLeast(Expected(ran[a], ran[k]), Emitted(ran[a]))
      BY <3>1, FollowedFields
    <3> HIDE DEF q
    <3>4. /\ Sound(s[a]) /\ s[a].mode = q.mode /\ s[a].asked = q.asked
          /\ s[a].running = q.running /\ s[a].pos = q.pos /\ s[a].dir = q.dir
          /\ s[a].vel = q.vel
          /\ s[a].dda_master = q.dda_master /\ s[a].dda_delta = q.dda_delta
          /\ s[a].dda_master_start = q.dda_master_start
          /\ s[a].dda_master_delta = q.dda_master_delta
          /\ Emitted(s[a]) = Emitted(q)
      BY <3>2, <3>3, SentFields
    <3>5. Plain(s[a])
      BY <3>1, <3>3, <3>4 DEF Plain
    <3> QED BY <2>2, <3>3, <3>4, <3>5 DEF k
  <2> QED BY <2>1, <2>2
<1>5. s \in [Axes -> AnyAxis]
  <2>1. s = [a \in Axes |-> s[a]]
    BY DEF s, Follow
  <2> QED BY <1>4, <2>1 DEF Sound
<1>6. ASSUME NEW a \in Axes, NEW m \in Axes, Linked(s, a, m)
      PROVE  Pair(s[a], s[m])
  <2>1. /\ slave(a) /\ ran[a] = Read(axis[a], FALSE) /\ ran[a].mode = "DDA"
        /\ Sound(ran[a]) /\ axis[a].mode = "DDA"
    BY <1>1, <1>4, <1>6 DEF Linked
  <2> HIDE DEF slave
  <2>2. /\ ran[a].asked = axis[a].asked /\ ran[a].dda_master = axis[a].dda_master
        /\ ran[a].dda_delta = axis[a].dda_delta
        /\ ran[a].dda_master_start = axis[a].dda_master_start
        /\ ran[a].dda_master_delta = axis[a].dda_master_delta
        /\ ran[a].target_pos = axis[a].target_pos /\ ran[a].dda_start = axis[a].dda_start
    <3> DEFINE f == a \in {}
    <3>1. Sound(axis[a]) /\ f \in BOOLEAN /\ ~f /\ f = FALSE
      BY DEF AxesOK
    <3>2. ran[a] = Read(axis[a], f)
      BY <2>1, <3>1
    <3> HIDE DEF f
    <3> QED BY <3>1, <3>2, ReadFields
  <2>3. m = ran[a].dda_master /\ ran[m].running
    BY <1>4, <1>6, <2>1 DEF Linked
  <2>4. ran[m].asked = axis[m].asked /\ ran[m].asked \in {"line", "slowed"}
    BY <1>1, <1>4, <1>6 DEF Linked
  <2>5. Pair(axis[a], axis[m])
    <3>1. s[a].asked = "line"
      BY <1>6 DEF Linked
    <3>2. ran[a].asked = "line"
      BY <1>4, <3>1
    <3>3. Linked(axis, a, m)
      BY <2>1, <2>2, <2>3, <2>4, <3>2 DEF Linked
    <3> QED BY <3>3 DEF AxesOK
  <2>6. axis[m].mode = "POS" /\ Sound(axis[m]) /\ (m \in faults) \in BOOLEAN
    BY <2>5 DEF Pair, AxesOK
  <2> DEFINE e == Read(axis[m], m \in faults)
  <2>7. Sound(e) /\ OwnMode(e) /\ ran[m] \in Controlled(e)
    BY <2>6, ReadFields DEF After, OwnMode
  <2> HIDE DEF e
  <2>8. ran[m].mode = e.mode /\ ran[m].asked = e.asked
    BY <2>7, ControlledFields DEF Sound
  <2>9. /\ e.mode = "POS" /\ e.pos = axis[m].pos /\ e.dir = axis[m].dir
    BY <2>4, <2>6, <2>8, ReadFields DEF e
  <2>10. /\ ran[m].mode = "POS" /\ ran[m].dir = axis[m].dir /\ ran[m].vel = ran[m].velocity
         /\ ran[m].pos = axis[m].pos + axis[m].dir * ran[m].vel
    BY <2>3, <2>7, <2>8, <2>9, ControlledFields DEF Sound
  <2>11. ~(axis[m].mode = "DDA")
    BY <2>6
  <2>12. /\ s[m].mode = "POS" /\ s[m].running /\ s[m].dir = axis[m].dir
         /\ s[m].vel = s[m].velocity /\ s[m].pos = axis[m].pos + axis[m].dir * s[m].vel
    BY <1>4, <2>3, <2>10, <2>11 DEF slave
  <2>13. s[m].vel \in Nat /\ axis[m].pos \in Int /\ axis[m].dir \in {-1, 1}
    BY <1>4, <2>6, LineAssumption DEF Sound, AnyAxis
  <2>14. ASSUME s[m].dir > 0
         PROVE  /\ s[m].pos >= s[a].dda_master_start
                /\ Near(Emitted(s[a]), s[m].pos - s[a].dda_master_start,
                        Abs(s[a].dda_delta), s[a].dda_master_delta)
    <3>1. axis[m].dir = 1 /\ s[m].pos = axis[m].pos + s[m].vel
      BY <2>12, <2>13, <2>14
    <3>2. /\ axis[a].dda_master_start \in Int /\ axis[a].dda_delta \in Int
          /\ axis[a].dda_master_delta \in Nat /\ axis[a].dda_master_delta > 0
          /\ axis[a].target_pos \in Int /\ axis[a].dda_start \in Int
      BY <2>1 DEF AxesOK, Sound, SlaveOK, AnyAxis
    <3>3. /\ s[a].dda_master_start = axis[a].dda_master_start
          /\ s[a].dda_delta = axis[a].dda_delta
          /\ s[a].dda_master_delta = axis[a].dda_master_delta
          /\ Emitted(s[a]) = AtLeast(Expected(ran[a], ran[m]), Emitted(ran[a]))
      BY <1>4, <2>1, <2>2, <2>3
    <3>4. Emitted(ran[a]) = Emitted(axis[a])
      BY <2>2 DEF Emitted, SlaveDir
    <3> DEFINE x == axis[m].pos - axis[a].dda_master_start
               y == s[m].pos - axis[a].dda_master_start
               d == Abs(axis[a].dda_delta)
               w == axis[a].dda_master_delta
               g == Emitted(axis[a])
    <3>5. axis[m].pos >= axis[a].dda_master_start /\ Near(g, x, d, w)
      BY <2>5, <3>1 DEF Pair
    <3>6. x \in Nat /\ y \in Nat /\ x <= y /\ d \in Nat /\ w \in Nat /\ w > 0
      BY <2>13, <3>1, <3>2, <3>5 DEF Abs
    <3>7. g \in Int
      BY <3>2 DEF Emitted, SlaveDir
    <3>8. ran[m].pos = s[m].pos
      BY <1>4
    <3>9. Expected(ran[a], ran[m]) = (y * d + w \div 2) \div w
      <4>1. AtLeast(y, 0) = y
        BY <3>6 DEF AtLeast
      <4> QED BY <2>2, <3>8, <4>1 DEF Expected
    <3> HIDE DEF x, y, d, w, g
    <3>10. Near(AtLeast((y * d + w \div 2) \div w, g), y, d, w)
      BY <3>5, <3>6, <3>7, NearStep
    <3>11. s[m].pos >= axis[a].dda_master_start
      BY <2>13, <3>1, <3>2, <3>5
    <3> QED BY <3>3, <3>4, <3>9, <3>10, <3>11 DEF y, d, w, g
  <2> QED BY <2>12, <2>13, <2>14 DEF Pair
<1> QED BY <1>4, <1>5, <1>6 DEF AxesOK, s

-----------------------------------------------------------------------------
\* A command that makes the axis b into r, no slave, keeps all axes on their lines,
\* if a master that goes on is still where its slaves think.
LEMMA ReplaceOK ==
  ASSUME AxesOK(axis), NEW b \in Axes, NEW r, Sound(r), Plain(r), r.mode # "DDA",
         axis' = [axis EXCEPT ![b] = r],
         r.asked \in {"line", "slowed"} =>
           /\ axis[b].asked \in {"line", "slowed"}
           /\ \A a \in Axes : Sound(axis[a]) /\ Pair(axis[a], axis[b]) => Pair(axis[a], r)
  PROVE  AxesOK(axis')
<1>1. axis \in [Axes -> AnyAxis] /\ r \in AnyAxis
  BY DEF AxesOK, Sound
<1>2. axis' \in [Axes -> AnyAxis]
  BY <1>1
<1>3. \A a \in Axes : axis'[a] = IF a = b THEN r ELSE axis[a]
  BY <1>1
<1>4. \A a \in Axes : Sound(axis'[a]) /\ Plain(axis'[a])
  BY <1>3 DEF AxesOK
<1>5. ASSUME NEW a \in Axes, NEW m \in Axes, Linked(axis', a, m) PROVE Pair(axis'[a], axis'[m])
  <2>1. a # b /\ axis'[a] = axis[a]
    BY <1>3, <1>5 DEF Linked
  <2>2. CASE m # b
    BY <1>3, <1>5, <2>1, <2>2 DEF Linked, AxesOK
  <2>3. CASE m = b
    <3>1. axis'[m] = r /\ r.asked \in {"line", "slowed"}
      BY <1>3, <1>5, <2>3 DEF Linked
    <3>2. Linked(axis, a, m)
      BY <1>5, <2>1, <2>3, <3>1 DEF Linked
    <3> QED BY <2>1, <2>3, <3>1, <3>2 DEF AxesOK
  <2> QED BY <2>2, <2>3
<1> QED BY <1>2, <1>4, <1>5 DEF AxesOK

\* A master that is stopped on its line stays where its slaves think.
LEMMA StopPair ==
  ASSUME NEW x, Sound(x), NEW r \in AnyAxis, Pair(x, r), NEW smooth,
         NEW q \in StopOne(r, smooth), q.asked \in {"line", "slowed"}
  PROVE  r.asked \in {"line", "slowed"} /\ Pair(x, q)
<1>1. /\ r.asked \in {"line", "slowed"} /\ r.mode = "POS" /\ r.running
      /\ q.mode = "POS" /\ q.running
      /\ \/ q.pos = r.pos /\ q.dir = r.dir
         \/ q.dir = 1 /\ q.pos = r.actual_pos /\ r.vel = 0 /\ r.velocity > 0
      /\ ~(q.vel = 0 /\ q.velocity > 0)
  BY StopFields
<1>2. CASE q.pos = r.pos /\ q.dir = r.dir
  BY <1>1, <1>2 DEF Pair
<1>3. CASE q.dir = 1 /\ q.pos = r.actual_pos /\ r.vel = 0 /\ r.velocity > 0
  <2>1. q.pos = x.dda_master_start /\ Emitted(x) = 0
    BY <1>3 DEF Pair
  <2>2. /\ x.dda_master_start \in Int /\ x.dda_master_delta \in Nat
        /\ Abs(x.dda_delta) \in Int
    BY DEF Sound, AnyAxis, Abs
  <2>3. q.pos - x.dda_master_start = 0 /\ q.pos >= x.dda_master_start
    BY <2>1, <2>2
  <2>4. Near(0, 0, Abs(x.dda_delta), x.dda_master_delta)
    BY <2>2 DEF Near
  <2> QED BY <1>1, <2>1, <2>3, <2>4 DEF Pair
<1> QED BY <1>1, <1>2, <1>3

LEMMA ResetSound ==
  ASSUME NEW r \in AnyAxis
  PROVE  LET q == [r EXCEPT !.mode = "HOLD", !.velocity = 0, !.motion_busy = FALSE,
                            !.running = FALSE, !.pos = 0, !.goal = 0, !.dir = 1, !.vel = 0]
         IN  Sound(q) /\ q.mode = "HOLD" /\ q.asked = r.asked
<1> DEFINE q == [r EXCEPT !.mode = "HOLD", !.velocity = 0, !.motion_busy = FALSE,
                          !.running = FALSE, !.pos = 0, !.goal = 0, !.dir = 1, !.vel = 0]
<1>1. 0 \in 0..Speed /\ 0 \in Int /\ 1 \in {-1, 1}
  BY LineAssumption
<1>2. q \in AnyAxis /\ q.mode = "HOLD" /\ q.asked = r.asked
  BY <1>1 DEF AnyAxis
<1> HIDE DEF q
<1>3. Sound(q)
  BY <1>2 DEF Sound, SlaveOK
<1> QED BY <1>2, <1>3 DEF q

LEMMA AxesInit == Init => AxesOK(axis)
<1> SUFFICES ASSUME Init PROVE AxesOK(axis)
  OBVIOUS
<1>1. 0 \in 0..Speed
  BY LineAssumption
<1>2. Idle \in AnyAxis /\ Idle.mode = "HOLD"
  BY <1>1 DEF Idle, AnyAxis
<1> QED BY <1>2 DEF Init, AxesOK, Sound, SlaveOK, Linked, Plain, Idle

LEMMA TargetsInt ==
  /\ \A t \in Lines \cup Segments : t \in [Axes -> Int]
  /\ \A move \in Moves : move[1] \in Axes /\ move[2] \in Int
BY LineAssumption

LEMMA AxesNext ==
  ASSUME AxesOK(axis), [Next]_vars
  PROVE  AxesOK(axis')
<1>0. axis \in [Axes -> AnyAxis] /\ \A a \in Axes : Sound(axis[a])
  BY DEF AxesOK
<1>1. CASE Pass
  <2>1. PICK faults \in SUBSET Faulty : \E ran :
           /\ \A a \in Axes : ran[a] \in After(faults, a)
           /\ ProcessQueue(Follow(axis, ran))
    BY <1>1, PassParts
  <2>2. PICK ran : /\ \A a \in Axes : ran[a] \in After(faults, a)
                   /\ ProcessQueue(Follow(axis, ran))
    BY <2>1
  <2>3. AxesOK(Follow(axis, ran))
    BY <2>2, PassAxesOK
  <2>4. axis' = Follow(axis, ran) \/ \E t \in Segments : axis' = Interp_Line(Follow(axis, ran), t)
    BY <2>2 DEF ProcessQueue
  <2> QED BY <2>3, <2>4, LineOK, TargetsInt
<1>2. ASSUME NEW t \in Lines, Line(t) PROVE AxesOK(axis')
  BY <1>2, LineOK, TargetsInt DEF Line
<1>3. ASSUME NEW move \in Moves, MoveTo(move[1], move[2]) PROVE AxesOK(axis')
  <2>1. PICK b \in Axes : b = move[1]
    BY TargetsInt
  <2>2. PICK r : r = ApplyPosition(axis[b], move[2])
    OBVIOUS
  <2>3. Sound(r) /\ r.asked = "move" /\ r.mode = "POS"
    BY <1>0, <2>2, TargetsInt, MoveSound
  <2>4. axis' = [axis EXCEPT ![b] = r]
    BY <1>3, <2>1, <2>2 DEF MoveTo
  <2> QED BY <2>3, <2>4, ReplaceOK DEF Plain
<1>4. ASSUME NEW a \in Stops, NEW smooth \in Smooth, Stop(a, smooth) PROVE AxesOK(axis')
  <2>1. a \in Axes
    BY LineAssumption
  <2>2. PICK r \in StopOne(axis[a], smooth) : axis' = [axis EXCEPT ![a] = r]
    BY <1>4 DEF Stop
  <2>3. Sound(r) /\ r.mode \in {"POS", "VEL"} /\ r.asked \in {"stop", "slowed"}
        /\ (r.asked = "slowed" => axis[a].asked \in {"line", "slowed"})
    BY <1>0, <2>1, <2>2, StopFields
  <2>4. ASSUME r.asked \in {"line", "slowed"}, NEW b \in Axes, Pair(axis[b], axis[a])
        PROVE  Pair(axis[b], r)
    BY <1>0, <2>1, <2>2, <2>4, StopPair
  <2>5. Plain(r)
    BY <2>3 DEF Plain
  <2> QED BY <2>1, <2>2, <2>3, <2>4, <2>5, ReplaceOK
<1>5. ASSUME NEW a \in Halts, Halt(a) PROVE AxesOK(axis')
  <2>1. a \in Axes
    BY LineAssumption
  <2>2. PICK r \in Halted(axis[a]) : axis' = [axis EXCEPT ![a] = r]
    BY <1>5 DEF Halt
  <2>3. Sound(r) /\ r.mode = "POS" /\ r.asked = "stop"
    BY <1>0, <2>1, <2>2, HaltFields
  <2> QED BY <2>1, <2>2, <2>3, ReplaceOK DEF Plain
<1>6. ASSUME NEW smooth \in Smooth, Abort(smooth) PROVE AxesOK(axis')
  <2>1. /\ axis' = [a \in Axes |-> axis'[a]]
        /\ \A a \in Axes : axis'[a] \in StopOne(axis[a], smooth)
    BY <1>6 DEF Abort, Outcomes
  <2>2. \A a \in Axes : Sound(axis'[a]) /\ axis'[a].mode \in {"POS", "VEL"} /\ Plain(axis'[a])
    BY <1>0, <2>1, StopFields DEF Plain
  <2>3. axis' \in [Axes -> AnyAxis]
    BY <2>1, <2>2 DEF Sound
  <2> QED BY <2>2, <2>3 DEF AxesOK, Linked
<1>7. ASSUME NEW a \in Axes, ResetDone(a) PROVE AxesOK(axis')
  <2>1. PICK r : /\ axis' = [axis EXCEPT ![a] = r]
                 /\ Sound(r) /\ r.mode = "HOLD" /\ r.asked = axis[a].asked
    BY <1>0, <1>7, ResetSound DEF ResetDone
  <2>2. r.asked = "fault"
    BY <1>7, <2>1 DEF ResetDone
  <2> QED BY <2>1, <2>2, ReplaceOK DEF Plain
<1>8. CASE QueueCommand
  BY <1>8 DEF QueueCommand
<1>9. CASE UNCHANGED axis
  BY <1>9
<1> QED
  BY <1>1, <1>2, <1>3, <1>4, <1>5, <1>6, <1>7, <1>8, <1>9 DEF Next, LineLoops, Spin, vars

QueueTypes ==
  queue \in Seq(Segments) /\ Len(queue) <= Capacity /\ paused \in BOOLEAN

LEMMA NoneQueued == <<>> \in Seq(Segments) /\ Len(<<>>) <= Capacity
<1>1. <<>> \in Seq(Segments) /\ Len(<<>>) = 0
  OBVIOUS
<1> QED BY <1>1, LineAssumption

LEMMA QueueStepTypes == QueueTypes /\ [QueueNext]_qvars => QueueTypes'
<1> SUFFICES ASSUME QueueTypes, [QueueNext]_qvars PROVE QueueTypes'
  OBVIOUS
<1> USE DEF QueueTypes
<1>1. ASSUME NEW seg \in Segments, Put(seg) PROVE QueueTypes'
  BY <1>1, LineAssumption DEF Put
<1>2. ASSUME NEW seg \in Segments, Take(seg) PROVE QueueTypes'
  <2>1. queue # <<>> /\ queue' = Tail(queue) /\ paused' = paused
    BY <1>2 DEF Take
  <2>2. Tail(queue) \in Seq(Segments) /\ Len(Tail(queue)) <= Len(queue)
    BY <2>1
  <2> QED BY <2>1, <2>2, LineAssumption
<1>3. CASE Flush
  BY <1>3, NoneQueued DEF Flush
<1> QED BY <1>1, <1>2, <1>3 DEF QueueNext, Pause, Resume, qvars

\* Whatever lines and what interferes with them do, a step puts, takes, flushes, pauses or
\* resumes, or leaves the queue.
LEMMA LineQueueStep == [Next]_vars => [QueueNext]_qvars
<1> SUFFICES ASSUME [Next]_vars PROVE QueueNext \/ UNCHANGED qvars
  OBVIOUS
<1>1. CASE Pass
  BY <1>1, PassParts DEF ProcessQueue, QueueNext
<1>2. CASE QueueCommand
  BY <1>2 DEF QueueCommand, QueueNext
<1>3. CASE UNCHANGED vars \/ Spin \/ \E t \in Lines : LineLoops(t)
  BY <1>3 DEF vars, qvars, Spin, LineLoops
<1>4. CASE \E smooth \in Smooth : Abort(smooth)
  BY <1>4 DEF Abort, QueueNext
<1> QED BY <1>1, <1>2, <1>3, <1>4 DEF Next, Line, MoveTo, Stop, Halt, ResetDone

LEMMA QueueNextTypes == QueueTypes /\ [Next]_vars => QueueTypes'
BY LineQueueStep, QueueStepTypes

\* A line that hangs does so for ever.
LEMMA LoopsOn == [Next]_vars => looping' = looping \/ looping' = TRUE
<1> SUFFICES ASSUME [Next]_vars PROVE looping' = looping \/ looping' = TRUE
  OBVIOUS
<1>1. CASE Pass
  BY <1>1, PassParts DEF ProcessQueue
<1>2. CASE \E t \in Lines : Line(t) \/ LineLoops(t)
  BY <1>2 DEF Line, LineLoops, Command
<1>3. CASE UNCHANGED vars \/ Spin
  BY <1>3 DEF Spin, vars
<1> QED
  BY <1>1, <1>2, <1>3
     DEF Next, MoveTo, Stop, Halt, Abort, ResetDone, QueueCommand, Command

IInv == AxesOK(axis) /\ QueueTypes /\ looping \in BOOLEAN

LEMMA Inductive == (Init => IInv) /\ (IInv /\ [Next]_vars => IInv')
<1>1. Init => QueueTypes /\ looping \in BOOLEAN
  BY NoneQueued DEF Init, QueueInit, QueueTypes
<1>2. AxesOK(axis) /\ [Next]_vars => AxesOK(axis)'
  BY AxesNext DEF AxesOK, Linked
<1>3. looping \in BOOLEAN /\ [Next]_vars => looping' \in BOOLEAN
  BY LoopsOn
<1> QED BY <1>1, <1>2, <1>3, AxesInit, QueueNextTypes DEF IInv

LEMMA Invariance == Spec => []IInv
BY Inductive, PTL DEF Spec

\* Axes, queue and the hanging of a line keep their types, and a slave's share of its master's speed stays
\* within the speed limit (motion_api.c:1571-1623).
THEOREM TypeCorrect == Spec => []TypeOK
<1>1. AxesOK(axis) => axis \in [Axes -> AxisState]
  BY PlainState DEF AxesOK
<1>2. IInv => TypeOK
  BY <1>1 DEF IInv, QueueTypes, TypeOK
<1> QED BY <1>2, Invariance, PTL

\* No slave follows a master that has ended: they end in the same pass, for every
\* number of axes, whatever replaces or stops the line (motion_api.c:340).
THEOREM SlavesEndWithMaster == Spec => []EndsTogether
<1>1. IInv => EndsTogether
  BY DEF IInv, AxesOK, Linked, Pair, EndsTogether, OnLine
<1> QED BY <1>1, Invariance, PTL

\* A slave is within half a pulse of its share of its master's way on every line that
\* is led in the positive sense, for every number of axes, all lines and all speeds
\* (motion_api.c:1571-1579).
THEOREM LinesAreStraight == Spec => []Straight
<1>1. IInv => Straight
  <2> SUFFICES ASSUME IInv, NEW a \in Axes, NEW m \in Axes, OnLine(a, m), axis[m].dir > 0
               PROVE  ~OffLine(a, m)
    BY DEF Straight
  <2>1. Pair(axis[a], axis[m]) /\ Sound(axis[a]) /\ Sound(axis[m])
    BY DEF IInv, AxesOK, Linked, OnLine
  <2> DEFINE x == axis[m].pos - axis[a].dda_master_start
             w == axis[a].dda_master_delta
             d == Abs(axis[a].dda_delta)
             e == Emitted(axis[a])
  <2>2. axis[m].pos >= axis[a].dda_master_start /\ Near(e, x, d, w)
    BY <2>1 DEF Pair
  <2>3. x \in Nat /\ w \in Int /\ d \in Int /\ e \in Int
    BY <2>1, <2>2 DEF Sound, AnyAxis, Abs, Emitted, SlaveDir
  <2>4. Abs(x) = x
    BY <2>3 DEF Abs
  <2> DEFINE n == e * w - x * d
  <2>5. n \in Int
    BY <2>3
  <2>6. -w <= 2 * n /\ 2 * n <= w
    BY <2>2 DEF Near
  <2>7. OffLine(a, m) <=> 2 * Abs(n) > w
    BY <2>4 DEF OffLine
  <2> HIDE DEF n
  <2> QED BY <2>3, <2>5, <2>6, <2>7 DEF Abs
<1> QED BY <1>1, Invariance, PTL

-----------------------------------------------------------------------------
\* What no pass changes but a fault: what the axis was told and the line it is on.
SameTask(r, q) ==
  /\ q.asked = r.asked /\ q.cmd_target_pos = r.cmd_target_pos
  /\ q.goal = r.goal /\ q.dir = r.dir
  /\ q.dda_master = r.dda_master /\ q.dda_start = r.dda_start /\ q.dda_delta = r.dda_delta
  /\ q.dda_master_start = r.dda_master_start /\ q.dda_master_delta = r.dda_master_delta

LEMMA ReadTask ==
  ASSUME NEW r \in AnyAxis, NEW f \in BOOLEAN
  PROVE  LET q == Read(r, f)
         IN  /\ q \in AnyAxis /\ q.actual_pos = r.sent /\ q.fault = f
             /\ f => q.mode = "HOLD" /\ q.asked = "fault" /\ q.target_pos = r.sent
             /\ ~f => /\ SameTask(r, q) /\ q.mode = r.mode /\ q.target_pos = r.target_pos
                      /\ q.running = r.running /\ q.pos = r.pos
                      /\ q.motion_busy = r.motion_busy
<1> DEFINE e == [r EXCEPT !.actual_pos = r.sent, !.fault = f]
<1>1. /\ e \in AnyAxis /\ SameTask(r, e) /\ e.mode = r.mode /\ e.target_pos = r.target_pos
      /\ e.running = r.running /\ e.pos = r.pos /\ e.motion_busy = r.motion_busy
      /\ e.actual_pos = r.sent /\ e.fault = f
  BY DEF AnyAxis, SameTask
<1>2. Read(r, f) = IF f THEN Faulted(e) ELSE e
  BY DEF Read
<1> HIDE DEF e
<1>3. /\ Faulted(e) \in AnyAxis /\ Faulted(e).mode = "HOLD" /\ Faulted(e).asked = "fault"
      /\ Faulted(e).target_pos = e.actual_pos /\ Faulted(e).actual_pos = e.actual_pos
      /\ Faulted(e).fault = e.fault
  <2>1. 0 \in 0..Speed
    BY LineAssumption
  <2> QED BY <1>1, <2>1 DEF Faulted, AnyAxis
<1> QED BY <1>1, <1>2, <1>3

LEMMA SteppedTask ==
  ASSUME NEW r \in AnyAxis, NEW q \in Stepped(r)
  PROVE  /\ q \in AnyAxis /\ SameTask(r, q) /\ q.mode = r.mode
         /\ q.target_pos = r.target_pos /\ q.motion_busy = r.motion_busy
         /\ q.actual_pos = r.actual_pos /\ q.fault = r.fault
         /\ -Speed <= q.pos - r.pos /\ q.pos - r.pos <= Speed
         /\ ~r.running => q = r
         /\ r.running /\ ~q.running => /\ q.pos \in {r.pos, r.goal}
                                       /\ -Speed <= r.goal - r.pos /\ r.goal - r.pos <= Speed
<1>0. 0 \in 0..Speed /\ r.pos \in Int /\ r.goal \in Int /\ r.dir \in {-1, 1} /\ Speed \in Nat
  BY LineAssumption DEF AnyAxis
<1>1. CASE ~r.running
  BY <1>0, <1>1 DEF Stepped, SameTask
<1>2. ASSUME r.running, NEW v \in 0..Speed, q = [r EXCEPT !.pos = @ + r.dir * v, !.vel = v]
      PROVE  /\ q \in AnyAxis /\ SameTask(r, q) /\ q.mode = r.mode
             /\ q.target_pos = r.target_pos /\ q.motion_busy = r.motion_busy
             /\ q.actual_pos = r.actual_pos /\ q.fault = r.fault
             /\ -Speed <= q.pos - r.pos /\ q.pos - r.pos <= Speed /\ q.running = r.running
  <2>1. PICK to \in Int : /\ to = r.pos + r.dir * v
                          /\ -Speed <= to - r.pos /\ to - r.pos <= Speed
    BY <1>0
  <2>2. q = [r EXCEPT !.pos = to, !.vel = v]
    BY <1>2, <2>1
  <2> QED BY <2>1, <2>2 DEF AnyAxis, SameTask
<1>3. ASSUME NEW to \in {e \in {r.pos, r.goal} : Abs(r.goal - r.pos) <= Speed},
             q = [r EXCEPT !.running = FALSE, !.pos = to, !.vel = 0]
      PROVE  /\ q \in AnyAxis /\ SameTask(r, q) /\ q.mode = r.mode
             /\ q.target_pos = r.target_pos /\ q.motion_busy = r.motion_busy
             /\ q.actual_pos = r.actual_pos /\ q.fault = r.fault
             /\ -Speed <= q.pos - r.pos /\ q.pos - r.pos <= Speed
             /\ q.pos \in {r.pos, r.goal}
             /\ -Speed <= r.goal - r.pos /\ r.goal - r.pos <= Speed
  <2>1. -Speed <= r.goal - r.pos /\ r.goal - r.pos <= Speed /\ to \in {r.pos, r.goal}
    BY <1>0, <1>3 DEF Abs
  <2>2. -Speed <= to - r.pos /\ to - r.pos <= Speed /\ to \in Int
    BY <1>0, <2>1
  <2>3. /\ q \in AnyAxis /\ SameTask(r, q) /\ q.mode = r.mode
        /\ q.target_pos = r.target_pos /\ q.motion_busy = r.motion_busy
        /\ q.actual_pos = r.actual_pos /\ q.fault = r.fault /\ q.pos = to
    BY <1>0, <1>3, <2>2 DEF AnyAxis, SameTask
  <2> QED BY <2>1, <2>2, <2>3
<1>4. CASE r.running
  <2>1. \/ \E v \in 0..Speed : q = [r EXCEPT !.pos = @ + r.dir * v, !.vel = v]
        \/ \E to \in {e \in {r.pos, r.goal} : Abs(r.goal - r.pos) <= Speed} :
             q = [r EXCEPT !.running = FALSE, !.pos = to, !.vel = 0]
    BY <1>4 DEF Stepped
  <2> QED BY <1>2, <1>3, <1>4, <2>1
<1> QED BY <1>1, <1>4

\* A pass over an axis that is no slave: a positioning one advances with its planner, and
\* ends within a cycle's way of its target.
LEMMA ControlledTask ==
  ASSUME NEW r \in AnyAxis, OwnMode(r), NEW q \in Controlled(r)
  PROVE  /\ q \in AnyAxis /\ SameTask(r, q) /\ q.mode = r.mode
         /\ q.actual_pos = r.actual_pos /\ q.fault = r.fault
         /\ -(Speed + Window) <= q.pos - r.pos /\ q.pos - r.pos <= Speed + Window
         /\ r.mode = "POS" =>
              /\ q.target_pos = q.pos
              /\ q.running => r.running /\ q.motion_busy = r.motion_busy
              /\ ~r.running => q.pos = r.pos
              /\ r.goal = r.cmd_target_pos =>
                   /\ -Speed <= q.pos - r.pos /\ q.pos - r.pos <= Speed
                   /\ r.running /\ ~q.running =>
                        /\ q.pos \in {r.pos, r.goal}
                        /\ -Speed <= r.goal - r.pos /\ r.goal - r.pos <= Speed
         /\ r.mode # "POS" => /\ q.target_pos = r.target_pos /\ q.pos = r.pos
                              /\ q.running = r.running
<1>0. 0 \in 0..Speed /\ Speed \in Nat /\ Window \in Nat /\ r.pos \in Int
  BY LineAssumption DEF AnyAxis
<1>1. CASE r.mode = "POS"
  <2>1. PICK p \in Stepped(r) :
          q = IF r.running /\ ~p.running THEN Arrived(p)
              ELSE [p EXCEPT !.target_pos = p.pos, !.velocity = p.vel]
    BY <1>1 DEF Controlled
  <2>2. /\ p \in AnyAxis /\ SameTask(r, p) /\ p.mode = r.mode
        /\ p.target_pos = r.target_pos /\ p.motion_busy = r.motion_busy
        /\ p.actual_pos = r.actual_pos /\ p.fault = r.fault
        /\ -Speed <= p.pos - r.pos /\ p.pos - r.pos <= Speed
        /\ ~r.running => p = r
        /\ r.running /\ ~p.running => /\ p.pos \in {r.pos, r.goal}
                                      /\ -Speed <= r.goal - r.pos /\ r.goal - r.pos <= Speed
    BY <2>1, SteppedTask
  <2>3. CASE r.running /\ ~p.running
    <3> DEFINE at == IF Abs(p.cmd_target_pos - p.pos) <= Window THEN p.cmd_target_pos ELSE p.pos
    <3>1. q = [p EXCEPT !.velocity = 0, !.motion_busy = FALSE, !.target_pos = at, !.pos = at]
      BY <2>1, <2>3 DEF Arrived
    <3>2. /\ at \in Int /\ -Window <= at - p.pos /\ at - p.pos <= Window
          /\ at \in {p.pos, p.cmd_target_pos}
      BY <1>0, <2>2 DEF AnyAxis, Abs
    <3> HIDE DEF at
    <3>3. /\ q \in AnyAxis /\ SameTask(p, q) /\ q.mode = p.mode /\ q.running = p.running
          /\ q.actual_pos = p.actual_pos /\ q.fault = p.fault
          /\ q.target_pos = at /\ q.pos = at
      BY <1>0, <2>2, <3>1, <3>2 DEF AnyAxis, SameTask
    <3>4. p.pos \in Int /\ r.goal \in Int /\ p.cmd_target_pos = r.cmd_target_pos
      BY <2>2 DEF AnyAxis, SameTask
    <3>5. -(Speed + Window) <= at - r.pos /\ at - r.pos <= Speed + Window
      BY <1>0, <2>2, <3>2, <3>4
    <3>6. r.goal = r.cmd_target_pos =>
            -Speed <= at - r.pos /\ at - r.pos <= Speed /\ at \in {r.pos, r.goal}
      BY <1>0, <2>2, <2>3, <3>2, <3>4
    <3>7. SameTask(r, q)
      BY <2>2, <3>3 DEF SameTask
    <3> QED BY <1>1, <2>2, <2>3, <3>3, <3>5, <3>6, <3>7
  <2>4. CASE ~(r.running /\ ~p.running)
    <3>1. q = [p EXCEPT !.target_pos = p.pos, !.velocity = p.vel]
      BY <2>1, <2>4
    <3>2. /\ q \in AnyAxis /\ SameTask(p, q) /\ q.mode = p.mode /\ q.running = p.running
          /\ q.actual_pos = p.actual_pos /\ q.fault = p.fault /\ q.motion_busy = p.motion_busy
          /\ q.target_pos = p.pos /\ q.pos = p.pos
      BY <2>2, <3>1 DEF AnyAxis, SameTask
    <3>3. SameTask(r, q)
      BY <2>2, <3>2 DEF SameTask
    <3>4. -(Speed + Window) <= p.pos - r.pos /\ p.pos - r.pos <= Speed + Window
      BY <1>0, <2>2 DEF AnyAxis
    <3>5. q.running => r.running
      BY <2>2, <3>2
    <3> QED BY <1>1, <2>2, <2>4, <3>2, <3>3, <3>4, <3>5
  <2> QED BY <2>3, <2>4
<1>2. CASE r.mode \in {"VEL", "HOLD"}
  <2>1. PICK v \in {0, r.velocity} : q = [r EXCEPT !.velocity = v]
    BY <1>2 DEF Controlled
  <2>2. v \in 0..Speed
    BY <1>0, <2>1 DEF AnyAxis
  <2>3. /\ q \in AnyAxis /\ SameTask(r, q) /\ q.mode = r.mode /\ q.running = r.running
        /\ q.actual_pos = r.actual_pos /\ q.fault = r.fault
        /\ q.target_pos = r.target_pos /\ q.pos = r.pos
    BY <2>1, <2>2 DEF AnyAxis, SameTask
  <2> QED BY <1>0, <1>2, <2>3
<1> QED BY <1>1, <1>2 DEF OwnMode

LEMMA SentTask ==
  ASSUME NEW r \in AnyAxis
  PROVE  LET q == Sent(r)
         IN  /\ q \in AnyAxis /\ SameTask(r, q) /\ q.mode = r.mode
             /\ q.target_pos = r.target_pos /\ q.sent = r.target_pos
             /\ q.actual_pos = r.actual_pos /\ q.fault = r.fault
             /\ q.running = r.running /\ q.pos = r.pos /\ q.motion_busy = r.motion_busy
BY DEF Sent, AnyAxis, SameTask

\* Axis_ControlCycle reads no fault.
LEMMA ReadPlain ==
  ASSUME NEW r \in AnyAxis
  PROVE  LET q == Read(r, FALSE)
         IN  /\ q \in AnyAxis /\ q.actual_pos = r.sent /\ ~q.fault
             /\ SameTask(r, q) /\ q.mode = r.mode /\ q.target_pos = r.target_pos
<1>1. PICK f \in BOOLEAN : f = FALSE
  OBVIOUS
<1>2. Read(r, f) = Read(r, FALSE)
  BY <1>1
<1>3. /\ Read(r, f) \in AnyAxis /\ Read(r, f).actual_pos = r.sent /\ Read(r, f).fault = f
      /\ SameTask(r, Read(r, f)) /\ Read(r, f).mode = r.mode
      /\ Read(r, f).target_pos = r.target_pos
  BY <1>1, ReadTask
<1> QED BY <1>1, <1>2, <1>3

\* A slave r follows its master m.
LEMMA FollowedTask ==
  ASSUME NEW r, Sound(r), r.mode = "DDA", NEW m \in AnyAxis
  PROVE  LET q  == Followed(r, m)
             at == r.dda_start + SlaveDir(r) * AtLeast(Expected(r, m), Emitted(r))
         IN  /\ q \in AnyAxis /\ SameTask(r, q)
             /\ q.actual_pos = r.actual_pos /\ q.fault = r.fault
             /\ q.pos = r.pos /\ q.running = r.running
             /\ m.running => q.mode = "DDA" /\ q.target_pos = at
             /\ ~m.running => /\ q.mode = "HOLD"
                              /\ q.target_pos = IF Abs(r.cmd_target_pos - at) = 1
                                                THEN r.cmd_target_pos ELSE at
<1> DEFINE at == r.dda_start + SlaveDir(r) * AtLeast(Expected(r, m), Emitted(r))
           q == Followed(r, m)
<1>1. /\ r \in AnyAxis
      /\ r.dda_master_delta \in Nat /\ r.dda_master_delta > 0
      /\ r.dda_delta \in Int /\ Abs(r.dda_delta) <= r.dda_master_delta
      /\ r.dda_start \in Int /\ r.target_pos \in Int /\ r.cmd_target_pos \in Int
      /\ r.dda_master_start \in Int
  BY DEF Sound, SlaveOK, AnyAxis
<1>2. SlaveDir(r) \in {-1, 1} /\ Emitted(r) \in Int /\ Abs(r.dda_delta) \in Nat
  BY <1>1 DEF SlaveDir, Emitted, Abs
<1>3. m.pos \in Int /\ m.vel \in 0..Speed
  BY DEF AnyAxis
<1>4. Expected(r, m) \in Int
  <2>1. AtLeast(m.pos - r.dda_master_start, 0) \in Nat
    BY <1>1, <1>3 DEF AtLeast
  <2> QED BY <1>1, <1>2, <2>1, ShareRounded DEF Expected
<1>5. AtLeast(Expected(r, m), Emitted(r)) \in Int
  BY <1>2, <1>4 DEF AtLeast
<1>6. at \in Int
  BY <1>1, <1>2, <1>5
<1>7. CASE m.running
  <2>1. PICK v \in 0..Speed : v = (m.vel * Abs(r.dda_delta)) \div r.dda_master_delta
    BY <1>1, <1>2, <1>3, ShareOfSpeed
  <2>2. q = [r EXCEPT !.target_pos = at, !.velocity = v]
    BY <1>7, <2>1 DEF Followed
  <2> HIDE DEF q, at
  <2>3. /\ q \in AnyAxis /\ SameTask(r, q) /\ q.mode = "DDA" /\ q.target_pos = at
        /\ q.actual_pos = r.actual_pos /\ q.fault = r.fault
        /\ q.pos = r.pos /\ q.running = r.running
    BY <1>1, <1>6, <2>2 DEF AnyAxis, SameTask
  <2> QED BY <1>7, <2>3 DEF q, at
<1>8. CASE ~m.running
  <2> DEFINE to == IF Abs(r.cmd_target_pos - at) = 1 THEN r.cmd_target_pos ELSE at
  <2>1. q = [r EXCEPT !.target_pos = to, !.velocity = 0, !.motion_busy = FALSE,
                      !.mode = "HOLD"]
    BY <1>8 DEF Followed
  <2>2. to \in Int
    BY <1>1, <1>6
  <2>3. 0 \in 0..Speed
    BY LineAssumption
  <2> HIDE DEF q, to, at
  <2>4. /\ q \in AnyAxis /\ SameTask(r, q) /\ q.mode = "HOLD" /\ q.target_pos = to
        /\ q.actual_pos = r.actual_pos /\ q.fault = r.fault
        /\ q.pos = r.pos /\ q.running = r.running
    BY <1>1, <2>1, <2>2, <2>3 DEF AnyAxis, SameTask
  <2> QED BY <1>8, <2>4 DEF q, to, at
<1> QED BY <1>7, <1>8

\* What a pass makes of an axis: its drive faults, ...
Tripped(r, q) ==
  /\ q.mode = "HOLD" /\ q.asked = "fault" /\ q.fault
  /\ q.target_pos = r.sent /\ q.sent = r.sent /\ q.actual_pos = r.sent

\* ... it is no slave and goes its own way, ...
Advanced(r, q) ==
  /\ SameTask(r, q) /\ q.mode = r.mode
  /\ q.sent = q.target_pos /\ q.actual_pos = r.sent /\ ~q.fault
  /\ r.mode = "POS" =>
       /\ q.target_pos = q.pos
       /\ q.running => r.running /\ q.motion_busy = r.motion_busy
       /\ ~r.running => q.pos = r.pos
       /\ r.goal = r.cmd_target_pos =>
            /\ -Speed <= q.pos - r.pos /\ q.pos - r.pos <= Speed
            /\ r.running /\ ~q.running => /\ q.pos \in {r.pos, r.goal}
                                          /\ -Speed <= r.goal - r.pos
                                          /\ r.goal - r.pos <= Speed
  /\ r.mode # "POS" => q.target_pos = r.target_pos

\* ... or it follows its master, which the pass has left at m.
CaughtUp(r, m) == r.dda_start + SlaveDir(r) * AtLeast(Expected(r, m), Emitted(r))

Caught(r, m, q) ==
  /\ SameTask(r, q)
  /\ q.sent = q.target_pos /\ q.actual_pos = r.sent /\ ~q.fault
  /\ m.running => q.mode = "DDA" /\ q.target_pos = CaughtUp(r, m)
  /\ ~m.running => /\ q.mode = "HOLD"
                   /\ q.target_pos = IF Abs(r.cmd_target_pos - CaughtUp(r, m)) = 1
                                     THEN r.cmd_target_pos ELSE CaughtUp(r, m)

LEMMA PassCases ==
  ASSUME \A b \in Axes : Sound(axis[b]) /\ axis[b].mode # "ARC",
         NEW faults, NEW ran, \A b \in Axes : ran[b] \in After(faults, b), NEW a \in Axes
  PROVE  LET s == Follow(axis, ran)
         IN  /\ s[a] \in AnyAxis
             /\ -(Speed + Window) <= s[a].pos - axis[a].pos
             /\ s[a].pos - axis[a].pos <= Speed + Window
             /\ \/ Tripped(axis[a], s[a])
                \/ axis[a].mode # "DDA" /\ Advanced(axis[a], s[a])
                \/ axis[a].mode = "DDA" /\ Caught(axis[a], s[axis[a].dda_master], s[a])
<1> DEFINE s == Follow(axis, ran)
<1>0. Speed \in Nat /\ Window \in Nat
  BY LineAssumption
<1>1. ASSUME NEW b \in Axes
      PROVE  /\ ran[b] \in AnyAxis /\ axis[b] \in AnyAxis
             /\ -(Speed + Window) <= ran[b].pos - axis[b].pos
             /\ ran[b].pos - axis[b].pos <= Speed + Window
             /\ ran[b].actual_pos = axis[b].sent
             /\ \/ /\ ran[b].mode = "HOLD" /\ ran[b].asked = "fault" /\ ran[b].fault
                   /\ ran[b].target_pos = axis[b].sent
                \/ /\ axis[b].mode # "DDA" /\ Advanced(axis[b], Sent(ran[b]))
                \/ /\ axis[b].mode = "DDA" /\ ran[b] = Read(axis[b], FALSE)
  <2>1. axis[b] \in AnyAxis /\ (b \in faults) \in BOOLEAN /\ axis[b].pos \in Int
    BY DEF Sound, AnyAxis
  <2> DEFINE f == b \in faults
             e == Read(axis[b], f)
  <2>2. ran[b] \in IF axis[b].mode = "DDA" THEN {e} ELSE Controlled(e)
    BY DEF After
  <2>3. f \in BOOLEAN
    BY <2>1
  <2> HIDE DEF f
  <2>4. /\ e \in AnyAxis /\ e.actual_pos = axis[b].sent /\ e.fault = f
        /\ f => e.mode = "HOLD" /\ e.asked = "fault" /\ e.target_pos = axis[b].sent
        /\ ~f => /\ SameTask(axis[b], e) /\ e.mode = axis[b].mode
                 /\ e.target_pos = axis[b].target_pos
                 /\ e.running = axis[b].running /\ e.pos = axis[b].pos
                 /\ e.motion_busy = axis[b].motion_busy
    BY <2>1, <2>3, ReadTask
  <2>5. e.pos = axis[b].pos
    <3>1. [axis[b] EXCEPT !.actual_pos = axis[b].sent, !.fault = f].pos = axis[b].pos
      BY <2>1 DEF AnyAxis
    <3>2. [axis[b] EXCEPT !.actual_pos = axis[b].sent, !.fault = f] \in AnyAxis
      BY <2>1, <2>3 DEF AnyAxis
    <3> DEFINE g == [axis[b] EXCEPT !.actual_pos = axis[b].sent, !.fault = f]
    <3> HIDE DEF g
    <3>3. Faulted(g).pos = g.pos
      BY <3>2 DEF Faulted, AnyAxis, g
    <3> QED BY <3>1, <3>3 DEF Read, g
  <2>6. OwnMode(e) =>
          \A q \in Controlled(e) :
             /\ q \in AnyAxis /\ SameTask(e, q) /\ q.mode = e.mode
             /\ q.actual_pos = e.actual_pos /\ q.fault = e.fault
             /\ -(Speed + Window) <= q.pos - e.pos /\ q.pos - e.pos <= Speed + Window
             /\ e.mode = "POS" =>
                  /\ q.target_pos = q.pos
                  /\ q.running => e.running /\ q.motion_busy = e.motion_busy
                  /\ ~e.running => q.pos = e.pos
                  /\ e.goal = e.cmd_target_pos =>
                       /\ -Speed <= q.pos - e.pos /\ q.pos - e.pos <= Speed
                       /\ e.running /\ ~q.running =>
                            /\ q.pos \in {e.pos, e.goal}
                            /\ -Speed <= e.goal - e.pos /\ e.goal - e.pos <= Speed
             /\ e.mode # "POS" => q.target_pos = e.target_pos
    BY <2>4, ControlledTask
  <2> HIDE DEF e
  <2>7. CASE axis[b].mode = "DDA"
    <3>1. ran[b] = e
      BY <2>2, <2>7
    <3>2. -(Speed + Window) <= e.pos - axis[b].pos /\ e.pos - axis[b].pos <= Speed + Window
      BY <1>0, <2>1, <2>5
    <3>3. CASE f
      BY <2>1, <2>4, <3>1, <3>2, <3>3
    <3>4. CASE ~f
      <4>1. f = FALSE
        BY <2>3, <3>4
      <4>2. ran[b] = Read(axis[b], FALSE)
        BY <3>1, <4>1 DEF e
      <4> QED BY <2>1, <2>4, <2>7, <3>1, <3>2, <4>2
    <3> QED BY <3>3, <3>4
  <2>8. CASE axis[b].mode # "DDA"
    <3>1. OwnMode(e) /\ ran[b] \in Controlled(e)
      BY <2>1, <2>2, <2>3, <2>4, <2>8 DEF OwnMode, AnyAxis
    <3>2. CASE f
      BY <2>1, <2>4, <2>5, <2>6, <3>1, <3>2 DEF SameTask
    <3>3. CASE ~f
      <4>1. ran[b] \in AnyAxis
        BY <2>6, <3>1
      <4> DEFINE q == Sent(ran[b])
      <4>2. /\ SameTask(ran[b], q) /\ q.mode = ran[b].mode
            /\ q.target_pos = ran[b].target_pos /\ q.sent = ran[b].target_pos
            /\ q.actual_pos = ran[b].actual_pos /\ q.fault = ran[b].fault
            /\ q.running = ran[b].running /\ q.pos = ran[b].pos
            /\ q.motion_busy = ran[b].motion_busy
        BY <4>1, SentTask
      <4> HIDE DEF q
      <4>3. SameTask(axis[b], q)
        BY <2>4, <2>6, <3>1, <3>3, <4>2 DEF SameTask
      <4>4. e.goal = axis[b].goal /\ e.cmd_target_pos = axis[b].cmd_target_pos
        BY <2>4, <3>3 DEF SameTask
      <4>5. Advanced(axis[b], q)
        BY <2>4, <2>6, <3>1, <3>3, <4>2, <4>3, <4>4 DEF Advanced
      <4> QED BY <2>1, <2>4, <2>5, <2>6, <2>8, <3>1, <4>1, <4>5 DEF q
    <3> QED BY <3>2, <3>3
  <2> QED BY <2>7, <2>8
<1>2. ASSUME NEW b \in Axes PROVE Sound(Read(axis[b], FALSE))
  BY ReadFields
<1>3. ASSUME NEW b \in Axes, axis[b].mode # "DDA" \/ ran[b].mode = "HOLD"
      PROVE  s[b] = Sent(ran[b])
  BY <1>3 DEF Follow
<1>4. ASSUME NEW b \in Axes, axis[b].mode = "DDA", ran[b].mode # "HOLD"
      PROVE  /\ s[b] = Sent(Followed(ran[b], ran[ran[b].dda_master]))
             /\ ran[b] = Read(axis[b], FALSE) /\ Sound(ran[b])
             /\ ran[b].mode = "DDA" /\ SameTask(axis[b], ran[b])
             /\ ran[b].target_pos = axis[b].target_pos /\ ~ran[b].fault
             /\ ran[b].dda_master \in Axes
  <2>1. ran[b] = Read(axis[b], FALSE)
    BY <1>1, <1>4
  <2>2. /\ SameTask(axis[b], ran[b]) /\ ran[b].mode = "DDA" /\ ~ran[b].fault
        /\ ran[b].target_pos = axis[b].target_pos
    BY <1>1, <1>4, <2>1, ReadPlain
  <2>3. Sound(ran[b])
    BY <1>2, <2>1
  <2>4. s[b] = Sent(Followed(ran[b], ran[ran[b].dda_master]))
    BY <1>4 DEF Follow, MasterSeen
  <2> QED BY <2>1, <2>2, <2>3, <2>4 DEF Sound, SlaveOK
<1> HIDE DEF s
<1>5. ASSUME NEW b \in Axes
      PROVE  s[b] \in AnyAxis /\ s[b].pos = ran[b].pos /\ s[b].running = ran[b].running
  <2>1. CASE axis[b].mode # "DDA" \/ ran[b].mode = "HOLD"
    BY <1>1, <1>3, <2>1, SentTask
  <2>2. CASE axis[b].mode = "DDA" /\ ran[b].mode # "HOLD"
    <3> DEFINE k == ran[b].dda_master
               q == Followed(ran[b], ran[k])
    <3>1. s[b] = Sent(q) /\ k \in Axes /\ Sound(ran[b]) /\ ran[b].mode = "DDA"
      BY <1>4, <2>2
    <3> HIDE DEF k
    <3>2. ran[k] \in AnyAxis
      BY <1>1, <3>1
    <3>3. q \in AnyAxis /\ q.pos = ran[b].pos /\ q.running = ran[b].running
      BY <3>1, <3>2, FollowedTask
    <3> HIDE DEF q
    <3> QED BY <3>1, <3>3, SentTask
  <2> QED BY <2>1, <2>2
<1>6. CASE axis[a].mode # "DDA"
  <2>1. s[a] = Sent(ran[a])
    BY <1>3, <1>6
  <2>2. CASE Advanced(axis[a], Sent(ran[a]))
    BY <1>1, <1>5, <1>6, <2>1, <2>2 DEF s
  <2>3. CASE /\ ran[a].mode = "HOLD" /\ ran[a].asked = "fault" /\ ran[a].fault
             /\ ran[a].target_pos = axis[a].sent
    <3>1. Tripped(axis[a], Sent(ran[a]))
      BY <1>1, <2>3, SentTask DEF Tripped, SameTask
    <3> QED BY <1>1, <1>5, <2>1, <3>1 DEF s
  <2> QED BY <1>1, <1>6, <2>2, <2>3
<1>7. CASE axis[a].mode = "DDA" /\ ran[a].mode = "HOLD"
  <2>1. s[a] = Sent(ran[a])
    BY <1>3, <1>7
  <2>2. ran[a] # Read(axis[a], FALSE)
    BY <1>1, <1>7, ReadPlain
  <2>3. Tripped(axis[a], Sent(ran[a]))
    BY <1>1, <1>7, <2>2, SentTask DEF Tripped, SameTask
  <2> QED BY <1>1, <1>5, <2>1, <2>3 DEF s
<1>8. CASE axis[a].mode = "DDA" /\ ran[a].mode # "HOLD"
  <2> DEFINE m == axis[a].dda_master
             q == Followed(ran[a], ran[m])
  <2>1. /\ ran[a].dda_master = m /\ m \in Axes /\ ran[m] \in AnyAxis
    BY <1>1, <1>4, <1>8 DEF SameTask
  <2>2. /\ s[a] = Sent(q) /\ Sound(ran[a]) /\ ran[a].mode = "DDA"
        /\ SameTask(axis[a], ran[a]) /\ ran[a].target_pos = axis[a].target_pos
        /\ ~ran[a].fault /\ ran[a].actual_pos = axis[a].sent
    BY <1>1, <1>4, <1>8, <2>1
  <2> HIDE DEF m
  <2>3. /\ CaughtUp(axis[a], s[m]) = CaughtUp(ran[a], ran[m])
        /\ s[m].running = ran[m].running /\ ran[a].cmd_target_pos = axis[a].cmd_target_pos
    BY <1>5, <2>1, <2>2 DEF CaughtUp, Expected, SlaveDir, Emitted, SameTask
  <2>4. /\ q \in AnyAxis /\ SameTask(ran[a], q)
        /\ q.actual_pos = ran[a].actual_pos /\ q.fault = ran[a].fault
        /\ ran[m].running => q.mode = "DDA" /\ q.target_pos = CaughtUp(ran[a], ran[m])
        /\ ~ran[m].running =>
             /\ q.mode = "HOLD"
             /\ q.target_pos = IF Abs(ran[a].cmd_target_pos - CaughtUp(ran[a], ran[m])) = 1
                               THEN ran[a].cmd_target_pos ELSE CaughtUp(ran[a], ran[m])
    BY <2>1, <2>2, FollowedTask DEF CaughtUp
  <2> HIDE DEF q
  <2>5. /\ s[a] \in AnyAxis /\ SameTask(q, s[a]) /\ s[a].mode = q.mode
        /\ s[a].target_pos = q.target_pos /\ s[a].sent = q.target_pos
        /\ s[a].actual_pos = q.actual_pos /\ s[a].fault = q.fault
    BY <2>2, <2>4, SentTask
  <2>6. SameTask(axis[a], s[a])
    BY <2>2, <2>4, <2>5 DEF SameTask
  <2>7. Caught(axis[a], s[m], s[a])
    BY <2>2, <2>3, <2>4, <2>5, <2>6 DEF Caught
  <2> QED BY <1>1, <1>5, <1>8, <2>7 DEF s, m
<1> QED BY <1>6, <1>7, <1>8

\* A slave that is not ahead of its share goes no further than its master.
LEMMA ShareStep ==
  ASSUME NEW x \in Nat, NEW y \in Nat, NEW v \in Nat, v > 0, y <= x + v,
         NEW d \in Nat, NEW w \in Nat, w > 0, d <= w,
         NEW e \in Int, 2 * (x * d - e * w) <= w
  PROVE  LET c == AtLeast((y * d + w \div 2) \div w, e)
         IN  c \in Int /\ e <= c /\ c <= e + v
<1> DEFINE f == (y * d + w \div 2) \div w
           nx == x * d
           ny == y * d
           nv == v * d
<1>1. f \in Int /\ -w <= 2 * (f * w - ny) /\ 2 * (f * w - ny) <= w
  BY ShareRounded
<1>2. nx \in Int /\ ny \in Int /\ nv \in Int /\ ny <= nx + nv
  <2>1. y * d <= (x + v) * d
    BY Products
  <2>2. (x + v) * d = x * d + v * d
    OBVIOUS
  <2> QED BY <2>1, <2>2
<1>3. e * w \in Int /\ f * w \in Int /\ v * w \in Int
  BY <1>1
<1>4. 2 * (nx - e * w) <= w
  OBVIOUS
<1>5. nv <= v * w
  <2>1. d * v <= w * v
    BY Products
  <2> QED BY <2>1
<1> HIDE DEF f, nx, ny, nv
<1>6. f <= e + v
  <2> SUFFICES ASSUME f >= e + v + 1 PROVE FALSE
    BY <1>1
  <2>1. (e + v + 1) * w <= f * w
    BY <1>1, Products
  <2>2. (e + v + 1) * w = e * w + v * w + w
    OBVIOUS
  <2>3. v * w <= nv
    BY <1>1, <1>2, <1>3, <1>4, <2>1, <2>2
  <2>4. d = w
    <3> SUFFICES ASSUME d + 1 <= w PROVE FALSE
      OBVIOUS
    <3>1. (d + 1) * v <= w * v
      BY Products
    <3>2. (d + 1) * v = v * d + v /\ w * v = v * w
      OBVIOUS
    <3> QED BY <1>2, <1>3, <2>3, <3>1, <3>2 DEF nv
  <2>5. nx = x * w /\ ny = y * w
    BY <2>4 DEF nx, ny
  <2>6. f <= y
    <3> SUFFICES ASSUME f >= y + 1 PROVE FALSE
      BY <1>1
    <3>1. (y + 1) * w <= f * w
      BY <1>1, Products
    <3>2. (y + 1) * w = y * w + w /\ y * w \in Int
      OBVIOUS
    <3> QED BY <1>1, <1>3, <2>5, <3>1, <3>2
  <2>7. x <= e
    <3> SUFFICES ASSUME e + 1 <= x PROVE FALSE
      OBVIOUS
    <3>1. (e + 1) * w <= x * w
      BY Products
    <3>2. (e + 1) * w = e * w + w /\ x * w \in Int
      OBVIOUS
    <3> QED BY <1>3, <1>4, <2>5, <3>1, <3>2
  <2> QED BY <1>1, <2>6, <2>7
<1>7. AtLeast(f, e) \in Int /\ e <= AtLeast(f, e) /\ AtLeast(f, e) <= e + v
  BY <1>1, <1>6 DEF AtLeast
<1> QED BY <1>7 DEF f

\* When its master is almost at the end, so is a slave.
LEMMA EndShare ==
  ASSUME NEW e \in Int, NEW x \in Int, NEW d \in Nat, NEW w \in Nat, w > 0, d <= w,
         Near(e, x, d, w), -Speed <= w - x, w - x <= Speed
  PROVE  -Speed <= d - e /\ d - e <= Speed
<1> DEFINE nx == x * d
           nw == w * d
           ns == Speed * d
           nr == Speed * w
<1>0. Speed \in Nat
  BY LineAssumption
<1>1. nx \in Int /\ nw \in Int /\ ns \in Int /\ nr \in Int /\ ns <= nr
  <2>1. d * Speed <= w * Speed
    BY <1>0, Products
  <2> QED BY <1>0, <2>1
<1>2. -ns <= nw - nx /\ nw - nx <= ns
  <2>1. (w - x) * d <= Speed * d
    BY <1>0, Products
  <2>2. (x - w) * d <= Speed * d
    BY <1>0, Products
  <2>3. (w - x) * d = w * d - x * d /\ (x - w) * d = x * d - w * d
    OBVIOUS
  <2> QED BY <1>0, <2>1, <2>2, <2>3
<1>3. -w <= 2 * (e * w - nx) /\ 2 * (e * w - nx) <= w /\ e * w \in Int
  BY DEF Near
<1>4. nw = d * w
  OBVIOUS
<1> HIDE DEF nx, nw, ns
<1>5. d - e <= Speed
  <2> SUFFICES ASSUME e + Speed + 1 <= d PROVE FALSE
    BY <1>0
  <2>1. (e + Speed + 1) * w <= d * w
    BY <1>0, Products
  <2>2. (e + Speed + 1) * w = e * w + Speed * w + w
    BY <1>0
  <2> QED BY <1>1, <1>2, <1>3, <1>4, <2>1, <2>2
<1>6. e - d <= Speed
  <2> SUFFICES ASSUME d + Speed + 1 <= e PROVE FALSE
    BY <1>0
  <2>1. (d + Speed + 1) * w <= e * w
    BY <1>0, Products
  <2>2. (d + Speed + 1) * w = d * w + Speed * w + w
    BY <1>0
  <2> QED BY <1>1, <1>2, <1>3, <1>4, <2>1, <2>2
<1> QED BY <1>0, <1>5, <1>6

\* What an axis was told agrees with how it stands: at rest it has been sent where
\* it is to be, its planner or its share is where it was sent or where the drive was
\* when it was planned, and a positioning planner goes to the commanded target.
Standing(r) ==
  /\ r.mode = "HOLD" => r.target_pos = r.sent
  /\ r.mode = "VEL" => r.asked = "stop"
  /\ r.asked \in {"none", "fault"} => r.mode = "HOLD"
  /\ r.mode = "DDA" =>
       /\ r.asked = "line" /\ r.target_pos \in {r.sent, r.actual_pos} /\ Emitted(r) >= 0
       /\ r.cmd_target_pos = r.dda_start + r.dda_delta
  /\ r.mode = "POS" /\ r.asked \in {"line", "move"} =>
       r.pos \in {r.sent, r.actual_pos} /\ r.goal = r.cmd_target_pos
  /\ r.mode = "POS" /\ r.asked = "line" =>
       IF r.running THEN r.motion_busy
       ELSE r.pos = r.sent /\ -Speed <= r.goal - r.pos /\ r.goal - r.pos <= Speed
  /\ r.mode = "HOLD" /\ r.asked = "line" => r.dda_master \in Axes

\* The master q of the slave r has its whole way, and no more, to go.
Course(r, q) ==
  /\ q.dir < 0 => q.pos <= r.dda_master_start
  /\ q.asked = "line" /\ q.dir > 0 => q.goal = r.dda_master_start + r.dda_master_delta

\* Those of a line that have ended are near its end (EndsNear).
NearEnd(s) ==
  \A a \in Axes :
    /\ s[a].asked = "line" /\ s[a].mode = "HOLD"
    /\ s[s[a].dda_master].asked = "line" /\ s[s[a].dda_master].dir > 0
    => Abs(s[a].cmd_target_pos - s[a].target_pos) <= Speed

AxesStand(s) ==
  /\ AxesOK(s) /\ \A a \in Axes : Standing(s[a])
  /\ \A a, m \in Axes : Linked(s, a, m) => Course(s[a], s[m])
  /\ NearEnd(s)

LEMMA StandInit == Init => AxesStand(axis)
<1> SUFFICES ASSUME Init PROVE AxesStand(axis)
  OBVIOUS
<1>1. AxesOK(axis)
  BY AxesInit
<1>2. \A a \in Axes : axis[a] = Idle
  BY DEF Init
<1>3. Standing(Idle) /\ Idle.mode = "HOLD" /\ Idle.asked = "none"
  BY DEF Idle, Standing
<1> QED BY <1>1, <1>2, <1>3 DEF AxesStand, NearEnd, Linked

LEMMA MasterStands ==
  ASSUME NEW r \in AnyAxis, NEW to \in Int, to # r.actual_pos
  PROVE  LET q == LineMaster(r, to)
         IN  /\ Standing(q) /\ q.mode = "POS" /\ q.goal = to
             /\ q.pos = r.actual_pos /\ q.sent = r.sent /\ q.actual_pos = r.actual_pos
             /\ q.dir = (IF to < r.actual_pos THEN -1 ELSE 1) /\ q.fault = r.fault
<1> DEFINE told == LineTold(r, to)
           plan == Planned(told, to)
           q == LineMaster(r, to)
<1>1. /\ told \in AnyAxis /\ told.actual_pos = r.actual_pos /\ told.sent = r.sent
      /\ told.asked = "line" /\ told.motion_busy /\ told.cmd_target_pos = to
      /\ told.fault = r.fault
  BY DEF LineTold, AnyAxis
<1> HIDE DEF told
<1>2. /\ plan \in AnyAxis /\ plan.actual_pos = r.actual_pos /\ plan.sent = r.sent
      /\ plan.asked = "line" /\ plan.motion_busy /\ plan.cmd_target_pos = to
      /\ plan.running /\ plan.pos = r.actual_pos /\ plan.goal = to
      /\ plan.dir = (IF to < r.actual_pos THEN -1 ELSE 1) /\ plan.fault = r.fault
  <2>1. 0 \in 0..Speed
    BY LineAssumption
  <2>2. PICK dir \in {-1, 1} : dir = (IF to < r.actual_pos THEN -1 ELSE 1)
    OBVIOUS
  <2>3. plan = [told EXCEPT !.running = TRUE, !.pos = r.actual_pos, !.goal = to,
                            !.dir = dir, !.vel = 0]
    BY <1>1, <2>2 DEF Planned
  <2> HIDE DEF plan
  <2> QED BY <1>1, <2>1, <2>2, <2>3 DEF AnyAxis
<1> HIDE DEF plan
<1>3. q = [plan EXCEPT !.mode = "POS", !.dda_master = -1]
  BY DEF LineMaster, plan, told
<1> HIDE DEF q
<1>4. /\ q.actual_pos = r.actual_pos /\ q.sent = r.sent /\ q.mode = "POS"
      /\ q.asked = "line" /\ q.motion_busy /\ q.cmd_target_pos = to
      /\ q.running /\ q.pos = r.actual_pos /\ q.goal = to
      /\ q.dir = (IF to < r.actual_pos THEN -1 ELSE 1) /\ q.fault = r.fault
  BY <1>2, <1>3 DEF AnyAxis
<1> QED BY <1>4 DEF Standing, q

LEMMA SlaveStands ==
  ASSUME NEW r \in AnyAxis, NEW to \in Int, NEW m \in Axes, NEW start \in Int, NEW way \in Nat
  PROVE  LET q == LineSlave(r, to, to - r.actual_pos, m, start, way)
         IN  /\ Standing(q) /\ q.mode = "DDA" /\ q.dda_master = m
             /\ q.dda_master_start = start /\ q.dda_master_delta = way
             /\ q.sent = r.sent /\ q.actual_pos = r.actual_pos /\ q.fault = r.fault
<1> DEFINE told == LineTold(r, to)
           q == LineSlave(r, to, to - r.actual_pos, m, start, way)
<1>1. /\ told \in AnyAxis /\ told.actual_pos = r.actual_pos /\ told.sent = r.sent
      /\ told.asked = "line" /\ told.cmd_target_pos = to /\ told.fault = r.fault
  BY DEF LineTold, AnyAxis
<1> HIDE DEF told
<1>2. PICK d \in Int : d = to - r.actual_pos /\ to = r.actual_pos + d
  BY DEF AnyAxis
<1>3. q = [told EXCEPT
             !.mode = "DDA", !.target_pos = r.actual_pos, !.dda_master = m,
             !.dda_start = r.actual_pos, !.dda_delta = d,
             !.dda_master_start = start, !.dda_master_delta = way]
  BY <1>2 DEF LineSlave, told
<1> HIDE DEF q
<1>4. /\ q.actual_pos = r.actual_pos /\ q.sent = r.sent /\ q.mode = "DDA"
      /\ q.asked = "line" /\ q.cmd_target_pos = to /\ q.target_pos = r.actual_pos
      /\ q.dda_start = r.actual_pos /\ q.dda_delta = d /\ q.dda_master = m
      /\ q.dda_master_start = start /\ q.dda_master_delta = way /\ q.fault = r.fault
  BY <1>1, <1>3 DEF AnyAxis
<1>5. Emitted(q) = 0
  BY <1>4 DEF Emitted, SlaveDir, AnyAxis
<1> QED BY <1>2, <1>4, <1>5 DEF Standing, q

\* A line leaves all axes standing, and none where it was sent.
LEMMA LineStands ==
  ASSUME NEW s, AxesStand(s), NEW t \in [Axes -> Int]
  PROVE  LET u == Interp_Line(s, t)
         IN  /\ AxesStand(u)
             /\ \A a \in Axes : /\ u[a].sent = s[a].sent /\ u[a].actual_pos = s[a].actual_pos
                                /\ u[a].fault = s[a].fault
<1> DEFINE u == Interp_Line(s, t)
<1>1. CASE u = s
  BY <1>1
<1>2. CASE u # s
  <2>0. s \in [Axes -> AnyAxis]
    BY DEF AxesStand, AxesOK
  <2>1. PICK m \in Axes :
          /\ t[m] # s[m].actual_pos
          /\ u[m] = LineMaster(s[m], t[m])
          /\ \A a \in Axes \ {m} :
               /\ Abs(t[a] - s[a].actual_pos) <= Abs(t[m] - s[m].actual_pos)
               /\ u[a] = LineSlave(s[a], t[a], t[a] - s[a].actual_pos, m, s[m].actual_pos,
                                   Abs(t[m] - s[m].actual_pos))
    BY <1>2, <2>0, LineFields
  <2>2. AxesOK(u)
    BY LineOK DEF AxesStand
  <2> HIDE DEF u
  <2>3. s[m] \in AnyAxis /\ s[m].actual_pos \in Int /\ t[m] \in Int
    BY <2>0 DEF AnyAxis
  <2>4. PICK way \in Nat : way = Abs(t[m] - s[m].actual_pos)
    BY <2>3 DEF Abs
  <2>5. /\ Standing(u[m]) /\ u[m].mode = "POS" /\ u[m].goal = t[m]
        /\ u[m].pos = s[m].actual_pos /\ u[m].sent = s[m].sent
        /\ u[m].actual_pos = s[m].actual_pos /\ u[m].fault = s[m].fault
        /\ u[m].dir = (IF t[m] < s[m].actual_pos THEN -1 ELSE 1)
    BY <2>1, <2>3, MasterStands
  <2>6. ASSUME NEW a \in Axes \ {m}
        PROVE  /\ Standing(u[a]) /\ u[a].mode = "DDA" /\ u[a].dda_master = m
               /\ u[a].dda_master_start = s[m].actual_pos /\ u[a].dda_master_delta = way
               /\ u[a].sent = s[a].sent /\ u[a].actual_pos = s[a].actual_pos
               /\ u[a].fault = s[a].fault
    <3>1. s[a] \in AnyAxis /\ t[a] \in Int
      BY <2>0
    <3>2. PICK r \in AnyAxis, to \in Int, start \in Int :
            r = s[a] /\ to = t[a] /\ start = s[m].actual_pos
      BY <2>3, <3>1
    <3>3. u[a] = LineSlave(r, to, to - r.actual_pos, m, start, way)
      BY <2>1, <2>4, <3>2
    <3> QED BY <3>2, <3>3, SlaveStands
  <2>7. \A a \in Axes : /\ Standing(u[a]) /\ u[a].mode # "HOLD"
                        /\ u[a].sent = s[a].sent /\ u[a].actual_pos = s[a].actual_pos
                        /\ u[a].fault = s[a].fault
    BY <2>5, <2>6
  <2>8. ASSUME NEW a \in Axes, NEW k \in Axes, Linked(u, a, k) PROVE Course(u[a], u[k])
    <3>1. a # m /\ k = m
      BY <2>5, <2>6, <2>8 DEF Linked
    <3>2. u[a].dda_master_start = u[m].pos /\ u[a].dda_master_delta = way
      BY <2>5, <2>6, <3>1
    <3>3. u[m].dir > 0 => u[m].goal = u[m].pos + way
      BY <2>3, <2>4, <2>5 DEF Abs
    <3>4. u[m].pos <= u[m].pos
      BY <2>3, <2>5
    <3> QED BY <3>1, <3>2, <3>3, <3>4 DEF Course
  <2> QED BY <2>2, <2>7, <2>8 DEF AxesStand, NearEnd, u
<1> QED BY <1>1, <1>2

\* The other commands: an axis whose command is not a line's.
LEMMA MoveStands ==
  ASSUME NEW r \in AnyAxis, NEW to \in Int
  PROVE  LET q == ApplyPosition(r, to)
         IN  Standing(q) /\ q.sent = r.sent /\ q.actual_pos = r.actual_pos
<1> DEFINE plan == Planned(r, to)
           q == ApplyPosition(r, to)
<1>1. /\ plan \in AnyAxis /\ plan.actual_pos = r.actual_pos /\ plan.sent = r.sent
      /\ plan.pos = r.actual_pos /\ plan.goal = to
  <2>1. 0 \in 0..Speed
    BY LineAssumption
  <2> QED BY <2>1 DEF Planned, AnyAxis
<1> HIDE DEF plan
<1>2. q = [plan EXCEPT !.mode = "POS", !.cmd_target_pos = to,
                       !.motion_busy = TRUE, !.asked = "move"]
  BY DEF ApplyPosition, plan
<1> HIDE DEF q
<1>3. /\ q.mode = "POS" /\ q.asked = "move" /\ q.cmd_target_pos = to /\ q.goal = to
      /\ q.sent = r.sent /\ q.actual_pos = r.actual_pos /\ q.pos = r.actual_pos
  BY <1>1, <1>2 DEF AnyAxis
<1> QED BY <1>3 DEF Standing, q

LEMMA BrakedKept ==
  ASSUME NEW r \in AnyAxis, NEW q \in Braked(r)
  PROVE  /\ q \in AnyAxis /\ q.asked = r.asked /\ q.mode = r.mode
         /\ q.sent = r.sent /\ q.actual_pos = r.actual_pos
<1>1. PICK g \in Int : q = [r EXCEPT !.goal = g]
  BY SlowedSound
<1> QED BY <1>1 DEF AnyAxis

LEMMA StopStands ==
  ASSUME NEW r \in AnyAxis, NEW smooth, NEW q \in StopOne(r, smooth)
  PROVE  Standing(q) /\ q.sent = r.sent /\ q.actual_pos = r.actual_pos
<1> DEFINE s == [r EXCEPT !.target_pos = r.actual_pos,
                          !.asked = IF @ \in {"line", "slowed"} /\ r.mode = "POS" /\ r.running
                                    THEN "slowed" ELSE "stop"]
           f == [s EXCEPT !.running = TRUE, !.pos = r.actual_pos,
                          !.vel = r.velocity, !.dir = 1]
<1>1. /\ s \in AnyAxis /\ s.asked \in {"stop", "slowed"}
      /\ (s.asked = "slowed" => r.mode = "POS")
      /\ s.sent = r.sent /\ s.actual_pos = r.actual_pos
  BY DEF AnyAxis
<1>2. /\ f \in AnyAxis /\ f.asked = s.asked /\ f.sent = r.sent
      /\ f.actual_pos = r.actual_pos
  <2>1. r.velocity \in 0..Speed /\ r.actual_pos \in Int
    BY DEF AnyAxis
  <2> HIDE DEF s
  <2> QED BY <1>1, <2>1 DEF AnyAxis
<1>3. ASSUME NEW z \in AnyAxis, z.asked = s.asked, z.sent = r.sent,
             z.actual_pos = r.actual_pos, NEW b \in Braked(z),
             q = [b EXCEPT !.mode = "POS", !.motion_busy = TRUE]
      PROVE  Standing(q) /\ q.sent = r.sent /\ q.actual_pos = r.actual_pos
  <2>1. b \in AnyAxis /\ b.asked = s.asked /\ b.sent = r.sent /\ b.actual_pos = r.actual_pos
    BY <1>3, BrakedKept
  <2>2. /\ q.mode = "POS" /\ q.asked = s.asked /\ q.sent = r.sent
        /\ q.actual_pos = r.actual_pos
    BY <1>3, <2>1 DEF AnyAxis
  <2> QED BY <1>1, <2>2 DEF Standing
<1>4. CASE Moving(r)
  <2>1. PICK b \in Braked(s) : q = [b EXCEPT !.mode = "POS", !.motion_busy = TRUE]
    BY <1>4 DEF StopOne
  <2> HIDE DEF s
  <2> QED BY <1>1, <1>3, <2>1
<1>5. CASE ~Moving(r) /\ r.velocity > 0 /\ smooth
  <2>1. PICK b \in Slowed(f) : q = [b EXCEPT !.mode = "POS", !.motion_busy = TRUE]
    BY <1>5 DEF StopOne
  <2>2. b \in Braked(f)
    BY <2>1 DEF Braked
  <2> HIDE DEF s, f
  <2> QED BY <1>2, <1>3, <2>1, <2>2
<1>6. CASE ~Moving(r) /\ ~(r.velocity > 0 /\ smooth) /\ r.mode = "POS"
  <2>1. q = [s EXCEPT !.velocity = 0, !.motion_busy = FALSE]
    BY <1>6 DEF StopOne
  <2>2. s.mode = "POS"
    BY <1>6 DEF AnyAxis
  <2> HIDE DEF s
  <2>3. /\ q.mode = "POS" /\ q.asked = s.asked /\ q.sent = r.sent
        /\ q.actual_pos = r.actual_pos
    BY <1>1, <2>1, <2>2 DEF AnyAxis
  <2> QED BY <1>1, <2>3 DEF Standing
<1>7. CASE ~Moving(r) /\ ~(r.velocity > 0 /\ smooth) /\ r.mode # "POS"
  <2>1. q = [s EXCEPT !.mode = "VEL", !.cmd_target_pos = r.actual_pos]
    BY <1>7 DEF StopOne
  <2> HIDE DEF s
  <2>2. /\ q.mode = "VEL" /\ q.asked = s.asked /\ q.sent = r.sent
        /\ q.actual_pos = r.actual_pos
    BY <1>1, <2>1 DEF AnyAxis
  <2> QED BY <1>1, <1>7, <2>2 DEF Standing
<1> QED BY <1>4, <1>5, <1>6, <1>7

LEMMA HaltStands ==
  ASSUME NEW r \in AnyAxis, NEW q \in Halted(r)
  PROVE  Standing(q) /\ q.sent = r.sent /\ q.actual_pos = r.actual_pos
<1>1. PICK b \in Braked(r) :
        q = [b EXCEPT !.mode = "POS", !.motion_busy = TRUE, !.asked = "stop"]
  BY DEF Halted, Braked
<1>2. b \in AnyAxis /\ b.sent = r.sent /\ b.actual_pos = r.actual_pos
  BY <1>1, BrakedKept
<1>3. /\ q.mode = "POS" /\ q.asked = "stop" /\ q.sent = r.sent
      /\ q.actual_pos = r.actual_pos
  BY <1>1, <1>2 DEF AnyAxis
<1> QED BY <1>3 DEF Standing

LEMMA ResetStands ==
  ASSUME NEW r \in AnyAxis, Standing(r), r.asked = "fault"
  PROVE  LET q == [r EXCEPT !.mode = "HOLD", !.velocity = 0, !.motion_busy = FALSE,
                            !.running = FALSE, !.pos = 0, !.goal = 0, !.dir = 1, !.vel = 0]
         IN  Standing(q) /\ q.sent = r.sent /\ q.actual_pos = r.actual_pos
<1> DEFINE q == [r EXCEPT !.mode = "HOLD", !.velocity = 0, !.motion_busy = FALSE,
                          !.running = FALSE, !.pos = 0, !.goal = 0, !.dir = 1, !.vel = 0]
<1>1. /\ q.mode = "HOLD" /\ q.asked = "fault" /\ q.target_pos = r.target_pos
      /\ q.sent = r.sent /\ q.actual_pos = r.actual_pos
  BY DEF AnyAxis
<1> HIDE DEF q
<1>2. r.target_pos = r.sent
  BY DEF Standing
<1> QED BY <1>1, <1>2 DEF Standing, q

\* A slave with the sense and the share of its line.
LEMMA SlaveInts ==
  ASSUME NEW r, Sound(r)
  PROVE  /\ r \in AnyAxis /\ SlaveDir(r) \in {-1, 1} /\ Emitted(r) \in Int
         /\ Abs(r.dda_delta) \in Nat /\ r.dda_delta = SlaveDir(r) * Abs(r.dda_delta)
         /\ r.target_pos = r.dda_start + SlaveDir(r) * Emitted(r)
         /\ r.mode = "DDA" => /\ r.dda_master \in Axes /\ r.dda_master_delta \in Nat
                              /\ r.dda_master_delta > 0
                              /\ Abs(r.dda_delta) <= r.dda_master_delta
<1>1. r \in AnyAxis /\ r.dda_delta \in Int /\ r.dda_start \in Int /\ r.target_pos \in Int
      /\ r.dda_master_delta \in Nat
  BY DEF Sound, AnyAxis
<1>2. CASE r.dda_delta >= 0
  <2>1. SlaveDir(r) = 1 /\ Emitted(r) = r.target_pos - r.dda_start /\ Abs(r.dda_delta) = r.dda_delta
    BY <1>1, <1>2 DEF SlaveDir, Emitted, Abs
  <2> QED BY <1>1, <1>2, <2>1 DEF Sound, SlaveOK
<1>3. CASE r.dda_delta < 0
  <2>1. /\ SlaveDir(r) = -1 /\ Emitted(r) = r.dda_start - r.target_pos
        /\ Abs(r.dda_delta) = -r.dda_delta
    BY <1>1, <1>3 DEF SlaveDir, Emitted, Abs
  <2> QED BY <1>1, <1>3, <2>1 DEF Sound, SlaveOK
<1> QED BY <1>1, <1>2, <1>3

\* Where a slave is at the end of a pass.
LEMMA CaughtInts ==
  ASSUME NEW r, Sound(r), r.mode = "DDA", NEW m \in AnyAxis
  PROVE  LET c == AtLeast(Expected(r, m), Emitted(r))
         IN  /\ c \in Int /\ c >= Emitted(r) /\ c \in {Expected(r, m), Emitted(r)}
             /\ CaughtUp(r, m) = r.dda_start + SlaveDir(r) * c /\ CaughtUp(r, m) \in Int
             /\ AtLeast(m.pos - r.dda_master_start, 0) \in Nat
             /\ Near(Expected(r, m), AtLeast(m.pos - r.dda_master_start, 0),
                     Abs(r.dda_delta), r.dda_master_delta)
<1> DEFINE c == AtLeast(Expected(r, m), Emitted(r))
           y == AtLeast(m.pos - r.dda_master_start, 0)
<1>1. /\ SlaveDir(r) \in {-1, 1} /\ Emitted(r) \in Int /\ Abs(r.dda_delta) \in Nat
      /\ r.dda_master_delta \in Nat /\ r.dda_master_delta > 0
      /\ r.dda_start \in Int /\ r.dda_master_start \in Int /\ m.pos \in Int
  BY SlaveInts DEF AnyAxis
<1>2. y \in Nat
  BY <1>1 DEF AtLeast
<1>3. Expected(r, m) = (y * Abs(r.dda_delta) + r.dda_master_delta \div 2) \div r.dda_master_delta
  BY DEF Expected
<1> HIDE DEF y
<1>4. Expected(r, m) \in Int
      /\ Near(Expected(r, m), y, Abs(r.dda_delta), r.dda_master_delta)
  BY <1>1, <1>2, <1>3, ShareRounded DEF Near
<1>5. c \in Int /\ c >= Emitted(r) /\ c \in {Expected(r, m), Emitted(r)}
  BY <1>1, <1>4 DEF AtLeast
<1>6. CaughtUp(r, m) = r.dda_start + SlaveDir(r) * c
  BY DEF CaughtUp
<1> HIDE DEF c
<1>7. r.dda_start + SlaveDir(r) * c \in Int
  BY <1>1, <1>5
<1> QED BY <1>2, <1>4, <1>5, <1>6, <1>7 DEF c, y

\* A pass leaves an axis standing.
LEMMA TrippedStands ==
  ASSUME NEW r, NEW q, Tripped(r, q)
  PROVE  Standing(q)
BY DEF Tripped, Standing

LEMMA AdvancedStands ==
  ASSUME NEW r \in AnyAxis, Standing(r), NEW q \in AnyAxis, Advanced(r, q), OwnMode(r)
  PROVE  Standing(q)
<1>1. /\ q.mode = r.mode /\ q.asked = r.asked /\ q.sent = q.target_pos
      /\ q.goal = r.goal /\ q.cmd_target_pos = r.cmd_target_pos /\ q.dda_master = r.dda_master
  BY DEF Advanced, SameTask
<1>2. CASE r.mode = "POS"
  <2>1. q.pos = q.sent
    BY <1>1, <1>2 DEF Advanced
  <2>2. ASSUME r.asked = "line" PROVE IF q.running THEN q.motion_busy
                  ELSE q.pos = q.sent /\ -Speed <= q.goal - q.pos /\ q.goal - q.pos <= Speed
    <3>0. q.goal = r.cmd_target_pos /\ r.goal = r.cmd_target_pos
      BY <1>1, <1>2, <2>2 DEF Standing
    <3>1. CASE q.running
      BY <1>2, <2>2, <3>1 DEF Advanced, Standing
    <3>2. CASE ~q.running /\ r.running
      <4>1. q.pos \in {r.pos, r.goal} /\ -Speed <= r.goal - r.pos /\ r.goal - r.pos <= Speed
        BY <1>2, <3>0, <3>2 DEF Advanced
      <4>2. r.goal - r.goal = 0 /\ Speed \in Nat
        BY LineAssumption DEF AnyAxis
      <4> QED BY <1>1, <2>1, <3>2, <4>1, <4>2
    <3>3. CASE ~q.running /\ ~r.running
      <4>1. q.pos = r.pos /\ -Speed <= r.goal - r.pos /\ r.goal - r.pos <= Speed
        BY <1>2, <2>2, <3>3 DEF Advanced, Standing
      <4> QED BY <1>1, <2>1, <3>3, <4>1
    <3> QED BY <3>1, <3>2, <3>3
  <2> QED BY <1>1, <1>2, <2>1, <2>2 DEF Standing
<1>3. CASE r.mode \in {"HOLD", "VEL"}
  BY <1>1, <1>3 DEF Standing
<1> QED BY <1>2, <1>3 DEF OwnMode

LEMMA CaughtStands ==
  ASSUME NEW r, Sound(r), Standing(r), r.mode = "DDA", NEW m \in AnyAxis,
         NEW q, Sound(q), Caught(r, m, q)
  PROVE  Standing(q)
<1>1. /\ q.asked = "line" /\ q.sent = q.target_pos
      /\ q.cmd_target_pos = r.cmd_target_pos /\ q.dda_master = r.dda_master
      /\ q.dda_start = r.dda_start /\ q.dda_delta = r.dda_delta
  BY DEF Caught, SameTask, Standing
<1>2. r.dda_master \in Axes
  BY SlaveInts
<1>3. CASE m.running
  <2> DEFINE c == AtLeast(Expected(r, m), Emitted(r))
  <2>1. q.mode = "DDA" /\ q.target_pos = r.dda_start + SlaveDir(r) * c
    BY <1>3, CaughtInts DEF Caught
  <2>2. c \in Int /\ c >= Emitted(r)
    BY CaughtInts
  <2>3. Emitted(r) >= 0 /\ Emitted(r) \in Int /\ SlaveDir(r) \in {-1, 1} /\ r.dda_start \in Int
    BY SlaveInts DEF Standing, AnyAxis
  <2> HIDE DEF c
  <2>4. Emitted(q) = (q.target_pos - r.dda_start) * SlaveDir(r)
    BY <1>1 DEF Emitted, SlaveDir
  <2>5. Emitted(q) = c
    BY <2>1, <2>2, <2>3, <2>4
  <2>6. Emitted(q) >= 0
    BY <2>2, <2>3, <2>5
  <2>7. q.cmd_target_pos = q.dda_start + q.dda_delta
    BY <1>1 DEF Standing
  <2> QED BY <1>1, <2>1, <2>6, <2>7 DEF Standing
<1>4. CASE ~m.running
  BY <1>1, <1>2, <1>4 DEF Caught, Standing
<1> QED BY <1>3, <1>4

\* A slave whose master ends on its line ends within a cycle's way of its target.
LEMMA CaughtEnds ==
  ASSUME NEW r, Sound(r), Standing(r), r.mode = "DDA", NEW k \in AnyAxis, NEW m \in AnyAxis,
         Pair(r, k), Course(r, k), k.asked = "line", k.dir > 0, Standing(k),
         Advanced(k, m), NEW q, Caught(r, m, q), ~m.running
  PROVE  Abs(q.cmd_target_pos - q.target_pos) <= Speed
<1> DEFINE d == Abs(r.dda_delta)
           w == r.dda_master_delta
           x == k.pos - r.dda_master_start
           y == AtLeast(m.pos - r.dda_master_start, 0)
           c == AtLeast(Expected(r, m), Emitted(r))
           e == Emitted(r)
           f == Expected(r, m)
           at == CaughtUp(r, m)
<1>0. Speed \in Nat
  BY LineAssumption
<1>1. /\ d \in Nat /\ w \in Nat /\ w > 0 /\ d <= w /\ e \in Int
      /\ SlaveDir(r) \in {-1, 1} /\ r.dda_delta = SlaveDir(r) * d
      /\ r.dda_master_start \in Int /\ k.pos \in Int /\ m.pos \in Int /\ r.dda_start \in Int
      /\ k.goal \in Int
  BY SlaveInts DEF AnyAxis
<1>2. /\ k.mode = "POS" /\ k.running /\ k.pos >= r.dda_master_start
      /\ Near(e, x, d, w) /\ k.goal = r.dda_master_start + w /\ k.goal = k.cmd_target_pos
  BY DEF Pair, Course, Standing
<1>3. m.pos \in {k.pos, k.goal} /\ -Speed <= k.goal - k.pos /\ k.goal - k.pos <= Speed
  BY <1>2 DEF Advanced
<1>4. /\ c \in Int /\ c \in {f, e} /\ at = r.dda_start + SlaveDir(r) * c
      /\ Near(f, y, d, w) /\ y \in Nat
  BY CaughtInts
<1>5. -Speed <= w - x /\ w - x <= Speed /\ x \in Int
  BY <1>1, <1>2, <1>3
<1>6. -Speed <= w - y /\ w - y <= Speed
  <2>1. CASE m.pos = k.pos
    <3>1. y = x
      BY <1>1, <1>2, <2>1 DEF AtLeast
    <3> QED BY <1>5, <3>1
  <2>2. CASE m.pos = k.goal
    <3>1. y = w
      BY <1>1, <1>2, <2>2 DEF AtLeast
    <3> QED BY <1>0, <1>1, <3>1
  <2> QED BY <1>3, <2>1, <2>2
<1>7. q.cmd_target_pos = r.dda_start + SlaveDir(r) * d
      /\ r.cmd_target_pos = q.cmd_target_pos
  BY <1>1 DEF Caught, SameTask, Standing
<1>8. q.target_pos = IF Abs(q.cmd_target_pos - at) = 1 THEN q.cmd_target_pos ELSE at
  BY <1>7 DEF Caught
<1> HIDE DEF d, w, x, y, c, e, f, at
<1>9. -Speed <= d - c /\ d - c <= Speed
  <2>1. CASE c = e
    BY <1>1, <1>2, <1>5, <2>1, EndShare
  <2>2. CASE c = f
    <3>1. f \in Int
      BY <1>4, <2>2
    <3> QED BY <1>1, <1>4, <1>6, <2>2, <3>1, EndShare
  <2> QED BY <1>4, <2>1, <2>2
<1>10. at \in Int /\ q.cmd_target_pos \in Int
       /\ -Speed <= q.cmd_target_pos - at /\ q.cmd_target_pos - at <= Speed
  BY <1>0, <1>1, <1>4, <1>7, <1>9
<1> QED BY <1>0, <1>8, <1>10 DEF Abs

LEMMA PassStands ==
  ASSUME AxesStand(axis), NEW faults, NEW ran, \A a \in Axes : ran[a] \in After(faults, a)
  PROVE  AxesStand(Follow(axis, ran))
<1> DEFINE s == Follow(axis, ran)
<1>0. /\ AxesOK(axis)
      /\ \A a \in Axes : /\ Sound(axis[a]) /\ axis[a] \in AnyAxis /\ Standing(axis[a])
                         /\ axis[a].mode # "ARC" /\ Plain(axis[a])
  BY DEF AxesStand, AxesOK, Plain
<1>1. AxesOK(s)
  BY <1>0, PassAxesOK
<1>2. ASSUME NEW a \in Axes
      PROVE  /\ s[a] \in AnyAxis /\ Sound(s[a])
             /\ \/ Tripped(axis[a], s[a])
                \/ axis[a].mode # "DDA" /\ Advanced(axis[a], s[a])
                \/ axis[a].mode = "DDA" /\ Caught(axis[a], s[axis[a].dda_master], s[a])
  <2>1. /\ s[a] \in AnyAxis
        /\ \/ Tripped(axis[a], s[a])
           \/ axis[a].mode # "DDA" /\ Advanced(axis[a], s[a])
           \/ axis[a].mode = "DDA" /\ Caught(axis[a], s[axis[a].dda_master], s[a])
    BY <1>0, PassCases
  <2> QED BY <1>1, <2>1 DEF AxesOK
<1> HIDE DEF s
<1>3. ASSUME NEW a \in Axes, axis[a].mode = "DDA"
      PROVE  axis[a].dda_master \in Axes
  BY <1>0, <1>3, SlaveInts
<1>4. ASSUME NEW a \in Axes PROVE Standing(s[a])
  <2>1. CASE Tripped(axis[a], s[a])
    BY <2>1, TrippedStands
  <2>2. CASE axis[a].mode # "DDA" /\ Advanced(axis[a], s[a])
    BY <1>0, <1>2, <2>2, AdvancedStands DEF OwnMode, AnyAxis
  <2>3. CASE axis[a].mode = "DDA" /\ Caught(axis[a], s[axis[a].dda_master], s[a])
    <3>1. s[axis[a].dda_master] \in AnyAxis
      BY <1>2, <1>3, <2>3
    <3> QED BY <1>0, <1>2, <2>3, <3>1, CaughtStands
  <2> QED BY <1>2, <2>1, <2>2, <2>3
\* An axis on a line was on it before.
<1>5. ASSUME NEW a \in Axes, s[a].asked \in {"line", "slowed"}
      PROVE  /\ SameTask(axis[a], s[a]) /\ ~Tripped(axis[a], s[a])
  BY <1>2, <1>5 DEF Tripped, Advanced, Caught
<1>6. ASSUME NEW a \in Axes, NEW m \in Axes, Linked(s, a, m) PROVE Course(s[a], s[m])
  <2>1. s[a].mode = "DDA" /\ s[a].asked = "line" /\ m = s[a].dda_master
        /\ s[m].asked \in {"line", "slowed"}
    BY <1>6 DEF Linked
  <2>2. SameTask(axis[a], s[a]) /\ SameTask(axis[m], s[m]) /\ ~Tripped(axis[m], s[m])
        /\ ~Tripped(axis[a], s[a])
    BY <1>5, <2>1
  <2>3. axis[a].mode = "DDA"
    BY <1>2, <2>1, <2>2 DEF Advanced
  <2>4. Linked(axis, a, m)
    BY <2>1, <2>2, <2>3 DEF Linked, SameTask
  <2>5. Pair(axis[a], axis[m]) /\ Course(axis[a], axis[m])
    BY <1>0, <2>4 DEF AxesStand, AxesOK
  <2>6. Pair(s[a], s[m])
    BY <1>1, <1>6 DEF AxesOK
  <2>7. ASSUME s[m].dir < 0 PROVE s[m].pos <= s[a].dda_master_start
    <3> DEFINE e == Read(axis[m], m \in faults)
    <3>1. axis[m].mode = "POS" /\ axis[m].dir < 0 /\ axis[m].pos <= axis[a].dda_master_start
      BY <2>2, <2>5, <2>7 DEF SameTask, Course, Pair
    <3>2. Sound(axis[m]) /\ (m \in faults) \in BOOLEAN
      BY <1>0
    <3>3. Sound(e) /\ (e.mode = "POS" \/ e.asked = "fault") /\ OwnMode(e)
          /\ (e.mode = "POS" => e.pos = axis[m].pos /\ e.dir = axis[m].dir)
      BY <3>1, <3>2, ReadFields DEF OwnMode
    <3>4. ran[m] \in Controlled(e) /\ s[m] = Sent(ran[m])
      BY <3>1 DEF After, Follow, s
    <3> HIDE DEF e
    <3>5. /\ Sound(ran[m]) /\ ran[m].asked = e.asked
          /\ e.mode = "POS" /\ ran[m].running => ran[m].pos = e.pos + e.dir * ran[m].vel
      BY <3>3, <3>4, ControlledFields DEF Sound
    <3>6. s[m].pos = ran[m].pos /\ s[m].running = ran[m].running /\ s[m].asked = ran[m].asked
      BY <3>4, <3>5, SentFields
    <3>7. e.mode = "POS" /\ ran[m].running
      BY <2>1, <2>6, <3>3, <3>5, <3>6 DEF Pair
    <3>8. s[m].pos = axis[m].pos + axis[m].dir * ran[m].vel
      BY <3>3, <3>5, <3>6, <3>7
    <3>9. ran[m].vel \in Nat /\ axis[m].pos \in Int /\ axis[m].dir = -1
          /\ axis[a].dda_master_start \in Int
      BY <1>0, <3>1, <3>5, LineAssumption DEF Sound, AnyAxis
    <3>10. s[a].dda_master_start = axis[a].dda_master_start
      BY <2>2 DEF SameTask
    <3> QED BY <3>1, <3>8, <3>9, <3>10
  <2>8. ASSUME s[m].asked = "line", s[m].dir > 0
        PROVE  s[m].goal = s[a].dda_master_start + s[a].dda_master_delta
    BY <2>2, <2>5, <2>8 DEF SameTask, Course
  <2> QED BY <2>7, <2>8 DEF Course
<1>7. NearEnd(s)
  <2> SUFFICES ASSUME NEW a \in Axes, s[a].asked = "line", s[a].mode = "HOLD",
                      s[s[a].dda_master].asked = "line", s[s[a].dda_master].dir > 0
               PROVE  Abs(s[a].cmd_target_pos - s[a].target_pos) <= Speed
    BY DEF NearEnd
  <2> DEFINE m == s[a].dda_master
  <2>1. m \in Axes
    BY <1>4 DEF Standing
  <2>2. /\ SameTask(axis[a], s[a]) /\ SameTask(axis[m], s[m])
        /\ ~Tripped(axis[a], s[a]) /\ ~Tripped(axis[m], s[m])
    BY <1>5, <2>1
  <2>3. /\ axis[a].dda_master = m /\ axis[a].asked = "line" /\ axis[m].asked = "line"
        /\ axis[m].dir > 0 /\ axis[a].cmd_target_pos = s[a].cmd_target_pos
    BY <2>2 DEF SameTask
  <2> HIDE DEF m
  <2>4. CASE axis[a].mode # "DDA" /\ Advanced(axis[a], s[a])
    <3>1. axis[a].mode = "HOLD" /\ s[a].target_pos = axis[a].target_pos
      BY <2>4 DEF Advanced
    <3>2. Abs(axis[a].cmd_target_pos - axis[a].target_pos) <= Speed
      BY <2>3, <3>1 DEF AxesStand, NearEnd
    <3> QED BY <2>3, <3>1, <3>2
  <2>5. CASE axis[a].mode = "DDA" /\ Caught(axis[a], s[m], s[a])
    <3>1. Linked(axis, a, m)
      BY <2>3, <2>5 DEF Linked
    <3>2. Pair(axis[a], axis[m]) /\ Course(axis[a], axis[m]) /\ axis[m].mode = "POS"
      BY <1>0, <2>1, <3>1 DEF AxesStand, AxesOK, Pair
    <3>3. Advanced(axis[m], s[m])
      BY <1>2, <2>1, <2>2, <3>2
    <3>4. ~s[m].running
      BY <2>5 DEF Caught
    <3> QED BY <1>0, <1>2, <2>1, <2>3, <2>5, <3>2, <3>3, <3>4, CaughtEnds
  <2> QED BY <1>2, <2>2, <2>3, <2>4, <2>5
<1> QED BY <1>1, <1>4, <1>6, <1>7 DEF AxesStand, s

\* A command that makes the axis b into r, which stands and is told no line, leaves all
\* standing.
LEMMA ReplaceStands ==
  ASSUME AxesStand(axis), NEW b \in Axes, NEW r, Standing(r), r.mode # "DDA", r.asked # "line",
         axis' = [axis EXCEPT ![b] = r], AxesOK(axis'),
         r.asked = "slowed" =>
           /\ axis[b].asked \in {"line", "slowed"}
           /\ \/ r.pos = axis[b].pos /\ r.dir = axis[b].dir
              \/ r.dir = 1
  PROVE  AxesStand(axis')
<1>1. axis \in [Axes -> AnyAxis] /\ \A a \in Axes : Standing(axis[a])
  BY DEF AxesStand, AxesOK
<1>2. \A a \in Axes : axis'[a] = IF a = b THEN r ELSE axis[a]
  BY <1>1
<1>3. ASSUME NEW a \in Axes, NEW m \in Axes, Linked(axis', a, m) PROVE Course(axis'[a], axis'[m])
  <2>1. a # b /\ axis'[a] = axis[a]
    BY <1>2, <1>3 DEF Linked
  <2>2. CASE m # b
    BY <1>2, <1>3, <2>1, <2>2 DEF Linked, AxesStand
  <2>3. CASE m = b
    <3>1. axis'[m] = r /\ r.asked = "slowed"
      BY <1>2, <1>3, <2>3 DEF Linked
    <3>2. Course(axis[a], axis[m])
      BY <1>3, <2>1, <2>3, <3>1 DEF Linked, AxesStand
    <3> QED BY <2>1, <2>3, <3>1, <3>2 DEF Course
  <2> QED BY <2>2, <2>3
<1>4. NearEnd(axis')
  <2> SUFFICES ASSUME NEW a \in Axes, axis'[a].asked = "line", axis'[a].mode = "HOLD",
                      axis'[axis'[a].dda_master].asked = "line",
                      axis'[axis'[a].dda_master].dir > 0
               PROVE  Abs(axis'[a].cmd_target_pos - axis'[a].target_pos) <= Speed
    BY DEF NearEnd
  <2>1. axis'[a] = axis[a] /\ axis[a].dda_master \in Axes
    BY <1>1, <1>2 DEF Standing
  <2>2. axis'[axis[a].dda_master] = axis[axis[a].dda_master]
    BY <1>2, <2>1
  <2> QED BY <2>1, <2>2 DEF AxesStand, NearEnd
<1> QED BY <1>1, <1>2, <1>3, <1>4 DEF AxesStand

LEMMA AxesStandNext ==
  ASSUME AxesStand(axis), [Next]_vars
  PROVE  AxesStand(axis')
<1>0. /\ AxesOK(axis) /\ AxesOK(axis') /\ axis \in [Axes -> AnyAxis]
      /\ \A a \in Axes : axis[a] \in AnyAxis /\ Standing(axis[a])
  BY AxesNext DEF AxesStand, AxesOK
<1>1. CASE Pass
  <2>1. PICK faults \in SUBSET Faulty : \E ran :
           /\ \A a \in Axes : ran[a] \in After(faults, a)
           /\ ProcessQueue(Follow(axis, ran))
    BY <1>1, PassParts
  <2>2. PICK ran : /\ \A a \in Axes : ran[a] \in After(faults, a)
                   /\ ProcessQueue(Follow(axis, ran))
    BY <2>1
  <2>3. AxesStand(Follow(axis, ran))
    BY <2>2, PassStands
  <2>4. axis' = Follow(axis, ran) \/ \E t \in Segments : axis' = Interp_Line(Follow(axis, ran), t)
    BY <2>2 DEF ProcessQueue
  <2> QED BY <2>3, <2>4, LineStands, TargetsInt
<1>2. ASSUME NEW t \in Lines, Line(t) PROVE AxesStand(axis')
  BY <1>2, LineStands, TargetsInt DEF Line
<1>3. ASSUME NEW move \in Moves, MoveTo(move[1], move[2]) PROVE AxesStand(axis')
  <2>1. PICK b \in Axes, to \in Int : b = move[1] /\ to = move[2]
    BY TargetsInt
  <2>2. PICK r : r = ApplyPosition(axis[b], to)
    OBVIOUS
  <2>3. Standing(r) /\ r.asked = "move" /\ r.mode = "POS"
    BY <1>0, <2>2, MoveSound, MoveStands
  <2>4. axis' = [axis EXCEPT ![b] = r]
    BY <1>3, <2>1, <2>2 DEF MoveTo
  <2> QED BY <1>0, <2>3, <2>4, ReplaceStands
<1>4. ASSUME NEW a \in Stops, NEW smooth \in Smooth, Stop(a, smooth) PROVE AxesStand(axis')
  <2>1. a \in Axes
    BY LineAssumption
  <2>2. PICK r \in StopOne(axis[a], smooth) : axis' = [axis EXCEPT ![a] = r]
    BY <1>4 DEF Stop
  <2>3. /\ Standing(r) /\ r.mode \in {"POS", "VEL"} /\ r.asked \in {"stop", "slowed"}
        /\ r.asked = "slowed" =>
             /\ axis[a].asked \in {"line", "slowed"}
             /\ (r.pos = axis[a].pos /\ r.dir = axis[a].dir) \/ r.dir = 1
    BY <1>0, <2>1, <2>2, StopFields, StopStands
  <2> QED BY <1>0, <2>1, <2>2, <2>3, ReplaceStands
<1>5. ASSUME NEW a \in Halts, Halt(a) PROVE AxesStand(axis')
  <2>1. a \in Axes
    BY LineAssumption
  <2>2. PICK r \in Halted(axis[a]) : axis' = [axis EXCEPT ![a] = r]
    BY <1>5 DEF Halt
  <2>3. Standing(r) /\ r.mode = "POS" /\ r.asked = "stop"
    BY <1>0, <2>1, <2>2, HaltFields, HaltStands
  <2> QED BY <1>0, <2>1, <2>2, <2>3, ReplaceStands
<1>6. ASSUME NEW smooth \in Smooth, Abort(smooth) PROVE AxesStand(axis')
  <2>1. \A a \in Axes : axis'[a] \in StopOne(axis[a], smooth)
    BY <1>6 DEF Abort, Outcomes
  <2>2. \A a \in Axes : /\ Standing(axis'[a]) /\ axis'[a].mode \in {"POS", "VEL"}
    BY <1>0, <2>1, StopFields, StopStands
  <2> QED BY <1>0, <2>2 DEF AxesStand, Linked, NearEnd
<1>7. ASSUME NEW a \in Axes, ResetDone(a) PROVE AxesStand(axis')
  <2>1. axis[a].asked = "fault"
    BY <1>7 DEF ResetDone
  <2>2. PICK r : /\ axis' = [axis EXCEPT ![a] = r]
                 /\ Standing(r) /\ r.mode = "HOLD" /\ r.asked = "fault"
    BY <1>0, <1>7, <2>1, ResetSound, ResetStands DEF ResetDone
  <2> QED BY <1>0, <2>2, ReplaceStands
<1>8. CASE QueueCommand
  BY <1>8 DEF QueueCommand
<1>9. CASE UNCHANGED axis
  BY <1>9
<1> QED
  BY <1>1, <1>2, <1>3, <1>4, <1>5, <1>6, <1>7, <1>8, <1>9 DEF Next, LineLoops, Spin, vars

LEMMA StandInvariance == Spec => [](AxesStand(axis) /\ QueueTypes)
<1>1. AxesStand(axis) /\ [Next]_vars => AxesStand(axis)'
  BY AxesStandNext
<1>2. IInv => QueueTypes
  BY DEF IInv
<1> QED BY StandInit, <1>1, Invariance, <1>2, PTL DEF Spec

\* Every axis of a line that ran to its end is within one cycle's way of its
\* target.
THEOREM AxesEndNearTarget == Spec => []EndsNear
<1>1. AxesStand(axis) => EndsNear
  BY DEF AxesStand, NearEnd, EndsNear
<1> QED BY <1>1, StandInvariance, PTL

\* The commands themselves move nothing: where an axis was sent and where its drive
\* is change in a pass only.
LEMMA CommandsMoveNothing ==
  ASSUME AxesStand(axis), Next, ~Pass, NEW a \in Axes
  PROVE  axis'[a].sent = axis[a].sent /\ axis'[a].actual_pos = axis[a].actual_pos
<1>0. axis \in [Axes -> AnyAxis] /\ \A b \in Axes : axis[b] \in AnyAxis /\ Standing(axis[b])
  BY DEF AxesStand, AxesOK
<1>1. ASSUME NEW b \in Axes, NEW r, axis' = [axis EXCEPT ![b] = r],
             r.sent = axis[b].sent, r.actual_pos = axis[b].actual_pos
      PROVE  axis'[a].sent = axis[a].sent /\ axis'[a].actual_pos = axis[a].actual_pos
  BY <1>0, <1>1
<1>2. ASSUME NEW t \in Lines, Line(t)
      PROVE  axis'[a].sent = axis[a].sent /\ axis'[a].actual_pos = axis[a].actual_pos
  BY <1>2, LineStands, TargetsInt DEF Line
<1>3. ASSUME NEW move \in Moves, MoveTo(move[1], move[2])
      PROVE  axis'[a].sent = axis[a].sent /\ axis'[a].actual_pos = axis[a].actual_pos
  <2>1. PICK b \in Axes, to \in Int : b = move[1] /\ to = move[2]
    BY TargetsInt
  <2>2. PICK r : r = ApplyPosition(axis[b], to)
    OBVIOUS
  <2>3. r.sent = axis[b].sent /\ r.actual_pos = axis[b].actual_pos
    BY <1>0, <2>2, MoveStands
  <2>4. axis' = [axis EXCEPT ![b] = r]
    BY <1>3, <2>1, <2>2 DEF MoveTo
  <2> QED BY <1>1, <2>3, <2>4
<1>4. ASSUME NEW b \in Stops, NEW smooth \in Smooth, Stop(b, smooth)
      PROVE  axis'[a].sent = axis[a].sent /\ axis'[a].actual_pos = axis[a].actual_pos
  <2>1. b \in Axes
    BY LineAssumption
  <2>2. PICK r \in StopOne(axis[b], smooth) : axis' = [axis EXCEPT ![b] = r]
    BY <1>4 DEF Stop
  <2> QED BY <1>0, <1>1, <2>1, <2>2, StopStands
<1>5. ASSUME NEW b \in Halts, Halt(b)
      PROVE  axis'[a].sent = axis[a].sent /\ axis'[a].actual_pos = axis[a].actual_pos
  <2>1. b \in Axes
    BY LineAssumption
  <2>2. PICK r \in Halted(axis[b]) : axis' = [axis EXCEPT ![b] = r]
    BY <1>5 DEF Halt
  <2> QED BY <1>0, <1>1, <2>1, <2>2, HaltStands
<1>6. ASSUME NEW smooth \in Smooth, Abort(smooth)
      PROVE  axis'[a].sent = axis[a].sent /\ axis'[a].actual_pos = axis[a].actual_pos
  <2>1. axis'[a] \in StopOne(axis[a], smooth)
    BY <1>6 DEF Abort, Outcomes
  <2> QED BY <1>0, <2>1, StopStands
<1>7. ASSUME NEW b \in Axes, ResetDone(b)
      PROVE  axis'[a].sent = axis[a].sent /\ axis'[a].actual_pos = axis[a].actual_pos
  <2>1. axis[b].asked = "fault"
    BY <1>7 DEF ResetDone
  <2>2. PICK r : /\ axis' = [axis EXCEPT ![b] = r]
                 /\ r.sent = axis[b].sent /\ r.actual_pos = axis[b].actual_pos
    BY <1>0, <1>7, <2>1, ResetStands DEF ResetDone
  <2> QED BY <1>1, <2>2
<1>8. CASE QueueCommand \/ Spin \/ \E t \in Lines : LineLoops(t)
  BY <1>8 DEF QueueCommand, Spin, LineLoops, vars
<1> QED BY <1>2, <1>3, <1>4, <1>5, <1>6, <1>7, <1>8 DEF Next

\* A slave that is not left behind catches up by no more than its master goes in
\* a cycle.
LEMMA CaughtStep ==
  ASSUME NEW r, Sound(r), Standing(r), r.mode = "DDA",
         NEW k \in AnyAxis, NEW m \in AnyAxis,
         k.asked \in {"line", "slowed"} => Pair(r, k) /\ Course(r, k),
         k.asked \notin {"line", "slowed"} =>
           2 * (AtLeast(k.pos - r.dda_master_start, 0) * Abs(r.dda_delta)
                - Emitted(r) * r.dda_master_delta) <= r.dda_master_delta,
         -(Speed + Window) <= m.pos - k.pos, m.pos - k.pos <= Speed + Window
  PROVE  /\ CaughtUp(r, m) \in Int
         /\ -(Speed + Window) <= CaughtUp(r, m) - r.target_pos
         /\ CaughtUp(r, m) - r.target_pos <= Speed + Window
<1> DEFINE d == Abs(r.dda_delta)
           w == r.dda_master_delta
           x == AtLeast(k.pos - r.dda_master_start, 0)
           y == AtLeast(m.pos - r.dda_master_start, 0)
           e == Emitted(r)
           c == AtLeast(Expected(r, m), e)
           v == Speed + Window
<1>1. /\ d \in Nat /\ w \in Nat /\ w > 0 /\ d <= w /\ e \in Int /\ v \in Nat /\ v > 0
      /\ SlaveDir(r) \in {-1, 1} /\ r.target_pos = r.dda_start + SlaveDir(r) * e
      /\ r.dda_master_start \in Int /\ k.pos \in Int /\ m.pos \in Int /\ r.dda_start \in Int
  BY SlaveInts, LineAssumption DEF AnyAxis
<1>2. x \in Nat /\ y \in Nat /\ y <= x + v
  BY <1>1 DEF AtLeast
<1>3. 2 * (x * d - e * w) <= w
  <2>1. CASE k.asked \notin {"line", "slowed"}
    BY <2>1
  <2>2. CASE k.asked \in {"line", "slowed"} /\ k.dir > 0
    <3>1. k.pos >= r.dda_master_start /\ Near(e, k.pos - r.dda_master_start, d, w)
      BY <2>2 DEF Pair
    <3>2. x = k.pos - r.dda_master_start
      BY <1>1, <3>1 DEF AtLeast
    <3>3. Near(e, x, d, w)
      BY <3>1, <3>2
    <3>4. e * w \in Int /\ x * d \in Int
      BY <1>1, <1>2
    <3> HIDE DEF x, e, w, d
    <3> QED BY <1>1, <3>3, <3>4 DEF Near
  <2>3. CASE k.asked \in {"line", "slowed"} /\ k.dir <= 0
    <3>1. k.dir < 0
      BY <2>3 DEF AnyAxis
    <3>2. k.pos <= r.dda_master_start
      BY <2>3, <3>1 DEF Course
    <3>3. x = 0
      BY <1>1, <3>2 DEF AtLeast
    <3>4. x * d = 0
      BY <1>1, <3>3
    <3>5. e * w >= 0 /\ e * w \in Int
      <4>1. e >= 0
        BY DEF Standing
      <4> QED BY <1>1, <4>1
    <3> HIDE DEF x, e, w, d
    <3> QED BY <1>1, <3>4, <3>5
  <2>4. k.dir > 0 \/ k.dir <= 0
    BY DEF AnyAxis
  <2> QED BY <2>1, <2>2, <2>3, <2>4
<1>4. c = AtLeast((y * d + w \div 2) \div w, e)
  BY DEF Expected
<1>5. CaughtUp(r, m) = r.dda_start + SlaveDir(r) * c
  BY DEF CaughtUp
<1> HIDE DEF d, w, x, y, e, c, v
<1>6. c \in Int /\ e <= c /\ c <= e + v
  BY <1>1, <1>2, <1>3, <1>4, ShareStep
<1>7. -v <= CaughtUp(r, m) - r.target_pos /\ CaughtUp(r, m) - r.target_pos <= v
      /\ CaughtUp(r, m) \in Int
  BY <1>1, <1>5, <1>6
<1> QED BY <1>7 DEF v

\* No line, positioning or fault moves the commanded position in one cycle by more
\* than two cycles' ways, the alignment of an axis that arrives and a pulse, of an axis
\* whose drive has kept up.
THEOREM LinesNeverJump == Spec => LinesDoNotJump
<1>1. ASSUME AxesStand(axis), [Next]_vars, NEW a \in Axes,
             axis[a].asked \notin {"slowed", "stop"}, Close(a), ~LeftBehind(a)
      PROVE  Abs(axis'[a].sent - axis[a].sent) <= 2 * Speed + Window + 1
  <2>0. /\ AxesOK(axis) /\ Speed \in Nat /\ Window \in Nat
        /\ \A b \in Axes : /\ Sound(axis[b]) /\ axis[b] \in AnyAxis /\ Standing(axis[b])
                           /\ Plain(axis[b]) /\ axis[b].mode # "ARC"
    <3>1. Speed \in Nat /\ Window \in Nat
      BY LineAssumption
    <3> QED BY <1>1, <3>1 DEF AxesStand, AxesOK, Plain
  <2>1. /\ axis[a].sent \in Int /\ axis[a].actual_pos \in Int /\ axis[a].target_pos \in Int
        /\ axis[a].pos \in Int /\ axis[a].cmd_target_pos \in Int
    BY <2>0 DEF AnyAxis
  <2>2. /\ -Speed <= axis[a].actual_pos - axis[a].sent
        /\ axis[a].actual_pos - axis[a].sent <= Speed
    BY <1>1, <2>0, <2>1 DEF Close, Abs
  <2>3. CASE axis'[a].sent = axis[a].sent
    BY <2>0, <2>1, <2>3 DEF Abs
  <2>4. CASE Pass
    <3>1. PICK faults \in SUBSET Faulty : \E ran :
             /\ \A b \in Axes : ran[b] \in After(faults, b)
             /\ ProcessQueue(Follow(axis, ran))
      BY <2>4, PassParts
    <3>2. PICK ran : /\ \A b \in Axes : ran[b] \in After(faults, b)
                     /\ ProcessQueue(Follow(axis, ran))
      BY <3>1
    <3> DEFINE s == Follow(axis, ran)
    <3>3. AxesStand(s)
      BY <1>1, <3>2, PassStands
    <3>4. axis'[a].sent = s[a].sent
      <4>1. axis' = s \/ \E t \in Segments : axis' = Interp_Line(s, t)
        BY <3>2 DEF ProcessQueue
      <4> HIDE DEF s
      <4> QED BY <3>3, <4>1, LineStands, TargetsInt
    <3>5. ASSUME NEW b \in Axes
          PROVE  /\ s[b] \in AnyAxis
                 /\ -(Speed + Window) <= s[b].pos - axis[b].pos
                 /\ s[b].pos - axis[b].pos <= Speed + Window
                 /\ \/ Tripped(axis[b], s[b])
                    \/ axis[b].mode # "DDA" /\ Advanced(axis[b], s[b])
                    \/ axis[b].mode = "DDA" /\ Caught(axis[b], s[axis[b].dda_master], s[b])
      BY <2>0, <3>2, PassCases
    <3> HIDE DEF s
    <3>6. CASE Tripped(axis[a], s[a])
      BY <2>3, <3>4, <3>6 DEF Tripped
    <3>7. CASE axis[a].mode # "DDA" /\ Advanced(axis[a], s[a])
      <4>1. CASE axis[a].mode = "POS"
        <5>1. axis[a].asked \in {"line", "move"}
          BY <1>1, <2>0, <4>1 DEF Standing, AnyAxis, Plain
        <5>2. s[a].sent = s[a].pos /\ axis[a].pos \in {axis[a].sent, axis[a].actual_pos}
              /\ s[a].pos \in Int
          BY <2>0, <3>5, <3>7, <4>1, <5>1 DEF Standing, Advanced, AnyAxis
        <5>3. -Speed <= axis[a].pos - axis[a].sent /\ axis[a].pos - axis[a].sent <= Speed
          BY <2>0, <2>1, <2>2, <5>2
        <5>4. /\ -(2 * Speed + Window) <= s[a].sent - axis[a].sent
              /\ s[a].sent - axis[a].sent <= 2 * Speed + Window
          BY <2>0, <2>1, <3>5, <5>2, <5>3
        <5> QED BY <2>0, <2>1, <3>4, <5>2, <5>4 DEF Abs
      <4>2. CASE axis[a].mode = "HOLD"
        <5>1. s[a].sent = axis[a].target_pos /\ axis[a].target_pos = axis[a].sent
          BY <2>0, <3>7, <4>2 DEF Standing, Advanced
        <5> QED BY <2>3, <3>4, <5>1
      <4>3. CASE axis[a].mode = "VEL"
        BY <1>1, <2>0, <4>3 DEF Standing
      <4> QED BY <2>0, <3>7, <4>1, <4>2, <4>3 DEF AnyAxis
    <3>8. CASE axis[a].mode = "DDA" /\ Caught(axis[a], s[axis[a].dda_master], s[a])
      <4> DEFINE m == axis[a].dda_master
                 at == CaughtUp(axis[a], s[m])
      <4>1. m \in Axes /\ axis[a].asked = "line"
            /\ axis[a].target_pos \in {axis[a].sent, axis[a].actual_pos}
        BY <2>0, <3>8, SlaveInts DEF Standing
      <4>2. axis[m].asked \in {"line", "slowed"} =>
              Pair(axis[a], axis[m]) /\ Course(axis[a], axis[m])
        BY <1>1, <3>8, <4>1 DEF AxesStand, AxesOK, Linked
      <4>3. axis[m].asked \notin {"line", "slowed"} =>
              2 * (AtLeast(axis[m].pos - axis[a].dda_master_start, 0) * Abs(axis[a].dda_delta)
                   - Emitted(axis[a]) * axis[a].dda_master_delta) <= axis[a].dda_master_delta
        <5> DEFINE n == AtLeast(axis[m].pos - axis[a].dda_master_start, 0)
                            * Abs(axis[a].dda_delta)
                   g == Emitted(axis[a]) * axis[a].dda_master_delta
        <5>1. axis[m].asked \notin {"line", "slowed"} =>
                ~(2 * (n - g) > axis[a].dda_master_delta)
          BY <1>1, <3>8 DEF LeftBehind
        <5>2. n \in Int /\ g \in Int /\ axis[a].dda_master_delta \in Int
          <6>1. /\ axis[m].pos \in Int /\ axis[a].dda_master_start \in Int
                /\ Abs(axis[a].dda_delta) \in Int /\ Emitted(axis[a]) \in Int
                /\ axis[a].dda_master_delta \in Int
            BY <2>0, <4>1, SlaveInts DEF AnyAxis
          <6>2. AtLeast(axis[m].pos - axis[a].dda_master_start, 0) \in Int
            BY <6>1 DEF AtLeast
          <6> QED BY <6>1, <6>2
        <5> HIDE DEF n, g
        <5>3. axis[m].asked \notin {"line", "slowed"} =>
                2 * (n - g) <= axis[a].dda_master_delta
          BY <5>1, <5>2
        <5> QED BY <5>3 DEF n, g
      <4> HIDE DEF m
      <4>4. /\ at \in Int
            /\ -(Speed + Window) <= at - axis[a].target_pos
            /\ at - axis[a].target_pos <= Speed + Window
        BY <2>0, <3>5, <3>8, <4>1, <4>2, <4>3, CaughtStep
      <4>5. /\ s[a].sent \in Int
            /\ -1 <= s[a].sent - at /\ s[a].sent - at <= 1
        <5>1. \/ s[a].sent = at
              \/ Abs(axis[a].cmd_target_pos - at) = 1 /\ s[a].sent = axis[a].cmd_target_pos
          <6>1. Caught(axis[a], s[m], s[a])
            BY <3>8 DEF m
          <6> QED BY <6>1 DEF Caught
        <5> HIDE DEF at
        <5> QED BY <2>1, <4>4, <5>1 DEF Abs
      <4> HIDE DEF at
      <4>6. /\ -(2 * Speed + Window + 1) <= s[a].sent - axis[a].sent
            /\ s[a].sent - axis[a].sent <= 2 * Speed + Window + 1
        BY <2>0, <2>1, <2>2, <4>1, <4>4, <4>5
      <4> QED BY <2>0, <2>1, <3>4, <4>5, <4>6 DEF Abs
    <3> QED BY <3>5, <3>6, <3>7, <3>8
  <2>5. CASE Next /\ ~Pass
    BY <1>1, <2>3, <2>5, CommandsMoveNothing
  <2>6. CASE UNCHANGED vars
    BY <2>3, <2>6 DEF vars
  <2> QED BY <1>1, <2>4, <2>5, <2>6
<1>2. AxesStand(axis) /\ [Next]_vars =>
        \A a \in Axes : /\ axis[a].asked \notin {"slowed", "stop"}
                        /\ Close(a) /\ ~LeftBehind(a)
                        => Abs(axis'[a].sent - axis[a].sent) <= 2 * Speed + Window + 1
  BY <1>1
<1> QED BY <1>2, StandInvariance, PTL DEF Spec, LinesDoNotJump

\* An axis of a line that was last commanded, whose planner or whose master's is done at
\* the end of the pass that leaves the axes at s, was sent near its target before.
LEMMA DoneNear ==
  ASSUME AxesStand(axis), NEW faults, NEW ran, \A b \in Axes : ran[b] \in After(faults, b),
         LineDone, NEW a \in Axes, Close(a),
         AxesStand(Follow(axis, ran)), AllDone(Follow(axis, ran)),
         \A b \in Axes : ~Follow(axis, ran)[b].fault
  PROVE  Abs(axis[a].sent - axis[a].cmd_target_pos) <= 2 * Speed
<1> DEFINE s == Follow(axis, ran)
           r == axis[a]
<1>0. /\ AxesOK(axis) /\ Speed \in Nat
      /\ \A b \in Axes : /\ Sound(axis[b]) /\ axis[b] \in AnyAxis /\ Standing(axis[b])
                         /\ axis[b].mode # "ARC"
  <2>1. Speed \in Nat
    BY LineAssumption
  <2> QED BY <2>1 DEF AxesStand, AxesOK, Plain
<1>1. /\ r.sent \in Int /\ r.actual_pos \in Int /\ r.target_pos \in Int
      /\ r.pos \in Int /\ r.cmd_target_pos \in Int /\ r.goal \in Int
  BY <1>0 DEF AnyAxis
<1>2. -Speed <= r.actual_pos - r.sent /\ r.actual_pos - r.sent <= Speed
  BY <1>0, <1>1 DEF Close, Abs
<1>3. \A b \in Axes : axis[b].asked = "line"
  BY DEF LineDone
\* No drive has faulted in this pass, and no planner of a line runs any more.
<1>4. ASSUME NEW b \in Axes, axis[b].mode = "POS"
      PROVE  Advanced(axis[b], s[b]) /\ ~s[b].running /\ axis[b].goal = axis[b].cmd_target_pos
  <2>1. Advanced(axis[b], s[b])
    BY <1>0, <1>4, PassCases DEF Tripped
  <2>2. s[b].mode = "POS" /\ s[b].asked = "line"
    BY <1>3, <1>4, <2>1 DEF Advanced, SameTask
  <2>3. s[b].running => s[b].motion_busy
    BY <2>2 DEF AxesStand, Standing
  <2>4. axis[b].goal = axis[b].cmd_target_pos
    BY <1>0, <1>3, <1>4 DEF Standing
  <2> QED BY <2>1, <2>3, <2>4 DEF AllDone
<1>5. ASSUME NEW to \in Int, to \in {r.sent, r.actual_pos},
             -Speed <= r.cmd_target_pos - to, r.cmd_target_pos - to <= Speed
      PROVE  Abs(r.sent - r.cmd_target_pos) <= 2 * Speed
  <2>1. -(2 * Speed) <= r.sent - r.cmd_target_pos /\ r.sent - r.cmd_target_pos <= 2 * Speed
    BY <1>0, <1>1, <1>2, <1>5
  <2> QED BY <1>0, <1>1, <2>1 DEF Abs
<1>6. CASE r.mode = "POS"
  <2>1. Advanced(r, s[a]) /\ ~s[a].running /\ r.goal = r.cmd_target_pos
    BY <1>4, <1>6
  <2>2. r.pos \in {r.sent, r.actual_pos}
    BY <1>0, <1>3, <1>6 DEF Standing
  <2>3. -Speed <= r.goal - r.pos /\ r.goal - r.pos <= Speed
    <3>1. CASE r.running
      <4> HIDE DEF s
      <4> QED BY <1>6, <2>1, <3>1 DEF Advanced
    <3>2. CASE ~r.running
      BY <1>0, <1>3, <1>6, <3>2 DEF Standing
    <3> QED BY <3>1, <3>2
  <2> QED BY <1>1, <1>5, <2>1, <2>2, <2>3
<1>7. CASE r.mode = "DDA"
  <2> DEFINE m == r.dda_master
  <2>1. m \in Axes /\ r.target_pos \in {r.sent, r.actual_pos}
    BY <1>0, <1>7, SlaveInts DEF Standing
  <2>2. axis[m].dir > 0
    BY <1>0, <2>1 DEF LineDone, Axes
  <2>3. Linked(axis, a, m)
    BY <1>3, <1>7, <2>1 DEF Linked
  <2> HIDE DEF m
  <2>4. Pair(r, axis[m]) /\ Course(r, axis[m])
    BY <1>0, <2>1, <2>3 DEF AxesStand, AxesOK
  <2>5. /\ axis[m].mode = "POS" /\ axis[m].running
        /\ axis[m].goal = r.dda_master_start + r.dda_master_delta
        /\ Near(Emitted(r), axis[m].pos - r.dda_master_start, Abs(r.dda_delta), r.dda_master_delta)
    BY <1>3, <2>1, <2>2, <2>4 DEF Pair, Course
  <2>6. -Speed <= axis[m].goal - axis[m].pos /\ axis[m].goal - axis[m].pos <= Speed
    <3>1. /\ Advanced(axis[m], s[m]) /\ ~s[m].running
          /\ axis[m].goal = axis[m].cmd_target_pos
      BY <1>4, <2>1, <2>5
    <3> HIDE DEF s
    <3> QED BY <2>5, <3>1 DEF Advanced
  <2> DEFINE d == Abs(r.dda_delta)
             w == r.dda_master_delta
             x == axis[m].pos - r.dda_master_start
             e == Emitted(r)
  <2>7. /\ d \in Nat /\ w \in Nat /\ w > 0 /\ d <= w /\ e \in Int /\ x \in Int
        /\ SlaveDir(r) \in {-1, 1} /\ r.dda_delta = SlaveDir(r) * d /\ r.dda_start \in Int
        /\ r.target_pos = r.dda_start + SlaveDir(r) * e
        /\ axis[m].goal \in Int /\ axis[m].pos \in Int /\ r.dda_master_start \in Int
    BY <1>0, <1>7, <2>1, SlaveInts DEF AnyAxis
  <2>8. -Speed <= w - x /\ w - x <= Speed /\ Near(e, x, d, w)
    BY <2>5, <2>6, <2>7
  <2>9. r.cmd_target_pos = r.dda_start + SlaveDir(r) * d
    BY <1>0, <1>7, <2>7 DEF Standing
  <2> HIDE DEF d, w, x, e
  <2>10. -Speed <= d - e /\ d - e <= Speed
    BY <2>7, <2>8, EndShare
  <2>11. -Speed <= r.cmd_target_pos - r.target_pos /\ r.cmd_target_pos - r.target_pos <= Speed
    BY <1>0, <2>7, <2>9, <2>10
  <2> QED BY <1>1, <1>5, <2>1, <2>11
<1>8. CASE r.mode = "HOLD"
  <2>1. r.dda_master \in Axes /\ r.target_pos = r.sent
    BY <1>0, <1>3, <1>8 DEF Standing
  <2>2. axis[r.dda_master].dir > 0 /\ axis[r.dda_master].asked = "line"
    BY <1>3, <2>1 DEF LineDone, Axes
  <2>3. Abs(r.cmd_target_pos - r.target_pos) <= Speed
    BY <1>3, <1>8, <2>2 DEF AxesStand, NearEnd
  <2>4. -Speed <= r.cmd_target_pos - r.sent /\ r.cmd_target_pos - r.sent <= Speed
    BY <1>0, <1>1, <2>1, <2>3 DEF Abs
  <2> QED BY <1>1, <1>5, <2>4
<1>9. CASE r.mode = "VEL"
  BY <1>0, <1>3, <1>9 DEF Standing
<1> QED BY <1>0, <1>6, <1>7, <1>8, <1>9 DEF AnyAxis

\* A queue that is not empty is not its tail.
LEMMA TailShorter ==
  ASSUME QueueTypes, queue # <<>>, queue' = Tail(queue)
  PROVE  queue' # queue /\ \A seg \in Segments : queue' # Append(queue, seg)
<1>1. queue \in Seq(Segments) /\ Len(queue) \in Nat
  BY DEF QueueTypes
<1>2. Len(Tail(queue)) = Len(queue) - 1
  BY <1>1
<1>3. \A seg \in Segments : Len(Append(queue, seg)) = Len(queue) + 1
  BY <1>1
<1>4. PICK n \in Nat : n = Len(queue) /\ n - 1 # n /\ n - 1 # n + 1
  BY <1>1
<1>5. Len(queue') # Len(queue)
  BY <1>2, <1>4
<1>6. \A seg \in Segments : Len(queue') # Len(Append(queue, seg))
  BY <1>2, <1>3, <1>4
<1> QED BY <1>5, <1>6, Zenon

\* Only a pass takes a segment from the queue and leaves every axis on a line.
LEMMA TakenInPass ==
  ASSUME IInv, Next, queue # <<>>, queue' = Tail(queue),
         \A a \in Axes : axis'[a].asked = "line"
  PROVE  Pass
<1>0. queue' # queue /\ \A seg \in Segments : queue' # Append(queue, seg)
  BY TailShorter DEF IInv
<1>1. ~UNCHANGED qvars
  BY <1>0 DEF qvars
<1>2. ~QueueCommand
  BY <1>0 DEF QueueCommand, Put, Pause, Resume
<1>3. ASSUME NEW smooth \in Smooth, Abort(smooth) PROVE FALSE
  <2>1. 0 \in Axes
    BY LineAssumption DEF Axes
  <2>2. axis'[0] \in StopOne(axis[0], smooth)
    BY <1>3, <2>1 DEF Abort, Outcomes
  <2>3. axis[0] \in AnyAxis
    BY <2>1 DEF IInv, AxesOK
  <2>4. axis'[0].asked \in {"stop", "slowed"}
    BY <2>2, <2>3, StopFields
  <2> QED BY <2>1, <2>4
<1> QED
  BY <1>1, <1>2, <1>3
     DEF Next, Line, LineLoops, Spin, MoveTo, Stop, Halt, ResetDone, vars, qvars

\* A queued line is not dispatched into a motion: it starts within two cycles' ways of
\* where the line before it was to end, on every axis.
THEOREM SegmentsJoinUp == Spec => SegmentsJoin
<1>1. ASSUME AxesStand(axis), IInv, [Next]_vars, LineDone, \A a \in Axes : Close(a),
             queue # <<>>, queue' = Tail(queue),
             \A a \in Axes : axis'[a].asked = "line" /\ ~axis'[a].fault
      PROVE  \A a \in Axes : Abs(axis'[a].actual_pos - axis[a].cmd_target_pos) <= 2 * Speed
  <2>1. Pass
    <3>1. ~UNCHANGED vars
      BY <1>1, TailShorter DEF IInv, vars
    <3> QED BY <1>1, <3>1, TakenInPass
  <2>2. PICK faults \in SUBSET Faulty : \E ran :
           /\ \A b \in Axes : ran[b] \in After(faults, b)
           /\ ProcessQueue(Follow(axis, ran))
    BY <2>1, PassParts
  <2>3. PICK ran : /\ \A b \in Axes : ran[b] \in After(faults, b)
                   /\ ProcessQueue(Follow(axis, ran))
    BY <2>2
  <2> DEFINE s == Follow(axis, ran)
  <2>4. AxesStand(s) /\ \A a \in Axes : Sound(axis[a]) /\ axis[a].mode # "ARC"
    BY <1>1, <2>3, PassStands DEF AxesStand, AxesOK, Plain
  <2>5. AllDone(s) /\ \E t \in Segments : axis' = Interp_Line(s, t)
    <3>1. ~UNCHANGED qvars
      BY <1>1, TailShorter DEF IInv, qvars
    <3> QED BY <2>3, <3>1 DEF ProcessQueue
  <2>6. ASSUME NEW a \in Axes
        PROVE  s[a].actual_pos = axis[a].sent
    BY <2>3, <2>4, PassCases DEF Tripped, Advanced, Caught
  <2> HIDE DEF s
  <2>7. \A a \in Axes : axis'[a].actual_pos = s[a].actual_pos /\ axis'[a].fault = s[a].fault
    BY <2>4, <2>5, LineStands, TargetsInt
  <2>8. \A a \in Axes : ~s[a].fault
    BY <1>1, <2>7
  <2>9. \A a \in Axes : Abs(axis[a].sent - axis[a].cmd_target_pos) <= 2 * Speed
    BY <1>1, <2>3, <2>4, <2>5, <2>8, DoneNear DEF s
  <2> QED BY <2>6, <2>7, <2>9
<1>2. AxesStand(axis) /\ IInv /\ [Next]_vars =>
        (/\ LineDone /\ \A a \in Axes : Close(a)
         /\ queue # <<>> /\ queue' = Tail(queue)
         /\ \A a \in Axes : axis'[a].asked = "line" /\ ~axis'[a].fault
         => \A a \in Axes : Abs(axis'[a].actual_pos - axis[a].cmd_target_pos) <= 2 * Speed)
  BY <1>1
<1> QED BY <1>2, StandInvariance, Invariance, PTL DEF Spec, SegmentsJoin

-----------------------------------------------------------------------------
\* ArcMotion.  Its invariant needs of an axis only that it is a record with a mode
\* and what it was last told.
Told(r) ==
  /\ "mode" \in DOMAIN r /\ "asked" \in DOMAIN r
  /\ r.mode \in {"HOLD", "VEL", "POS", "DDA", "ARC"}

AllTold(s) == DOMAIN s = Axes /\ \A a \in Axes : Told(s[a])

\* A command other than an arc takes the axis out of ARC mode.
Taken(r) == Told(r) /\ r.mode # "ARC" /\ r.asked # "arc"

LEMMA PlannedTold ==
  ASSUME NEW r, Told(r), NEW to
  PROVE  Told(Planned(r, to)) /\ Planned(r, to).mode = r.mode /\ Planned(r, to).asked = r.asked
BY DEF Planned, Told

LEMMA MoveTaken ==
  ASSUME NEW r, Told(r), NEW to
  PROVE  Taken(ApplyPosition(r, to))
BY PlannedTold DEF ApplyPosition, Told, Taken

LEMMA LineTaken ==
  ASSUME NEW s, AllTold(s), NEW t
  PROVE  \/ Interp_Line(s, t) = s
         \/ DOMAIN Interp_Line(s, t) = Axes /\ \A a \in Axes : Taken(Interp_Line(s, t)[a])
<1> DEFINE delta == [a \in Axes |-> t[a] - s[a].actual_pos]
           m == Leader(delta)
           u == Interp_Line(s, t)
           told(a) == [s[a] EXCEPT !.cmd_target_pos = t[a], !.motion_busy = TRUE,
                                   !.asked = "line"]
           slave(a) == [told(a) EXCEPT
                      !.mode = "DDA", !.target_pos = s[a].actual_pos,
                      !.dda_master = m,
                      !.dda_start = s[a].actual_pos, !.dda_delta = delta[a],
                      !.dda_master_start = MasterStart(s[m]),
                      !.dda_master_delta = Abs(delta[m])]
           master(a) == [Planned(told(a), t[a]) EXCEPT !.mode = "POS", !.dda_master = -1]
<1>1. ASSUME NEW a \in Axes PROVE Told(told(a)) /\ told(a).asked = "line"
  BY DEF AllTold, Told
<1>2. ASSUME NEW a \in Axes PROVE Taken(master(a))
  <2> DEFINE q == Planned(told(a), t[a])
  <2>1. Told(q) /\ q.asked = "line"
    BY <1>1, PlannedTold
  <2> HIDE DEF q
  <2>2. Taken([q EXCEPT !.mode = "POS", !.dda_master = -1])
    BY <2>1 DEF Told, Taken
  <2> QED BY <2>2 DEF q
<1>3. ASSUME NEW a \in Axes PROVE Taken(slave(a))
  <2> DEFINE q == told(a)
  <2>1. Told(q) /\ q.asked = "line"
    BY <1>1
  <2> HIDE DEF q
  <2>2. ASSUME NEW x1, NEW x2, NEW x3, NEW x4, NEW x5, NEW x6
        PROVE Taken([q EXCEPT !.mode = "DDA", !.target_pos = x1, !.dda_master = x2,
                       !.dda_start = x3, !.dda_delta = x4, !.dda_master_start = x5,
                       !.dda_master_delta = x6])
    BY <2>1 DEF Told, Taken
  <2> QED BY <2>2 DEF q
<1>4. u = s \/ (DOMAIN u = Axes /\ \A a \in Axes : u[a] = IF a = m THEN master(a) ELSE slave(a))
  <2>1. u = IF \A a \in Axes : delta[a] = 0 THEN s
            ELSE [a \in Axes |-> IF a = m THEN master(a) ELSE slave(a)]
    BY DEF Interp_Line
  <2> HIDE DEF u, m, master, slave, told, delta
  <2> QED BY <2>1
<1> HIDE DEF u, m, master, slave, told, delta
<1>5. ASSUME u # s PROVE DOMAIN u = Axes /\ \A a \in Axes : Taken(u[a])
  BY <1>2, <1>3, <1>4, <1>5
<1> QED BY <1>5 DEF u

LEMMA StopTaken ==
  ASSUME NEW r, Told(r), NEW smooth, NEW q \in StopOne(r, smooth)
  PROVE  Taken(q)
<1> DEFINE s == [r EXCEPT !.target_pos = r.actual_pos,
                     !.asked = IF @ \in {"line", "slowed"} /\ r.mode = "POS" /\ r.running
                               THEN "slowed" ELSE "stop"]
           Braking(x) == [x EXCEPT !.mode = "POS", !.motion_busy = TRUE]
           begun == [s EXCEPT !.running = TRUE, !.pos = r.actual_pos,
                              !.vel = r.velocity, !.dir = 1]
<1>1. Told(s) /\ s.asked # "arc" /\ s.mode = r.mode
  BY DEF Told
<1> HIDE DEF s
<1>2. Told(begun) /\ begun.asked # "arc"
  BY <1>1 DEF Told
<1> HIDE DEF begun
<1>3. ASSUME NEW x, Told(x), x.asked # "arc", NEW y \in {x} \cup Slowed(x)
      PROVE  Taken(Braking(y))
  <2>1. Told(y) /\ y.asked # "arc"
    BY <1>3 DEF Slowed, Told
  <2> QED BY <2>1 DEF Told, Taken
<1>4. \/ \E y \in Braked(s) : q = Braking(y)
      \/ \E y \in Slowed(begun) : q = Braking(y)
      \/ r.mode = "POS" /\ q = [s EXCEPT !.velocity = 0, !.motion_busy = FALSE]
      \/ q = [s EXCEPT !.mode = "VEL", !.cmd_target_pos = r.actual_pos]
  BY DEF StopOne, s, begun
<1>5. CASE \E y \in Braked(s) : q = Braking(y)
  BY <1>1, <1>3, <1>5 DEF Braked
<1>6. CASE \E y \in Slowed(begun) : q = Braking(y)
  BY <1>2, <1>3, <1>6
<1>7. CASE r.mode = "POS" /\ q = [s EXCEPT !.velocity = 0, !.motion_busy = FALSE]
  BY <1>1, <1>7 DEF Told, Taken
<1>8. CASE q = [s EXCEPT !.mode = "VEL", !.cmd_target_pos = r.actual_pos]
  BY <1>1, <1>8 DEF Told, Taken
<1> QED BY <1>4, <1>5, <1>6, <1>7, <1>8

LEMMA StoppedTaken ==
  ASSUME NEW r, Told(r), NEW d, NEW smooth, NEW q \in Stopped(r, d, smooth)
  PROVE  Taken(q)
<1>1. PICK x \in StopOne(r, smooth) :
        q = IF d = -1 /\ ~Moving(r) /\ Moving(x)
            THEN [x EXCEPT !.dir = -1, !.goal = 2 * x.pos - x.goal] ELSE x
  BY DEF Stopped
<1>2. Taken(x)
  BY StopTaken
<1> QED BY <1>1, <1>2 DEF Taken, Told

LEMMA HaltTaken ==
  ASSUME NEW r, Told(r), NEW q \in Halted(r)
  PROVE  Taken(q)
<1>1. PICK x : /\ x \in {r} \cup Slowed(r)
               /\ q = [x EXCEPT !.mode = "POS", !.motion_busy = TRUE, !.asked = "stop"]
  BY DEF Halted, Braked
<1>2. Told(x)
  BY <1>1 DEF Slowed, Told
<1> QED BY <1>1, <1>2 DEF Told, Taken

\* What a pass does to one axis.
LEMMA ReadKept ==
  ASSUME NEW r, Told(r), NEW f \in BOOLEAN
  PROVE  /\ Told(Read(r, f))
         /\ f => Read(r, f).mode = "HOLD" /\ Read(r, f).asked = "fault"
         /\ ~f => Read(r, f).mode = r.mode /\ Read(r, f).asked = r.asked
<1> DEFINE e == [r EXCEPT !.actual_pos = r.sent, !.fault = f]
<1>1. Told(e) /\ e.mode = r.mode /\ e.asked = r.asked
  BY DEF Told
<1>2. Read(r, f) = IF f THEN Faulted(e) ELSE e
  BY DEF Read
<1> HIDE DEF e
<1>3. Told(Faulted(e)) /\ Faulted(e).mode = "HOLD" /\ Faulted(e).asked = "fault"
  BY <1>1 DEF Faulted, Told
<1> QED BY <1>1, <1>2, <1>3

\* The mode and what was told stay.
Same(r, q) == Told(q) /\ q.mode = r.mode /\ q.asked = r.asked

LEMMA SteppedSame ==
  ASSUME NEW r, Told(r), NEW q \in Stepped(r)
  PROVE  Same(r, q)
BY DEF Stepped, Same, Told

LEMMA ControlledSame ==
  ASSUME NEW r, Told(r), r.mode \in {"POS", "VEL", "HOLD"}, NEW q \in Controlled(r)
  PROVE  Same(r, q)
<1>1. CASE r.mode = "POS"
  <2>1. PICK x \in Stepped(r) :
          \/ q = Arrived(x)
          \/ q = [x EXCEPT !.target_pos = x.pos, !.velocity = x.vel]
    BY <1>1 DEF Controlled
  <2>2. Same(r, x)
    BY SteppedSame
  <2>3. Same(r, Arrived(x))
    BY <2>2 DEF Arrived, Same, Told
  <2>4. Same(r, [x EXCEPT !.target_pos = x.pos, !.velocity = x.vel])
    BY <2>2 DEF Same, Told
  <2> QED BY <2>1, <2>3, <2>4
<1>2. CASE r.mode \in {"VEL", "HOLD"}
  <2>1. PICK v : q = [r EXCEPT !.velocity = v]
    BY <1>2 DEF Controlled
  <2> QED BY <2>1 DEF Same, Told
<1> QED BY <1>1, <1>2

LEMMA ControlledOnSame ==
  ASSUME NEW r, Told(r), r.mode # "DDA", NEW d, NEW q \in ControlledOn(r, d)
  PROVE  Same(r, q)
<1>1. r.mode \in {"POS", "VEL", "HOLD", "ARC"}
  BY DEF Told
<1>2. CASE r.mode = "ARC"
  BY <1>2 DEF ControlledOn, Same
<1>3. CASE r.mode = "VEL" /\ d # 0
  <2>1. PICK v : q = [r EXCEPT !.velocity = v, !.target_pos = @ + v * d]
    BY <1>3 DEF ControlledOn
  <2> QED BY <2>1 DEF Same, Told
<1>4. CASE r.mode = "POS" /\ d # 0
  <2>1. PICK x \in Controlled(r) : q = JogOn(x, d) \/ q = AtEdge(x)
    BY <1>4 DEF ControlledOn
  <2>2. Same(r, x)
    BY <1>1, <1>4, ControlledSame
  <2>3. Same(r, JogOn(x, d))
    <3> DEFINE y == Planned(x, FarGoal(d))
    <3>1. Same(r, y)
      BY <2>2, PlannedTold DEF Same
    <3> HIDE DEF y
    <3>2. Same(r, [y EXCEPT !.mode = "POS", !.motion_busy = TRUE])
      BY <1>4, <3>1 DEF Same, Told
    <3> QED BY <3>2 DEF JogOn, y
  <2>4. Same(r, AtEdge(x))
    BY <2>2 DEF AtEdge, Same, Told
  <2> QED BY <2>1, <2>3, <2>4
<1>5. CASE r.mode # "ARC" /\ ~(r.mode = "VEL" /\ d # 0) /\ ~(r.mode = "POS" /\ d # 0)
  <2>1. q \in Controlled(r)
    BY <1>5 DEF ControlledOn
  <2> QED BY <1>1, <1>5, <2>1, ControlledSame
<1> QED BY <1>2, <1>3, <1>4, <1>5

LEMMA FollowedKept ==
  ASSUME NEW r, Told(r), r.mode = "DDA", NEW q
  PROVE  Told(Followed(r, q)) /\ Followed(r, q).mode # "ARC" /\ Followed(r, q).asked = r.asked
BY DEF Followed, Told

LEMMA SentSame ==
  ASSUME NEW r, Told(r)
  PROVE  Same(r, Sent(r))
BY DEF Sent, Same, Told

\* Interp_ArcXY and Arc_Abort.
LEMMA StartTold ==
  ASSUME NEW s, AllTold(s), NEW arc
  PROVE  LET u == Interp_ArcXY(s, arc)
         IN  AllTold(u) /\ \A a \in XY : u[a].mode = "ARC" /\ u[a].asked = "arc"
<1> DEFINE u == Interp_ArcXY(s, arc)
<1>1. DOMAIN u = Axes
  BY DEF Interp_ArcXY
<1>2. ASSUME NEW a \in Axes
      PROVE  Told(u[a]) /\ (a \in XY => u[a].mode = "ARC" /\ u[a].asked = "arc")
  <2>1. Told(s[a])
    BY <1>2 DEF AllTold
  <2>2. CASE a \in XY
    <3>1. PICK v : u[a] = [s[a] EXCEPT !.mode = "ARC", !.motion_busy = TRUE,
                                       !.velocity = v, !.asked = "arc"]
      BY <1>2, <2>2 DEF Interp_ArcXY
    <3> QED BY <2>1, <3>1 DEF Told
  <2>3. CASE a \notin XY
    BY <1>2, <2>1, <2>3 DEF Interp_ArcXY
  <2> QED BY <2>2, <2>3
<1>3. XY \subseteq Axes
  BY ArcAssumption
<1> QED BY <1>1, <1>2, <1>3 DEF AllTold

LEMMA AbortTold ==
  ASSUME NEW s, AllTold(s)
  PROVE  AllTold(Arc_Abort(s))
BY DEF Arc_Abort, AllTold, Told

\* Arc_ProcessStep takes X and Y out of ARC mode when the arc ends, and only then.
LEMMA ArcStepKept ==
  ASSUME AllTold(axis), NEW p
  PROVE  /\ AllTold(ArcStepped(p))
         /\ \A a \in XY : /\ ArcStepped(p)[a].asked = axis[a].asked
                          /\ ArcStepped(p)[a].mode = IF ArcDone(p) THEN "HOLD" ELSE axis[a].mode
<1> DEFINE u == ArcStepped(p)
<1>1. XY \subseteq Axes
  BY ArcAssumption
<1>2. DOMAIN u = Axes
  BY DEF ArcStepped
<1>3. ASSUME NEW a \in Axes
      PROVE  /\ Told(u[a]) /\ u[a].asked = axis[a].asked
             /\ a \in XY => u[a].mode = IF ArcDone(p) THEN "HOLD" ELSE axis[a].mode
  <2>1. Told(axis[a])
    BY <1>3 DEF AllTold
  <2>2. CASE a \notin XY
    <3>1. u[a] = [axis[a] EXCEPT !.target_pos = axis[a].actual_pos]
      BY <1>3, <2>2 DEF ArcStepped
    <3> QED BY <2>1, <2>2, <3>1 DEF Told
  <2>3. CASE a \in XY /\ ArcDone(p)
    <3>1. u[a] = [axis[a] EXCEPT !.target_pos = g_arc.shape.to[a], !.velocity = 0,
                                 !.motion_busy = FALSE, !.mode = "HOLD"]
      BY <1>3, <2>3 DEF ArcStepped, EndsOn
    <3> QED BY <2>1, <2>3, <3>1 DEF Told
  <2>4. CASE a \in XY /\ ~ArcDone(p)
    <3>1. PICK x, v : u[a] = [axis[a] EXCEPT !.target_pos = x, !.velocity = v]
      BY <1>3, <2>4 DEF ArcStepped, EndsOn
    <3> QED BY <2>1, <2>4, <3>1 DEF Told
  <2> QED BY <2>2, <2>3, <2>4
<1> QED BY <1>1, <1>2, <1>3 DEF AllTold

-----------------------------------------------------------------------------
\* What a pass leaves of the axes before the queue is looked at.
LEMMA FollowKept ==
  ASSUME NEW s, AllTold(s), NEW faults, NEW d, NEW ran,
         \A a \in Axes : ran[a] \in ArcAfter(s, faults, d, a)
  PROVE  /\ AllTold(Follow(s, ran))
         /\ \A a \in Axes :
              LET q == Follow(s, ran)[a]
              IN  /\ s[a].mode # "ARC" => q.mode # "ARC" /\ q.asked \in {s[a].asked, "fault"}
                  /\ s[a].mode = "ARC" =>
                       \/ q.mode = "ARC" /\ q.asked = s[a].asked
                       \/ q.mode = "HOLD" /\ q.asked = "fault"
<1> DEFINE u == Follow(s, ran)
<1>1. DOMAIN u = Axes
  BY DEF Follow
<1>2. ASSUME NEW a \in Axes
      PROVE  /\ Told(u[a])
             /\ s[a].mode # "ARC" => u[a].mode # "ARC" /\ u[a].asked \in {s[a].asked, "fault"}
             /\ s[a].mode = "ARC" =>
                  \/ u[a].mode = "ARC" /\ u[a].asked = s[a].asked
                  \/ u[a].mode = "HOLD" /\ u[a].asked = "fault"
  <2> DEFINE e == Read(s[a], a \in faults)
             x == IF s[a].mode # "DDA" \/ ran[a].mode = "HOLD" THEN ran[a]
                  ELSE Followed(ran[a], ran[ran[a].dda_master])
  <2>1. Told(s[a])
    BY <1>2 DEF AllTold
  <2>2. /\ Told(e)
        /\ a \in faults => e.mode = "HOLD" /\ e.asked = "fault"
        /\ a \notin faults => e.mode = s[a].mode /\ e.asked = s[a].asked
    <3>1. (a \in faults) \in BOOLEAN
      OBVIOUS
    <3> QED BY <2>1, <3>1, ReadKept
  <2>3. Same(e, ran[a])
    <3>1. ran[a] \in ArcAfter(s, faults, d, a)
      BY <1>2
    <3>2. CASE s[a].mode = "DDA"
      BY <2>2, <3>1, <3>2 DEF ArcAfter, Same
    <3>3. CASE s[a].mode # "DDA"
      <4>1. e.mode # "DDA"
        BY <2>2, <3>3
      <4>2. ran[a] \in ControlledOn(e, IF a \in faults THEN 0 ELSE d[a])
        BY <3>1, <3>3 DEF ArcAfter
      <4> HIDE DEF e
      <4> QED BY <2>2, <4>1, <4>2, ControlledOnSame
    <3> QED BY <3>2, <3>3
  <2>4. u[a] = Sent(x)
    BY <1>2 DEF Follow, MasterSeen
  <2> HIDE DEF e, u
  <2>5. CASE s[a].mode # "DDA" \/ ran[a].mode = "HOLD"
    <3>1. x = ran[a] /\ Told(ran[a])
      BY <2>3, <2>5 DEF Same
    <3>2. Same(ran[a], u[a])
      BY <2>4, <3>1, SentSame
    <3> QED BY <2>1, <2>2, <2>3, <2>5, <3>2 DEF Same
  <2>6. CASE ~(s[a].mode # "DDA" \/ ran[a].mode = "HOLD")
    <3>1. Told(ran[a]) /\ ran[a].mode = "DDA"
      BY <2>2, <2>3, <2>6 DEF Same
    <3>2. x = Followed(ran[a], ran[ran[a].dda_master])
      BY <2>6
    <3>3. Told(x) /\ x.mode # "ARC" /\ x.asked = ran[a].asked
      BY <3>1, <3>2, FollowedKept
    <3> HIDE DEF x
    <3>4. Same(x, u[a])
      BY <2>4, <3>3, SentSame
    <3> QED BY <2>2, <2>3, <2>6, <3>3, <3>4 DEF Same
  <2> QED BY <2>5, <2>6
<1> QED BY <1>1, <1>2 DEF AllTold

LEMMA QueueTaken ==
  ASSUME NEW s, AllTold(s), ProcessQueue(s)
  PROVE  \/ axis' = s
         \/ DOMAIN axis' = Axes /\ \A a \in Axes : Taken(axis'[a])
<1>1. CASE axis' = s
  BY <1>1
<1>2. CASE axis' # s
  <2>1. PICK seg \in Segments : axis' = Interp_Line(s, seg)
    BY <1>2 DEF ProcessQueue
  <2> QED BY <1>2, <2>1, LineTaken
<1> QED BY <1>1, <1>2

ArcIInv == AllTold(axis) /\ ArcMode /\ ArcAdvances

LEMMA ArcInductiveInit == ArcInit => ArcIInv
<1> SUFFICES ASSUME ArcInit PROVE ArcIInv
  OBVIOUS
<1>1. axis = [a \in Axes |-> Idle] /\ ~g_arc.active
  BY DEF ArcInit, Init, NoArc
<1>2. Told(Idle) /\ Idle.mode = "HOLD"
  BY DEF Idle, Told
<1>3. XY \subseteq Axes
  BY ArcAssumption
<1> QED BY <1>1, <1>2, <1>3 DEF ArcIInv, AllTold, ArcMode, ArcAdvances

\* The rest of a pass keeps X and Y in the arc, or lets a fault or a queued
\* line take them out of it.
LEMMA ControlKept ==
  ASSUME NEW s, AllTold(s), NEW turn, Control(s, turn)
  PROVE  /\ AllTold(axis')
         /\ \A a \in Axes :
              \/ axis'[a].mode = "ARC" /\ s[a].mode = "ARC" /\ axis'[a].asked = s[a].asked
              \/ axis'[a].mode # "ARC" /\ axis'[a].asked = "fault"
              \/ axis'[a].mode # "ARC" /\ s[a].mode # "ARC" /\ axis'[a].asked = s[a].asked
              \/ Taken(axis'[a])
<1>1. PICK faults \in SUBSET Faulty :
        \E ran \in Outcomes(LAMBDA a : ArcAfter(s, faults, turn, a)) :
          IF QueueGate(g_arc') THEN ProcessQueue(Follow(s, ran))
          ELSE axis' = Follow(s, ran) /\ UNCHANGED qvars
  BY DEF Control
<1>2. PICK ran : /\ \A a \in Axes : ran[a] \in ArcAfter(s, faults, turn, a)
                 /\ ProcessQueue(Follow(s, ran)) \/ axis' = Follow(s, ran)
  BY <1>1 DEF Outcomes
<1> DEFINE u == Follow(s, ran)
<1>3. /\ AllTold(u)
      /\ \A a \in Axes :
           \/ u[a].mode = "ARC" /\ s[a].mode = "ARC" /\ u[a].asked = s[a].asked
           \/ u[a].mode # "ARC" /\ u[a].asked = "fault"
           \/ u[a].mode # "ARC" /\ s[a].mode # "ARC" /\ u[a].asked = s[a].asked
  BY <1>2, FollowKept
<1>4. axis' = u \/ (DOMAIN axis' = Axes /\ \A a \in Axes : Taken(axis'[a]))
  <2> HIDE DEF u
  <2>1. ProcessQueue(u) \/ axis' = u
    BY <1>2 DEF u
  <2> QED BY <1>3, <2>1, QueueTaken
<1> HIDE DEF u
<1> QED BY <1>3, <1>4 DEF AllTold, Taken

\* The planner of an arc that goes on runs.
LEMMA ArcPassOK ==
  ASSUME ArcIInv, ArcPass
  PROVE  ArcIInv'
<1>1. XY \subseteq Axes /\ AllTold(axis) /\ ArcMode /\ ArcAdvances
  BY ArcAssumption DEF ArcIInv
<1>2. CASE ~g_arc.active /\ UNCHANGED g_arc /\ Control(axis, direction)
  <2>1. /\ AllTold(axis')
        /\ \A a \in Axes :
             \/ axis'[a].mode = "ARC" /\ axis[a].mode = "ARC" /\ axis'[a].asked = axis[a].asked
             \/ axis'[a].mode # "ARC"
    BY <1>1, <1>2, ControlKept DEF Taken
  <2> QED BY <1>1, <1>2, <2>1 DEF ArcIInv, ArcMode, ArcAdvances, AllTold, Told
<1>3. CASE /\ g_arc.active
           /\ \E p \in Stepped(g_arc.planner) :
                /\ g_arc' = IF ArcDone(p) THEN Ended(g_arc) ELSE Active(g_arc.shape, p)
                /\ Control(ArcStepped(p), ArcDirection(p))
  <2>1. PICK p \in Stepped(g_arc.planner) :
          /\ g_arc' = IF ArcDone(p) THEN Ended(g_arc) ELSE Active(g_arc.shape, p)
          /\ Control(ArcStepped(p), ArcDirection(p))
    BY <1>3
  <2> DEFINE s == ArcStepped(p)
  <2>2. /\ AllTold(s)
        /\ \A a \in XY : /\ s[a].asked = axis[a].asked
                         /\ s[a].mode = IF ArcDone(p) THEN "HOLD" ELSE axis[a].mode
    BY <1>1, ArcStepKept
  <2>3. /\ AllTold(axis')
        /\ \A a \in Axes :
             \/ axis'[a].mode = "ARC" /\ s[a].mode = "ARC" /\ axis'[a].asked = s[a].asked
             \/ axis'[a].mode # "ARC" /\ axis'[a].asked = "fault"
             \/ axis'[a].mode # "ARC" /\ s[a].mode # "ARC" /\ axis'[a].asked = s[a].asked
             \/ Taken(axis'[a])
    <3> HIDE DEF s
    <3>1. Control(s, ArcDirection(p))
      BY <2>1 DEF s
    <3> QED BY <2>2, <3>1, ControlKept
  <2> HIDE DEF s
  <2>4. (g_arc'.active <=> ~ArcDone(p)) /\ ArcAdvances'
    <3>1. CASE ArcDone(p)
      <4>1. g_arc' = Ended(g_arc) /\ g_arc # NoArc
        BY <1>3, <2>1, <3>1 DEF NoArc
      <4> QED BY <3>1, <4>1 DEF Ended, ArcAdvances
    <3>2. CASE ~ArcDone(p)
      <4>1. g_arc' = Active(g_arc.shape, p)
        BY <2>1, <3>2
      <4> QED BY <3>2, <4>1 DEF Active, ArcDone, ArcAdvances
    <3> QED BY <3>1, <3>2
  <2>5. ArcMode'
    <3> SUFFICES ASSUME NEW a \in XY
                 PROVE  axis'[a].mode = "ARC" <=> g_arc'.active /\ axis'[a].asked = "arc"
      BY DEF ArcMode
    <3>1. axis[a].mode = "ARC" <=> axis[a].asked = "arc"
      BY <1>1, <1>3 DEF ArcMode
    <3> QED BY <1>1, <2>2, <2>3, <2>4, <3>1 DEF Taken
  <2> QED BY <2>3, <2>4, <2>5 DEF ArcIInv, AllTold, Told
<1> QED BY <1>2, <1>3 DEF ArcPass

\* A command that takes one axis, or all of them, out of the arc.
LEMMA TakenOK ==
  ASSUME ArcIInv, DOMAIN axis' = Axes,
         \A a \in Axes : axis'[a] = axis[a] \/ Taken(axis'[a]),
         UNCHANGED g_arc
  PROVE  ArcIInv'
<1>1. XY \subseteq Axes
  BY ArcAssumption
<1> QED BY <1>1 DEF ArcIInv, AllTold, ArcMode, ArcAdvances, Taken, Told

LEMMA ArcNextOK == ArcIInv /\ [ArcNext]_arcVars => ArcIInv'
<1> SUFFICES ASSUME ArcIInv, [ArcNext]_arcVars PROVE ArcIInv'
  OBVIOUS
<1>1. AllTold(axis) /\ ArcMode /\ ArcAdvances /\ XY \subseteq Axes
  BY ArcAssumption DEF ArcIInv
<1>2. CASE ArcPass
  BY <1>2, ArcPassOK
<1>3. ASSUME NEW arc \in Arcs, StartArc(arc) PROVE ArcIInv'
  <2> DEFINE u == Interp_ArcXY(axis, arc)
  <2>1. AllTold(u) /\ \A a \in XY : u[a].mode = "ARC" /\ u[a].asked = "arc"
    BY <1>1, StartTold
  <2>2. axis' = u /\ g_arc'.active /\ g_arc'.planner.running
    BY <1>3 DEF StartArc, Active, ArcPlanned
  <2> HIDE DEF u
  <2> QED BY <2>1, <2>2 DEF ArcIInv, AllTold, Told, ArcMode, ArcAdvances
<1>4. ASSUME NEW t \in Lines, ArcLine(t) PROVE ArcIInv'
  <2>1. axis' = Interp_Line(axis, t) /\ UNCHANGED g_arc
    BY <1>4 DEF ArcLine, Line
  <2>2. axis' = axis \/ (DOMAIN axis' = Axes /\ \A a \in Axes : Taken(axis'[a]))
    BY <1>1, <2>1, LineTaken
  <2> QED BY <1>1, <2>1, <2>2, TakenOK DEF AllTold
<1>5. ASSUME NEW move \in Moves, ArcMoveTo(move[1], move[2]) PROVE ArcIInv'
  <2>1. /\ axis' = [axis EXCEPT ![move[1]] = ApplyPosition(axis[move[1]], move[2])]
        /\ UNCHANGED g_arc
    BY <1>5 DEF ArcMoveTo, MoveTo
  <2>2. ASSUME NEW a \in Axes PROVE Taken(ApplyPosition(axis[a], move[2]))
    BY <1>1, MoveTaken DEF AllTold
  <2> QED BY <1>1, <2>1, <2>2, TakenOK DEF AllTold
<1>6. ASSUME NEW a \in Stops, NEW smooth \in Smooth, ArcStop(a, smooth) PROVE ArcIInv'
  <2>1. a \in Axes
    BY LineAssumption
  <2>2. PICK r \in Stopped(axis[a], direction[a], smooth) : axis' = [axis EXCEPT ![a] = r]
    BY <1>6 DEF ArcStop
  <2>3. Taken(r)
    BY <1>1, <2>1, StoppedTaken DEF AllTold
  <2>4. UNCHANGED g_arc
    BY <1>6 DEF ArcStop
  <2> QED BY <1>1, <2>2, <2>3, <2>4, TakenOK DEF AllTold
<1>7. ASSUME NEW a \in Halts, ArcHalt(a) PROVE ArcIInv'
  <2>1. a \in Axes
    BY LineAssumption
  <2>2. PICK r \in Halted(axis[a]) : axis' = [axis EXCEPT ![a] = r]
    BY <1>7 DEF ArcHalt, Halt
  <2>3. Taken(r)
    BY <1>1, <2>1, HaltTaken DEF AllTold
  <2>4. UNCHANGED g_arc
    BY <1>7 DEF ArcHalt
  <2> QED BY <1>1, <2>2, <2>3, <2>4, TakenOK DEF AllTold
<1>8. ASSUME NEW smooth \in Smooth, ArcAbort(smooth) PROVE ArcIInv'
  <2> DEFINE s == IF g_arc.active THEN Arc_Abort(axis) ELSE axis
  <2>1. AllTold(s)
    BY <1>1, AbortTold
  <2> HIDE DEF s
  <2>2. axis' \in Outcomes(LAMBDA a : Stopped(s[a], direction[a], smooth))
    BY <1>8 DEF ArcAbort, s
  <2>3. DOMAIN axis' = Axes /\ \A a \in Axes : axis'[a] \in Stopped(s[a], direction[a], smooth)
    BY <2>2 DEF Outcomes
  <2>4. \A a \in Axes : Taken(axis'[a])
    BY <2>1, <2>3, StoppedTaken DEF AllTold
  <2>5. ~g_arc'.active
    BY <1>8 DEF ArcAbort, Ended, NoArc
  <2> QED BY <1>1, <2>3, <2>4, <2>5 DEF ArcIInv, AllTold, ArcMode, ArcAdvances, Taken
<1>9. ASSUME NEW a \in Axes, ArcResetDone(a) PROVE ArcIInv'
  <2>1. PICK r : /\ axis' = [axis EXCEPT ![a] = r]
                 /\ r = [axis[a] EXCEPT !.mode = "HOLD", !.velocity = 0, !.motion_busy = FALSE,
                           !.running = FALSE, !.pos = 0, !.goal = 0, !.dir = 1, !.vel = 0]
                 /\ axis[a].asked = "fault"
    BY <1>9 DEF ArcResetDone, ResetDone
  <2>2. Taken(r)
    BY <1>1, <2>1 DEF AllTold, Told, Taken
  <2>3. UNCHANGED g_arc
    BY <1>9 DEF ArcResetDone
  <2> QED BY <1>1, <2>1, <2>2, <2>3, TakenOK DEF AllTold
<1>10. CASE ArcQueueCommand
  BY <1>1, <1>10, TakenOK DEF ArcQueueCommand, QueueCommand, AllTold
<1>11. CASE UNCHANGED <<axis, g_arc>>
  BY <1>1, <1>11, TakenOK DEF AllTold
<1>12. CASE UNCHANGED arcVars \/ ArcSpin \/ \E t \in Lines : ArcLineLoops(t)
  BY <1>11, <1>12 DEF ArcSpin, ArcLineLoops, LineLoops, arcVars, vars
<1> QED
  BY <1>2, <1>3, <1>4, <1>5, <1>6, <1>7, <1>8, <1>9, <1>10, <1>12 DEF ArcNext

\* ARC mode is for the axes that were last told to follow the arc that is active
\* (motion_api.c:531, 595, 611).
THEOREM ArcKeepsItsAxes == ArcSpec => []ArcMode
<1>1. ArcIInv => ArcMode
  BY DEF ArcIInv
<1> QED BY <1>1, ArcInductiveInit, ArcNextOK, PTL DEF ArcSpec

\* An active arc runs, whatever has become of its axes (motion_api.c:546).
THEOREM ArcsAdvance == ArcSpec => []ArcAdvances
<1>1. ArcIInv => ArcAdvances
  BY DEF ArcIInv
<1> QED BY <1>1, ArcInductiveInit, ArcNextOK, PTL DEF ArcSpec

-----------------------------------------------------------------------------
\* HomingMotion.  Its invariant needs of an axis its mode, what it was last
\* told and its target.
Fit(r) ==
  /\ "mode" \in DOMAIN r /\ "asked" \in DOMAIN r /\ "cmd_target_pos" \in DOMAIN r
  /\ r.mode \in {"HOLD", "VEL", "POS", "DDA"}

AllFit(s) == DOMAIN s = Axes /\ \A a \in Axes : Fit(s[a])

\* What was told and the target stay.
Stays(r, q) == Fit(q) /\ q.asked = r.asked /\ q.cmd_target_pos = r.cmd_target_pos

LEMMA PlannedStays ==
  ASSUME NEW r, Fit(r), NEW to
  PROVE  Stays(r, Planned(r, to))
BY DEF Planned, Fit, Stays

\* An axis that a line has taken.
Lined(r) == Fit(r) /\ r.asked = "line"

LEMMA LineFit ==
  ASSUME NEW s, AllFit(s), NEW t
  PROVE  LET u == Interp_Line(s, t)
         IN  u = s \/ (DOMAIN u = Axes /\ \A a \in Axes : Fit(u[a]) /\ u[a].asked = "line")
<1> DEFINE delta == [a \in Axes |-> t[a] - s[a].actual_pos]
           m == Leader(delta)
           u == Interp_Line(s, t)
           told(a) == [s[a] EXCEPT !.cmd_target_pos = t[a], !.motion_busy = TRUE,
                                   !.asked = "line"]
           slave(a) == [told(a) EXCEPT
                      !.mode = "DDA", !.target_pos = s[a].actual_pos,
                      !.dda_master = m,
                      !.dda_start = s[a].actual_pos, !.dda_delta = delta[a],
                      !.dda_master_start = MasterStart(s[m]),
                      !.dda_master_delta = Abs(delta[m])]
           master(a) == [Planned(told(a), t[a]) EXCEPT !.mode = "POS", !.dda_master = -1]
<1>1. ASSUME NEW a \in Axes PROVE Fit(told(a)) /\ told(a).asked = "line"
  BY DEF AllFit, Fit
<1>2. ASSUME NEW a \in Axes PROVE Fit(master(a)) /\ master(a).asked = "line"
  <2> DEFINE q == Planned(told(a), t[a])
  <2>1. Fit(q) /\ q.asked = "line"
    BY <1>1, PlannedStays DEF Stays
  <2> HIDE DEF q
  <2>2. LET x == [q EXCEPT !.mode = "POS", !.dda_master = -1]
        IN  Fit(x) /\ x.asked = "line"
    BY <2>1 DEF Fit
  <2> QED BY <2>2 DEF q
<1>3. ASSUME NEW a \in Axes PROVE Lined(slave(a))
  <2> DEFINE q == told(a)
  <2>1. Fit(q) /\ q.asked = "line"
    BY <1>1
  <2> HIDE DEF q
  <2>2. ASSUME NEW x1, NEW x2, NEW x3, NEW x4, NEW x5, NEW x6
        PROVE Lined([q EXCEPT !.mode = "DDA", !.target_pos = x1, !.dda_master = x2,
                       !.dda_start = x3, !.dda_delta = x4, !.dda_master_start = x5,
                       !.dda_master_delta = x6])
    BY <2>1 DEF Fit, Lined
  <2> QED BY <2>2 DEF q
<1>4. u = s \/ (DOMAIN u = Axes /\ \A a \in Axes : u[a] = IF a = m THEN master(a) ELSE slave(a))
  <2>1. u = IF \A a \in Axes : delta[a] = 0 THEN s
            ELSE [a \in Axes |-> IF a = m THEN master(a) ELSE slave(a)]
    BY DEF Interp_Line
  <2> HIDE DEF u, m, master, slave, told, delta
  <2> QED BY <2>1
<1> HIDE DEF u, m, master, slave, told, delta
<1>5. ASSUME u # s
      PROVE  DOMAIN u = Axes /\ \A a \in Axes : Fit(u[a]) /\ u[a].asked = "line"
  BY <1>2, <1>3, <1>4, <1>5 DEF Lined
<1> QED BY <1>5 DEF u

LEMMA StopFit ==
  ASSUME NEW r, Fit(r), NEW smooth, NEW q \in StopOne(r, smooth)
  PROVE  Fit(q) /\ q.asked # "zero"
<1> DEFINE s == [r EXCEPT !.target_pos = r.actual_pos,
                     !.asked = IF @ \in {"line", "slowed"} /\ r.mode = "POS" /\ r.running
                               THEN "slowed" ELSE "stop"]
           Braking(x) == [x EXCEPT !.mode = "POS", !.motion_busy = TRUE]
           begun == [s EXCEPT !.running = TRUE, !.pos = r.actual_pos,
                              !.vel = r.velocity, !.dir = 1]
<1>1. Fit(s) /\ s.asked # "zero" /\ s.mode = r.mode
  BY DEF Fit
<1> HIDE DEF s
<1>2. Fit(begun) /\ begun.asked # "zero"
  BY <1>1 DEF Fit
<1> HIDE DEF begun
<1>3. ASSUME NEW x, Fit(x), x.asked # "zero", NEW y \in {x} \cup Slowed(x)
      PROVE  Fit(Braking(y)) /\ Braking(y).asked # "zero"
  <2>1. Fit(y) /\ y.asked # "zero"
    BY <1>3 DEF Slowed, Fit
  <2> QED BY <2>1 DEF Fit
<1>4. \/ \E y \in Braked(s) : q = Braking(y)
      \/ \E y \in Slowed(begun) : q = Braking(y)
      \/ r.mode = "POS" /\ q = [s EXCEPT !.velocity = 0, !.motion_busy = FALSE]
      \/ q = [s EXCEPT !.mode = "VEL", !.cmd_target_pos = r.actual_pos]
  BY DEF StopOne, s, begun
<1>5. CASE \E y \in Braked(s) : q = Braking(y)
  BY <1>1, <1>3, <1>5 DEF Braked
<1>6. CASE \E y \in Slowed(begun) : q = Braking(y)
  BY <1>2, <1>3, <1>6
<1>7. CASE r.mode = "POS" /\ q = [s EXCEPT !.velocity = 0, !.motion_busy = FALSE]
  BY <1>1, <1>7 DEF Fit
<1>8. CASE q = [s EXCEPT !.mode = "VEL", !.cmd_target_pos = r.actual_pos]
  BY <1>1, <1>8 DEF Fit
<1> QED BY <1>4, <1>5, <1>6, <1>7, <1>8

LEMMA HaltFit ==
  ASSUME NEW r, Fit(r), NEW q \in Halted(r)
  PROVE  Fit(q) /\ q.asked = "stop"
<1>1. PICK x : /\ x \in {r} \cup Slowed(r)
               /\ q = [x EXCEPT !.mode = "POS", !.motion_busy = TRUE, !.asked = "stop"]
  BY DEF Halted, Braked
<1>2. Fit(x)
  BY <1>1 DEF Slowed, Fit
<1> QED BY <1>1, <1>2 DEF Fit

LEMMA MoveFit ==
  ASSUME NEW r, Fit(r), NEW to
  PROVE  Fit(ApplyPosition(r, to)) /\ ApplyPosition(r, to).asked = "move"
<1> DEFINE q == Planned(r, to)
<1>1. Fit(q)
  BY PlannedStays DEF Stays
<1> HIDE DEF q
<1>2. LET x == [q EXCEPT !.mode = "POS", !.cmd_target_pos = to,
                         !.motion_busy = TRUE, !.asked = "move"]
      IN  Fit(x) /\ x.asked = "move"
  BY <1>1 DEF Fit
<1> QED BY <1>2 DEF ApplyPosition, q

LEMMA ZeroFit ==
  ASSUME NEW r, Fit(r), NEW to
  PROVE  Fit(Zeroed(r, to)) /\ Zeroed(r, to).cmd_target_pos = to
<1> DEFINE q == Planned(r, to)
<1>1. Fit(q)
  BY PlannedStays DEF Stays
<1> HIDE DEF q
<1>2. LET x == [q EXCEPT !.mode = "POS", !.cmd_target_pos = to, !.asked = "zero"]
      IN  Fit(x) /\ x.cmd_target_pos = to
  BY <1>1 DEF Fit
<1> QED BY <1>2 DEF Zeroed, q

LEMMA CreepFit ==
  ASSUME NEW r, Fit(r)
  PROVE  Fit(Creeping(r)) /\ Creeping(r).cmd_target_pos = 0 /\ Creeping(r).asked = r.asked
<1> DEFINE q == Planned(r, 0)
<1>1. Fit(q) /\ q.asked = r.asked
  BY PlannedStays DEF Stays
<1> HIDE DEF q
<1>2. LET x == [q EXCEPT !.cmd_target_pos = 0, !.target_pos = r.actual_pos,
                         !.sent = r.actual_pos]
      IN  Fit(x) /\ x.cmd_target_pos = 0 /\ x.asked = r.asked
  BY <1>1 DEF Fit
<1> QED BY <1>2 DEF Creeping, q

\* What a pass does to one axis before the homing check.
LEMMA ReadFit ==
  ASSUME NEW r, Fit(r), NEW f \in BOOLEAN
  PROVE  LET q == Read(r, f)
         IN  /\ Fit(q)
             /\ f => q.mode = "HOLD" /\ q.asked = "fault"
             /\ ~f => q.mode = r.mode /\ Stays(r, q)
<1> DEFINE e == [r EXCEPT !.actual_pos = r.sent, !.fault = f]
<1>1. Stays(r, e) /\ e.mode = r.mode
  BY DEF Fit, Stays
<1>2. Read(r, f) = IF f THEN Faulted(e) ELSE e
  BY DEF Read
<1> HIDE DEF e
<1>3. Fit(Faulted(e)) /\ Faulted(e).mode = "HOLD" /\ Faulted(e).asked = "fault"
  BY <1>1 DEF Faulted, Fit, Stays
<1> QED BY <1>1, <1>2, <1>3 DEF Stays

LEMMA ControlledStays ==
  ASSUME NEW r, Fit(r), r.mode # "DDA", NEW q \in Controlled(r)
  PROVE  Stays(r, q)
<1>1. CASE r.mode = "POS"
  <2>1. PICK x \in Stepped(r) :
          \/ q = Arrived(x)
          \/ q = [x EXCEPT !.target_pos = x.pos, !.velocity = x.vel]
    BY <1>1 DEF Controlled
  <2>2. Stays(r, x)
    BY DEF Stepped, Stays, Fit
  <2>3. Stays(r, Arrived(x))
    BY <2>2 DEF Arrived, Stays, Fit
  <2>4. Stays(r, [x EXCEPT !.target_pos = x.pos, !.velocity = x.vel])
    BY <2>2 DEF Stays, Fit
  <2> QED BY <2>1, <2>3, <2>4
<1>2. CASE r.mode \in {"VEL", "HOLD"}
  <2>1. PICK v : q = [r EXCEPT !.velocity = v]
    BY <1>2 DEF Controlled
  <2> QED BY <2>1 DEF Stays, Fit
<1> QED BY <1>1, <1>2 DEF Fit

LEMMA FollowedStays ==
  ASSUME NEW r, Fit(r), NEW m
  PROVE  Stays(r, Followed(r, m))
BY DEF Followed, Stays, Fit

LEMMA SentStays ==
  ASSUME NEW r, Fit(r)
  PROVE  Stays(r, Sent(r))
BY DEF Sent, Stays, Fit

\* What is left of the axes when the homing check looks at them.
LEMMA FollowFit ==
  ASSUME AllFit(axis), NEW faults, NEW ran, \A a \in Axes : ran[a] \in After(faults, a)
  PROVE  LET s == Follow(axis, ran)
         IN  /\ AllFit(s)
             /\ \A a \in Axes : s[a].asked = "fault" \/ Stays(axis[a], s[a])
<1> DEFINE s == Follow(axis, ran)
<1>1. DOMAIN s = Axes
  BY DEF Follow
<1>2. ASSUME NEW a \in Axes
      PROVE  Fit(s[a]) /\ (s[a].asked = "fault" \/ Stays(axis[a], s[a]))
  <2>1. Fit(axis[a]) /\ (a \in faults) \in BOOLEAN
    BY DEF AllFit
  <2> DEFINE e == Read(axis[a], a \in faults)
  <2>2. /\ Fit(e) /\ (e.asked = "fault" \/ Stays(axis[a], e))
        /\ axis[a].mode # "DDA" => e.mode # "DDA"
    BY <2>1, ReadFit
  <2>3. ran[a] = e \/ (e.mode # "DDA" /\ ran[a] \in Controlled(e))
    BY <2>2 DEF After
  <2> HIDE DEF e
  <2>4. Stays(e, ran[a])
    BY <2>2, <2>3, ControlledStays DEF Stays
  <2>5. PICK x : /\ s[a] = Sent(x)
                 /\ x = ran[a] \/ x = Followed(ran[a], MasterSeen(ran, ran[a]))
    BY DEF Follow
  <2>6. Stays(ran[a], x)
    BY <2>4, <2>5, FollowedStays DEF Stays
  <2>7. Stays(x, s[a])
    BY <2>5, <2>6, SentStays DEF Stays
  <2> QED BY <2>2, <2>4, <2>6, <2>7 DEF Stays
<1> QED BY <1>1, <1>2 DEF AllFit

\* An axis that homes in one phase, or in its last, is on its way to the origin.
HomeTargets ==
  \A a \in Axes : axis[a].asked = "zero" /\ homing[a] \notin {"no", "fast"}
                  => axis[a].cmd_target_pos = 0

HomeIInv == AllFit(axis) /\ HomeTargets

LEMMA HomeInductiveInit == HomeInit => HomeIInv
BY DEF HomeInit, Init, Idle, HomeIInv, AllFit, Fit, HomeTargets

\* A step that completes the homing of axis a does so at the origin.
EndsAtHome(a) ==
  /\ homing[a] # "no" /\ homing'[a] = "no"
  /\ axis[a].asked = "zero" /\ axis'[a].asked = "zero"
  => Abs(0 - axis'[a].actual_pos) <= Thresh

HomeStepOK == HomeIInv' /\ \A a \in Axes : EndsAtHome(a)

\* A pass keeps the targets, and completes homing only at the origin.
LEMMA HomePassOK ==
  ASSUME HomeIInv, HomePass
  PROVE  HomeStepOK
<1>0. PICK faults : \E ran :
        /\ \A a \in Axes : ran[a] \in After(faults, a)
        /\ LET s == Follow(axis, ran)
               t == Switched(s)
           IN  CheckHomingDone(s, t) /\ ProcessQueue(t)
  BY DEF HomePass, Outcomes
<1>1. PICK ran :
        /\ \A a \in Axes : ran[a] \in After(faults, a)
        /\ LET s == Follow(axis, ran)
               t == Switched(s)
           IN  CheckHomingDone(s, t) /\ ProcessQueue(t)
  BY <1>0
<1> DEFINE s == Follow(axis, ran)
           t == Switched(s)
<1>2. AllFit(s) /\ \A a \in Axes : s[a].asked = "fault" \/ Stays(axis[a], s[a])
  BY <1>1, FollowFit DEF HomeIInv
<1>3. CheckHomingDone(s, t) /\ ProcessQueue(t)
  BY <1>1
<1> HIDE DEF s
<1>4. DOMAIN t = Axes
  BY DEF Switched
<1>5. ASSUME NEW a \in Axes
      PROVE  /\ Fit(t[a]) /\ t[a].asked = s[a].asked
             /\ a \in Switching(s) => t[a].cmd_target_pos = 0
             /\ a \notin Switching(s) => t[a] = s[a]
  BY <1>2, <1>5, CreepFit DEF Switched, AllFit
<1> HIDE DEF t
<1>6. AllFit(t)
  BY <1>4, <1>5 DEF AllFit
<1>7. axis' = t \/ \A a \in Axes : axis'[a].asked = "line"
  BY <1>3, <1>6, LineFit DEF ProcessQueue
<1>8. AllFit(axis')
  BY <1>3, <1>6, LineFit DEF ProcessQueue, AllFit
<1>9. ASSUME NEW a \in Axes, axis[a].asked = "zero", axis'[a].asked = "zero"
      PROVE  axis'[a] = t[a] /\ (a \notin Switching(s) => Stays(axis[a], t[a]))
  BY <1>2, <1>5, <1>7, <1>9
<1>10. ASSUME NEW a \in Axes, axis'[a].asked = "zero", homing'[a] \notin {"no", "fast"}
       PROVE  axis'[a].cmd_target_pos = 0
  <2>1. axis'[a] = t[a] /\ t[a].asked = "zero" /\ s[a].asked = "zero"
    BY <1>5, <1>7, <1>10
  <2>2. axis[a].asked = "zero"
    BY <1>2, <2>1 DEF Stays
  <2>3. CASE a \in Switching(s)
    BY <1>5, <2>1, <2>3
  <2>4. CASE a \notin Switching(s)
    <3>1. homing'[a] = homing[a]
      BY <1>3, <1>10, <2>4 DEF CheckHomingDone
    <3> QED BY <1>9, <1>10, <2>1, <2>2, <2>4, <3>1 DEF HomeIInv, HomeTargets, Stays
  <2> QED BY <2>3, <2>4
<1>11. ASSUME NEW a \in Axes, homing[a] # "no", homing'[a] = "no",
              axis[a].asked = "zero", axis'[a].asked = "zero"
       PROVE  Abs(0 - axis'[a].actual_pos) <= Thresh
  <2>1. homing_active /\ AllHome(s, t)
    BY <1>3, <1>11 DEF CheckHomingDone
  <2>2. IsAtTarget(t[a])
    BY <1>11, <2>1 DEF AllHome
  <2>3. t[a].cmd_target_pos = 0
    <3>1. CASE a \in Switching(s)
      BY <1>5, <3>1
    <3>2. CASE a \notin Switching(s)
      <4>1. homing[a] # "fast"
        BY <1>5, <2>1, <2>2, <3>2 DEF Switching
      <4> QED BY <1>9, <1>11, <3>2, <4>1 DEF HomeIInv, HomeTargets, Stays
    <3> QED BY <3>1, <3>2
  <2> QED BY <1>9, <1>11, <2>2, <2>3 DEF IsAtTarget
<1>12. HomeIInv'
  BY <1>8, <1>10 DEF HomeIInv, HomeTargets, AllFit, Fit
<1> QED BY <1>11, <1>12 DEF HomeStepOK, EndsAtHome

\* A command that sends no axis home: those it takes are told something else.
LEMMA HomeKept ==
  ASSUME HomeIInv, DOMAIN axis' = Axes,
         \A a \in Axes : /\ Fit(axis'[a])
                         /\ axis'[a].asked = "zero" => Stays(axis[a], axis'[a])
                         /\ homing'[a] = homing[a] \/ homing'[a] = "no"
  PROVE  HomeIInv'
BY DEF HomeIInv, HomeTargets, AllFit, Fit, Stays

LEMMA HomeSent ==
  ASSUME HomeIInv, NEW as \in Zeros, SerialZero(as) \/ PanelZero(as)
  PROVE  HomeIInv' /\ \A a \in Axes : homing'[a] = "no" => homing[a] = "no"
<1>1. DOMAIN axis' = Axes
  BY DEF SerialZero, PanelZero, SendHome
<1>2. ASSUME NEW a \in as, NEW to, axis'[a] = Zeroed(axis[a], to), a \in Axes
      PROVE  Fit(axis'[a]) /\ axis'[a].cmd_target_pos = to
  BY <1>2, ZeroFit DEF HomeIInv, AllFit
<1>3. ASSUME NEW a \in Axes, a \in as
      PROVE  \E to : /\ axis'[a] = Zeroed(axis[a], to)
                     /\ homing'[a] # "no" /\ (homing'[a] # "fast" => to = 0)
  BY <1>3 DEF SerialZero, PanelZero, SendHome
<1>4. ASSUME NEW a \in Axes, a \notin as
      PROVE  axis'[a] = axis[a] /\ homing'[a] = homing[a]
  BY <1>4 DEF SerialZero, PanelZero, SendHome
<1>5. AllFit(axis')
  BY <1>1, <1>2, <1>3, <1>4 DEF AllFit, HomeIInv
<1>6. HomeTargets'
  <2>1. ASSUME NEW a \in Axes, axis'[a].asked = "zero", homing'[a] \notin {"no", "fast"}
        PROVE  axis'[a].cmd_target_pos = 0
    <3>1. CASE a \in as
      BY <1>2, <1>3, <2>1, <3>1
    <3>2. CASE a \notin as
      BY <1>4, <2>1, <3>2 DEF HomeTargets, HomeIInv
    <3> QED BY <3>1, <3>2
  <2> QED BY <2>1 DEF HomeTargets
<1>7. AllFit(axis)'
  BY <1>5 DEF AllFit, Fit
<1> QED BY <1>3, <1>4, <1>6, <1>7 DEF HomeIInv

LEMMA HomeStep ==
  ASSUME HomeIInv, [HomeNext]_homeVars
  PROVE  HomeStepOK
<1> DEFINE Others(a) == Fit(axis'[a]) /\ (axis'[a].asked = "zero" => Stays(axis[a], axis'[a]))
<1>0. DOMAIN axis = Axes /\ \A a \in Axes : Fit(axis[a]) /\ Stays(axis[a], axis[a])
  BY DEF HomeIInv, AllFit, Stays
<1>a. ASSUME NEW as, Cancelled(as), DOMAIN axis' = Axes, \A a \in Axes : Others(a),
             \A a \in Axes : a \in as => axis'[a].asked # "zero"
      PROVE  HomeStepOK
  <2>1. \A a \in Axes : homing'[a] = IF a \in as THEN "no" ELSE homing[a]
    BY <1>a DEF Cancelled
  <2>2. HomeIInv'
    BY <1>a, <2>1, HomeKept
  <2> QED BY <1>a, <2>1, <2>2 DEF HomeStepOK, EndsAtHome
<1>b. ASSUME UNCHANGED homing, DOMAIN axis' = Axes, \A a \in Axes : Others(a)
      PROVE  HomeStepOK
  BY <1>b, HomeKept DEF HomeStepOK, EndsAtHome
<1>c. ASSUME NEW a, NEW r, axis' = [axis EXCEPT ![a] = r], Cancelled({a}),
             a \in Axes => Fit(r) /\ r.asked # "zero"
      PROVE  HomeStepOK
  <2>1. DOMAIN axis' = Axes
    BY <1>0, <1>c
  <2>2. \A b \in Axes : axis'[b] = IF b = a THEN r ELSE axis[b]
    BY <1>0, <1>c
  <2>3. \A b \in Axes : Others(b)
    BY <1>0, <1>c, <2>2
  <2> QED BY <1>a, <1>c, <2>1, <2>2, <2>3
<1>1. CASE HomePass
  BY <1>1, HomePassOK
<1>2. ASSUME NEW as \in Zeros, SerialZero(as) \/ PanelZero(as) PROVE HomeStepOK
  BY <1>2, HomeSent DEF HomeStepOK, EndsAtHome
<1>3. ASSUME NEW t, HomeLine(t) PROVE HomeStepOK
  <2>1. axis' = Interp_Line(axis, t) /\ UNCHANGED homing
    BY <1>3 DEF HomeLine, Line
  <2>2. DOMAIN axis' = Axes /\ \A a \in Axes : Others(a)
    BY <1>0, <2>1, LineFit DEF HomeIInv
  <2> QED BY <1>b, <2>1, <2>2
<1>4. ASSUME NEW a, NEW to, HomeMoveTo(a, to) PROVE HomeStepOK
  <2>1. axis' = [axis EXCEPT ![a] = ApplyPosition(axis[a], to)] /\ Cancelled({a})
    BY <1>4 DEF HomeMoveTo, MoveTo
  <2> QED BY <1>0, <1>c, <2>1, MoveFit
<1>5. ASSUME NEW a, NEW smooth, HomeStop(a, smooth) PROVE HomeStepOK
  <2>1. PICK r \in StopOne(axis[a], smooth) : axis' = [axis EXCEPT ![a] = r]
    BY <1>5 DEF HomeStop, Stop
  <2>2. Cancelled({a})
    BY <1>5 DEF HomeStop
  <2> QED BY <1>0, <1>c, <2>1, <2>2, StopFit
<1>6. ASSUME NEW a, HomeHalt(a) PROVE HomeStepOK
  <2>1. PICK r \in Halted(axis[a]) : axis' = [axis EXCEPT ![a] = r]
    BY <1>6 DEF HomeHalt, Halt
  <2>2. Cancelled({a})
    BY <1>6 DEF HomeHalt
  <2> QED BY <1>0, <1>c, <2>1, <2>2, HaltFit
<1>7. ASSUME NEW smooth, HomeAbort(smooth) PROVE HomeStepOK
  <2>1. DOMAIN axis' = Axes /\ \A a \in Axes : axis'[a] \in StopOne(axis[a], smooth)
    BY <1>7 DEF HomeAbort, Abort, Outcomes
  <2>2. \A a \in Axes : Fit(axis'[a]) /\ axis'[a].asked # "zero"
    BY <1>0, <2>1, StopFit
  <2>3. Cancelled(Axes)
    BY <1>7 DEF HomeAbort
  <2> QED BY <1>a, <2>1, <2>2, <2>3
<1>8. ASSUME NEW a, HomeResetDone(a) PROVE HomeStepOK
  <2> DEFINE r == [axis[a] EXCEPT !.mode = "HOLD", !.velocity = 0, !.motion_busy = FALSE,
                          !.running = FALSE, !.pos = 0, !.goal = 0, !.dir = 1, !.vel = 0]
  <2>1. axis' = [axis EXCEPT ![a] = r] /\ UNCHANGED homing
    BY <1>8 DEF HomeResetDone, ResetDone
  <2>2. a \in Axes => Stays(axis[a], r)
    BY <1>0 DEF Stays, Fit
  <2> HIDE DEF r
  <2>3. DOMAIN axis' = Axes /\ \A b \in Axes : axis'[b] = IF b = a THEN r ELSE axis[b]
    BY <1>0, <2>1
  <2>4. \A b \in Axes : Others(b)
    BY <1>0, <2>2, <2>3 DEF Stays
  <2> QED BY <1>b, <2>1, <2>3, <2>4
<1>9. CASE HomeQueueCommand
  BY <1>0, <1>9, <1>b DEF HomeQueueCommand, QueueCommand
<1>10. CASE UNCHANGED homeVars \/ HomeSpin \/ \E t \in Lines : HomeLineLoops(t)
  <2>1. UNCHANGED <<axis, homing>>
    BY <1>10 DEF HomeSpin, HomeLineLoops, LineLoops, homeVars, vars
  <2> QED BY <1>0, <1>b, <2>1
<1>11. CASE \/ \E as \in Zeros : SerialZero(as) \/ PanelZero(as)
            \/ \E t \in Lines : HomeLine(t)
            \/ \E move \in Moves : HomeMoveTo(move[1], move[2])
            \/ \E a \in Stops, smooth \in Smooth : HomeStop(a, smooth)
            \/ \E a \in Halts : HomeHalt(a)
            \/ \E smooth \in Smooth : HomeAbort(smooth)
            \/ \E a \in Axes : HomeResetDone(a)
  BY <1>2, <1>3, <1>4, <1>5, <1>6, <1>7, <1>8, <1>11, Zenon
<1>12. HomeStepOK
  BY <1>1, <1>9, <1>10, <1>11 DEF HomeNext
<1> QED BY <1>12

\* Homing is completed only with the axis at the origin, whatever homes, stops, faults
\* or is queued beside it (motion_api.c:1144).
THEOREM HomesAtOrigin == HomeSpec => HomedAtOrigin
<1>1. HomeIInv /\ [HomeNext]_homeVars => HomeIInv'
  BY HomeStep DEF HomeStepOK
<1>2. HomeIInv /\ [HomeNext]_homeVars
      => [\A a \in Axes : /\ homing[a] # "no" /\ homing'[a] = "no"
                          /\ axis[a].asked = "zero" /\ axis'[a].asked = "zero"
                          => Abs(0 - axis'[a].actual_pos) <= Thresh]_homeVars
  BY HomeStep DEF HomeStepOK, EndsAtHome
<1> QED BY <1>1, <1>2, HomeInductiveInit, PTL DEF HomeSpec, HomedAtOrigin

\* The axes of a line, from whatever they were.
AllSound(s) == s \in [Axes -> AnyAxis] /\ \A a \in Axes : Sound(s[a])

LEMMA LineSound ==
  ASSUME NEW s, AllSound(s), NEW t \in [Axes -> Int]
  PROVE  LET u == Interp_Line(s, t)
         IN  /\ AllSound(u)
             /\ \A a \in Axes : u[a].actual_pos = s[a].actual_pos
             /\ \/ u = s
                \/ \A a \in Axes : u[a].asked = "line" /\ u[a].mode \in {"POS", "DDA"}
<1> DEFINE u == Interp_Line(s, t)
<1>1. CASE u = s
  BY <1>1
<1>2. CASE u # s
  <2>0. s \in [Axes -> AnyAxis]
    BY DEF AllSound
  <2>1. PICK m \in Axes :
          /\ t[m] # s[m].actual_pos
          /\ u[m] = LineMaster(s[m], t[m])
          /\ \A a \in Axes \ {m} :
               /\ Abs(t[a] - s[a].actual_pos) <= Abs(t[m] - s[m].actual_pos)
               /\ u[a] = LineSlave(s[a], t[a], t[a] - s[a].actual_pos, m, s[m].actual_pos,
                                   Abs(t[m] - s[m].actual_pos))
    BY <1>2, <2>0, LineFields
  <2>2. u = [a \in Axes |-> u[a]]
    <3> DEFINE delta == [a \in Axes |-> t[a] - s[a].actual_pos]
               k == Leader(delta)
               Made(a) == IF a = k THEN LineMaster(s[a], t[a])
                          ELSE LineSlave(s[a], t[a], delta[a], k, s[k].actual_pos, Abs(delta[k]))
    <3>1. ~ \A a \in Axes : delta[a] = 0
      BY <1>2 DEF Interp_Line
    <3>2. u = [a \in Axes |-> Made(a)]
      BY <3>1, Zenon DEF Interp_Line, LineMaster, LineSlave, LineTold, MasterStart
    <3> HIDE DEF u
    <3> QED BY <3>2
  <2> HIDE DEF u
  <2>3. s[m] \in AnyAxis /\ s[m].actual_pos \in Int /\ t[m] \in Int
    BY <2>0 DEF AnyAxis
  <2>4. PICK way \in Nat : way = Abs(t[m] - s[m].actual_pos) /\ way > 0
    BY <2>1, <2>3 DEF Abs
  <2>5. /\ u[m] \in AnyAxis /\ u[m].mode = "POS" /\ u[m].asked = "line"
        /\ u[m].actual_pos = s[m].actual_pos
    BY <2>1, <2>3, MasterFields
  <2>6. ASSUME NEW a \in Axes \ {m}
        PROVE  /\ Sound(u[a]) /\ u[a].mode = "DDA" /\ u[a].asked = "line"
               /\ u[a].actual_pos = s[a].actual_pos
    <3>1. s[a] \in AnyAxis /\ t[a] \in Int
      BY <2>0
    <3>2. Sound(u[a]) /\ u[a].mode = "DDA" /\ u[a].asked = "line"
      BY <2>1, <2>3, <2>4, <3>1, SlaveFields
    <3>3. u[a].actual_pos = s[a].actual_pos
      <4>1. PICK r \in AnyAxis, to \in Int, start \in Int :
              r = s[a] /\ to = t[a] /\ start = s[m].actual_pos
        BY <2>3, <3>1
      <4>2. u[a] = LineSlave(r, to, to - r.actual_pos, m, start, way)
        BY <2>1, <2>4, <4>1
      <4>3. LineSlave(r, to, to - r.actual_pos, m, start, way).actual_pos = r.actual_pos
        BY DEF LineSlave, LineTold, AnyAxis
      <4>4. u[a].actual_pos = r.actual_pos
        BY <4>2, <4>3
      <4> QED BY <4>1, <4>4
    <3> QED BY <3>2, <3>3
  <2>7. ASSUME NEW a \in Axes
        PROVE  /\ Sound(u[a]) /\ u[a].asked = "line" /\ u[a].mode \in {"POS", "DDA"}
               /\ u[a].actual_pos = s[a].actual_pos
    <3>1. CASE a = m
      BY <2>5, <3>1 DEF Sound, SlaveOK
    <3>2. CASE a # m
      BY <2>6, <3>2
    <3> QED BY <3>1, <3>2
  <2>8. u \in [Axes -> AnyAxis]
    BY <2>2, <2>7 DEF Sound
  <2> QED BY <2>7, <2>8 DEF AllSound, u
<1> QED BY <1>1, <1>2

\* An axis that homes positions: its planner, which is where it was sent or where the drive
\* was when it was planned, goes to the commanded target.
ZeroStands(r) ==
  r.asked = "zero" => r.mode = "POS" /\ r.goal = r.cmd_target_pos
                      /\ r.pos \in {r.sent, r.actual_pos}

Homely(r) == Sound(r) /\ r.mode # "ARC" /\ ZeroStands(r)

HomeAxesOK(s) == s \in [Axes -> AnyAxis] /\ \A a \in Axes : Homely(s[a])

LEMMA HomelyInit == HomeInit => HomeAxesOK(axis)
<1>1. Init => axis = [a \in Axes |-> Idle]
  BY DEF Init
<1>2. 0 \in 0..Speed
  BY LineAssumption
<1>3. Idle \in AnyAxis /\ Homely(Idle)
  BY <1>2 DEF Idle, AnyAxis, Homely, Sound, SlaveOK, ZeroStands
<1> QED BY <1>1, <1>3 DEF HomeInit, HomeAxesOK

\* The axes of a line.
LEMMA HomelyLine ==
  ASSUME NEW s, HomeAxesOK(s), NEW t \in [Axes -> Int]
  PROVE  LET u == Interp_Line(s, t)
         IN  HomeAxesOK(u) /\ (u = s \/ \A a \in Axes : u[a].asked = "line")
<1> DEFINE u == Interp_Line(s, t)
<1>1. AllSound(s)
  BY DEF HomeAxesOK, Homely, AllSound
<1>2. /\ AllSound(u)
      /\ u = s \/ \A a \in Axes : u[a].asked = "line" /\ u[a].mode \in {"POS", "DDA"}
  BY <1>1, LineSound
<1> HIDE DEF u
<1>3. CASE u = s
  BY <1>3 DEF u
<1>4. CASE \A a \in Axes : u[a].asked = "line" /\ u[a].mode \in {"POS", "DDA"}
  BY <1>2, <1>4 DEF u, HomeAxesOK, AllSound, Homely, ZeroStands
<1> QED BY <1>2, <1>3, <1>4

\* An axis is sent home, and a homing axis to its second phase.
LEMMA ZeroedHomely ==
  ASSUME NEW r \in AnyAxis, NEW to \in Int
  PROVE  Homely(Zeroed(r, to)) /\ Zeroed(r, to).sent = r.sent
<1> DEFINE plan == Planned(r, to)
           q == Zeroed(r, to)
<1>1. /\ plan \in AnyAxis /\ plan.actual_pos = r.actual_pos /\ plan.sent = r.sent
      /\ plan.pos = r.actual_pos /\ plan.goal = to
  <2>1. 0 \in 0..Speed
    BY LineAssumption
  <2> QED BY <2>1 DEF Planned, AnyAxis
<1> HIDE DEF plan
<1>2. q = [plan EXCEPT !.mode = "POS", !.cmd_target_pos = to, !.asked = "zero"]
  BY DEF Zeroed, plan
<1> HIDE DEF q
<1>3. /\ q \in AnyAxis /\ q.mode = "POS" /\ q.asked = "zero" /\ q.cmd_target_pos = to
      /\ q.goal = to /\ q.sent = r.sent /\ q.actual_pos = r.actual_pos
      /\ q.pos = r.actual_pos
  BY <1>1, <1>2 DEF AnyAxis
<1> QED BY <1>3 DEF Homely, Sound, SlaveOK, ZeroStands, q

LEMMA CreepingHomely ==
  ASSUME NEW r, Homely(r)
  PROVE  /\ Homely(Creeping(r)) /\ Creeping(r).sent = r.actual_pos
         /\ Creeping(r).asked = r.asked
<1> DEFINE plan == Planned(r, 0)
           q == Creeping(r)
<1>0. r \in AnyAxis /\ SlaveOK(r) /\ r.mode # "ARC" /\ ZeroStands(r)
  BY DEF Homely, Sound
<1>1. /\ plan \in AnyAxis /\ plan.actual_pos = r.actual_pos
      /\ plan.pos = r.actual_pos /\ plan.goal = 0 /\ plan.mode = r.mode
      /\ plan.asked = r.asked /\ plan.dda_master = r.dda_master
      /\ plan.dda_delta = r.dda_delta /\ plan.dda_master_delta = r.dda_master_delta
  <2>1. 0 \in 0..Speed /\ 0 \in Int /\ r.actual_pos \in Int
    BY <1>0, LineAssumption DEF AnyAxis
  <2>2. PICK dir \in {-1, 1} : dir = IF 0 < r.actual_pos THEN -1 ELSE 1
    OBVIOUS
  <2>3. PICK on \in BOOLEAN : on = (0 # r.actual_pos)
    OBVIOUS
  <2>4. plan = [r EXCEPT !.running = on, !.pos = r.actual_pos, !.goal = 0, !.dir = dir,
                         !.vel = 0]
    BY <2>2, <2>3 DEF Planned
  <2> HIDE DEF plan
  <2> QED BY <1>0, <2>1, <2>4 DEF AnyAxis
<1> HIDE DEF plan
<1>2. q = [plan EXCEPT !.cmd_target_pos = 0,
                       !.target_pos = r.actual_pos, !.sent = r.actual_pos]
  BY DEF Creeping, plan
<1> HIDE DEF q
<1>3. /\ q \in AnyAxis /\ q.mode = r.mode /\ q.asked = r.asked /\ q.cmd_target_pos = 0
      /\ q.goal = 0 /\ q.sent = r.actual_pos /\ q.pos = r.actual_pos
      /\ q.dda_master = r.dda_master
      /\ q.dda_delta = r.dda_delta /\ q.dda_master_delta = r.dda_master_delta
  <2>1. r.actual_pos \in Int
    BY <1>0 DEF AnyAxis
  <2> QED BY <1>1, <1>2, <2>1 DEF AnyAxis
<1> QED BY <1>0, <1>3 DEF Homely, Sound, SlaveOK, ZeroStands, q

\* A pass over the axes, before the homing check.
LEMMA FollowHomely ==
  ASSUME HomeAxesOK(axis), NEW faults, NEW ran, \A a \in Axes : ran[a] \in After(faults, a)
  PROVE  LET s == Follow(axis, ran)
         IN  /\ HomeAxesOK(s)
             /\ \A a \in Axes :
                  /\ s[a].actual_pos = axis[a].sent
                  /\ s[a].asked = "zero" => Advanced(axis[a], s[a])
<1> DEFINE s == Follow(axis, ran)
<1>0. \A a \in Axes : Sound(axis[a]) /\ axis[a].mode # "ARC" /\ ZeroStands(axis[a])
  BY DEF HomeAxesOK, Homely
<1>1. ASSUME NEW a \in Axes
      PROVE  /\ s[a] \in AnyAxis
             /\ \/ Tripped(axis[a], s[a])
                \/ axis[a].mode # "DDA" /\ Advanced(axis[a], s[a])
                \/ axis[a].mode = "DDA" /\ Caught(axis[a], s[axis[a].dda_master], s[a])
  BY <1>0, PassCases
<1>2. s = [a \in Axes |-> s[a]]
  BY DEF Follow
<1> HIDE DEF s
<1>3. ASSUME NEW a \in Axes
      PROVE  /\ Homely(s[a]) /\ s[a].actual_pos = axis[a].sent
             /\ s[a].asked = "zero" => Advanced(axis[a], s[a])
  <2>1. CASE Tripped(axis[a], s[a])
    BY <1>1, <2>1 DEF Tripped, Homely, Sound, SlaveOK, ZeroStands
  <2>2. CASE axis[a].mode # "DDA" /\ Advanced(axis[a], s[a])
    <3>1. Sound(s[a]) /\ s[a].mode # "ARC" /\ s[a].actual_pos = axis[a].sent
      BY <1>0, <1>1, <2>2 DEF Advanced, Sound, SlaveOK
    <3>2. ZeroStands(s[a])
      BY <1>0, <2>2 DEF Advanced, SameTask, ZeroStands
    <3> QED BY <2>2, <3>1, <3>2 DEF Homely
  <2>3. CASE axis[a].mode = "DDA" /\ Caught(axis[a], s[axis[a].dda_master], s[a])
    <3>1. SameTask(axis[a], s[a]) /\ s[a].mode \in {"DDA", "HOLD"}
          /\ s[a].actual_pos = axis[a].sent
      BY <2>3 DEF Caught
    <3>2. Sound(s[a])
      BY <1>0, <1>1, <2>3, <3>1 DEF Sound, SlaveOK, SameTask
    <3>3. s[a].asked # "zero"
      BY <1>0, <2>3, <3>1 DEF SameTask, ZeroStands
    <3> QED BY <3>1, <3>2, <3>3 DEF Homely, ZeroStands
  <2> QED BY <1>1, <2>1, <2>2, <2>3
<1>4. s \in [Axes -> AnyAxis]
  BY <1>1, <1>2
<1> QED BY <1>3, <1>4 DEF HomeAxesOK, s

\* What a step does to an axis that homes and goes on homing.
HomesOn(a) ==
  axis[a].asked = "zero" /\ axis'[a].asked = "zero" =>
    axis'[a].sent = axis[a].sent
    \/ /\ axis'[a].sent \in Int
       /\ \E p \in {axis[a].sent, axis[a].actual_pos} :
            -Speed <= axis'[a].sent - p /\ axis'[a].sent - p <= Speed

LEMMA HomelyPass ==
  ASSUME HomeAxesOK(axis), HomePass
  PROVE  HomeAxesOK(axis') /\ \A a \in Axes : HomesOn(a)
<1>0. PICK faults : \E ran :
        /\ \A a \in Axes : ran[a] \in After(faults, a)
        /\ ProcessQueue(Switched(Follow(axis, ran)))
  BY DEF HomePass, Outcomes
<1>1. PICK ran :
        /\ \A a \in Axes : ran[a] \in After(faults, a)
        /\ ProcessQueue(Switched(Follow(axis, ran)))
  BY <1>0
<1> DEFINE s == Follow(axis, ran)
           t == Switched(s)
<1>2. /\ HomeAxesOK(s)
      /\ \A a \in Axes : /\ s[a].actual_pos = axis[a].sent
                         /\ s[a].asked = "zero" => Advanced(axis[a], s[a])
  BY <1>1, FollowHomely
<1> HIDE DEF s
<1>3. ASSUME NEW a \in Axes
      PROVE  /\ Homely(t[a]) /\ t[a].asked = s[a].asked
             /\ t[a] = s[a] \/ t[a].sent = axis[a].sent
  <2>1. Homely(s[a]) /\ s[a].actual_pos = axis[a].sent
    BY <1>2 DEF HomeAxesOK
  <2>2. t[a] = IF a \in Switching(s) THEN Creeping(s[a]) ELSE s[a]
    BY DEF Switched
  <2> QED BY <2>1, <2>2, CreepingHomely
<1>4. HomeAxesOK(t)
  <2>1. t = [a \in Axes |-> t[a]]
    BY DEF Switched
  <2> HIDE DEF t
  <2>2. \A a \in Axes : t[a] \in AnyAxis
    BY <1>3 DEF Homely, Sound
  <2> QED BY <1>3, <2>1, <2>2 DEF HomeAxesOK
<1>5. axis' = t \/ \E seg \in Segments : axis' = Interp_Line(t, seg)
  BY <1>1 DEF ProcessQueue, t, s
<1> HIDE DEF t
<1>6. HomeAxesOK(axis') /\ (axis' = t \/ \A a \in Axes : axis'[a].asked = "line")
  BY <1>4, <1>5, HomelyLine, TargetsInt
<1>7. ASSUME NEW a \in Axes, axis[a].asked = "zero", axis'[a].asked = "zero",
             axis'[a].sent # axis[a].sent
      PROVE  /\ axis'[a].sent \in Int
             /\ \E p \in {axis[a].sent, axis[a].actual_pos} :
                  -Speed <= axis'[a].sent - p /\ axis'[a].sent - p <= Speed
  <2>1. axis'[a] = s[a] /\ s[a].asked = "zero"
    BY <1>3, <1>6, <1>7
  <2>2. Advanced(axis[a], s[a]) /\ s[a] \in AnyAxis
    BY <1>2, <2>1 DEF HomeAxesOK
  <2>3. axis[a].mode = "POS" /\ axis[a].goal = axis[a].cmd_target_pos
        /\ axis[a].pos \in {axis[a].sent, axis[a].actual_pos}
    BY <1>7 DEF HomeAxesOK, Homely, ZeroStands
  <2>4. s[a].sent = s[a].pos /\ -Speed <= s[a].pos - axis[a].pos /\ s[a].pos - axis[a].pos <= Speed
    BY <2>2, <2>3 DEF Advanced
  <2>5. s[a].pos \in Int
    BY <2>2 DEF AnyAxis
  <2> QED BY <2>1, <2>3, <2>4, <2>5
<1> QED BY <1>6, <1>7 DEF HomesOn

\* Every other step leaves the commanded position.
LEMMA HomelyStep ==
  ASSUME HomeAxesOK(axis), [HomeNext]_homeVars
  PROVE  HomeAxesOK(axis') /\ \A a \in Axes : HomesOn(a)
<1>0. axis \in [Axes -> AnyAxis]
      /\ \A a \in Axes : Homely(axis[a]) /\ axis[a] \in AnyAxis /\ Sound(axis[a])
  BY DEF HomeAxesOK, Homely
\* A command that makes the axis b into r.
<1>a. ASSUME NEW b \in Axes, NEW r, Homely(r), r.asked # "zero",
             axis' = [axis EXCEPT ![b] = r]
      PROVE  HomeAxesOK(axis') /\ \A a \in Axes : HomesOn(a)
  <2>1. \A a \in Axes : axis'[a] = IF a = b THEN r ELSE axis[a]
    BY <1>0, <1>a
  <2>2. axis' \in [Axes -> AnyAxis]
    BY <1>0, <1>a DEF Homely, Sound
  <2> QED BY <1>0, <1>a, <2>1, <2>2 DEF HomeAxesOK, HomesOn
<1>1. CASE HomePass
  BY <1>1, HomelyPass
<1>2. ASSUME NEW as, SerialZero(as) \/ PanelZero(as)
      PROVE  HomeAxesOK(axis') /\ \A a \in Axes : HomesOn(a)
  <2>1. ASSUME NEW a \in Axes
        PROVE  axis'[a] = axis[a] \/ \E to \in Int : axis'[a] = Zeroed(axis[a], to)
    <3>1. Creep \in Nat /\ Creep \div 2 \in Int
      BY HomingAssumption
    <3>2. CreepDist(as, a) \in Int
      BY <3>1 DEF CreepDist
    <3>3. Approach(as, a) \in Int
      <4> DEFINE to == Approach(as, a)
                 c == CreepDist(as, a)
      <4>1. to = 0 \/ to = c \/ to = -c
        BY DEF Approach
      <4> HIDE DEF c, to
      <4>2. c \in Int
        BY <3>2 DEF c
      <4>3. to \in Int
        BY <4>1, <4>2
      <4> QED BY <4>3 DEF to
    <3>4. CASE SerialZero(as)
      <4>1. axis'[a] = IF a \in as THEN Zeroed(axis[a], 0) ELSE axis[a]
        BY <3>4 DEF SerialZero, SendHome
      <4>2. 0 \in Int
        OBVIOUS
      <4> QED BY <4>1, <4>2, Zenon
    <3>5. CASE PanelZero(as)
      <4>1. axis'[a] = IF a \in as THEN Zeroed(axis[a], Approach(as, a)) ELSE axis[a]
        BY <3>5 DEF PanelZero, SendHome
      <4> QED BY <3>3, <4>1
    <3> QED BY <1>2, <3>4, <3>5
  <2>2. ASSUME NEW a \in Axes
        PROVE  Homely(axis'[a]) /\ axis'[a].sent = axis[a].sent
    BY <1>0, <2>1, ZeroedHomely
  <2>3. axis' = [a \in Axes |-> axis'[a]]
    BY <1>2 DEF SerialZero, PanelZero, SendHome
  <2>4. axis' \in [Axes -> AnyAxis]
    BY <2>2, <2>3 DEF Homely, Sound
  <2> QED BY <2>2, <2>4 DEF HomeAxesOK, HomesOn
<1>3. ASSUME NEW t \in Lines, HomeLine(t)
      PROVE  HomeAxesOK(axis') /\ \A a \in Axes : HomesOn(a)
  <2>1. axis' = Interp_Line(axis, t)
    BY <1>3 DEF HomeLine, Line
  <2>2. HomeAxesOK(axis') /\ (axis' = axis \/ \A a \in Axes : axis'[a].asked = "line")
    BY <2>1, HomelyLine, TargetsInt
  <2> QED BY <2>2 DEF HomesOn
<1>4. ASSUME NEW move \in Moves, HomeMoveTo(move[1], move[2])
      PROVE  HomeAxesOK(axis') /\ \A a \in Axes : HomesOn(a)
  <2>1. PICK b \in Axes, to \in Int : b = move[1] /\ to = move[2]
    BY TargetsInt
  <2>2. axis' = [axis EXCEPT ![b] = ApplyPosition(axis[b], to)]
    BY <1>4, <2>1 DEF HomeMoveTo, MoveTo
  <2>3. Homely(ApplyPosition(axis[b], to)) /\ ApplyPosition(axis[b], to).asked # "zero"
    BY <1>0, MoveSound DEF Homely, ZeroStands
  <2> QED BY <1>a, <2>2, <2>3
<1>5. ASSUME NEW b \in Stops, NEW smooth \in Smooth, HomeStop(b, smooth)
      PROVE  HomeAxesOK(axis') /\ \A a \in Axes : HomesOn(a)
  <2>1. b \in Axes
    BY LineAssumption
  <2>2. PICK r \in StopOne(axis[b], smooth) : axis' = [axis EXCEPT ![b] = r]
    BY <1>5 DEF HomeStop, Stop
  <2>3. Homely(r) /\ r.asked # "zero"
    BY <1>0, <2>1, <2>2, StopFields DEF Homely, ZeroStands
  <2> QED BY <1>a, <2>1, <2>2, <2>3
<1>6. ASSUME NEW b \in Halts, HomeHalt(b)
      PROVE  HomeAxesOK(axis') /\ \A a \in Axes : HomesOn(a)
  <2>1. b \in Axes
    BY LineAssumption
  <2>2. PICK r \in Halted(axis[b]) : axis' = [axis EXCEPT ![b] = r]
    BY <1>6 DEF HomeHalt, Halt
  <2>3. Homely(r) /\ r.asked # "zero"
    BY <1>0, <2>1, <2>2, HaltFields DEF Homely, ZeroStands
  <2> QED BY <1>a, <2>1, <2>2, <2>3
<1>7. ASSUME NEW smooth \in Smooth, HomeAbort(smooth)
      PROVE  HomeAxesOK(axis') /\ \A a \in Axes : HomesOn(a)
  <2>1. /\ axis' = [a \in Axes |-> axis'[a]]
        /\ \A a \in Axes : axis'[a] \in StopOne(axis[a], smooth)
    BY <1>7 DEF HomeAbort, Abort, Outcomes
  <2>2. \A a \in Axes : Homely(axis'[a]) /\ axis'[a].asked # "zero"
    BY <1>0, <2>1, StopFields DEF Homely, ZeroStands
  <2>3. axis' \in [Axes -> AnyAxis]
    BY <2>1, <2>2 DEF Homely, Sound
  <2> QED BY <2>2, <2>3 DEF HomeAxesOK, HomesOn
<1>8. ASSUME NEW b \in Axes, HomeResetDone(b)
      PROVE  HomeAxesOK(axis') /\ \A a \in Axes : HomesOn(a)
  <2>1. PICK r : /\ axis' = [axis EXCEPT ![b] = r]
                 /\ Sound(r) /\ r.mode = "HOLD" /\ r.asked = axis[b].asked
    BY <1>0, <1>8, ResetSound DEF HomeResetDone, ResetDone
  <2>2. r.asked = "fault"
    BY <1>8, <2>1 DEF HomeResetDone, ResetDone
  <2>3. Homely(r)
    BY <2>1, <2>2 DEF Homely, ZeroStands
  <2> QED BY <1>a, <2>1, <2>2, <2>3
<1>9. CASE HomeQueueCommand
  BY <1>9 DEF HomeQueueCommand, QueueCommand, HomesOn
<1>10. CASE UNCHANGED homeVars \/ HomeSpin \/ \E t \in Lines : HomeLineLoops(t)
  <2>1. UNCHANGED axis
    BY <1>10 DEF HomeSpin, HomeLineLoops, LineLoops, homeVars, vars
  <2> QED BY <2>1 DEF HomesOn
<1>11. CASE \/ \E as \in Zeros : SerialZero(as) \/ PanelZero(as)
            \/ \E t \in Lines : HomeLine(t)
            \/ \E move \in Moves : HomeMoveTo(move[1], move[2])
            \/ \E a \in Stops, smooth \in Smooth : HomeStop(a, smooth)
            \/ \E a \in Halts : HomeHalt(a)
            \/ \E smooth \in Smooth : HomeAbort(smooth)
            \/ \E a \in Axes : HomeResetDone(a)
  BY <1>2, <1>3, <1>4, <1>5, <1>6, <1>7, <1>8, <1>11, Zenon
<1>12. HomeAxesOK(axis') /\ \A a \in Axes : HomesOn(a)
  BY <1>1, <1>9, <1>10, <1>11 DEF HomeNext
<1> QED BY <1>12

\* An axis that homes does not move by more than the drive accepts, whether it is sent home
\* from a motion, changes from one phase to the next or arrives (motion_api.c:1172).
THEOREM HomingNeverJumps == HomeSpec => HomingDoesNotJump
<1>1. ASSUME HomeAxesOK(axis), [HomeNext]_homeVars, NEW a \in Axes,
             axis[a].asked = "zero", axis'[a].asked = "zero", Close(a)
      PROVE  ~Jumps(a)
  <2>1. HomeAxesOK(axis') /\ HomesOn(a)
    BY <1>1, HomelyStep
  <2>2. Speed \in Nat /\ axis[a].sent \in Int /\ axis[a].actual_pos \in Int
    BY <1>1, LineAssumption DEF HomeAxesOK, AnyAxis
  <2>3. /\ -Speed <= axis[a].actual_pos - axis[a].sent
        /\ axis[a].actual_pos - axis[a].sent <= Speed
    BY <1>1, <2>2 DEF Close, Abs
  <2>4. /\ axis'[a].sent \in Int
        /\ -(2 * Speed) <= axis'[a].sent - axis[a].sent
        /\ axis'[a].sent - axis[a].sent <= 2 * Speed
    BY <1>1, <2>1, <2>2, <2>3 DEF HomesOn
  <2> QED BY <2>2, <2>4 DEF Jumps, Abs
<1>2. HomeAxesOK(axis) /\ [HomeNext]_homeVars => HomeAxesOK(axis)'
  BY HomelyStep DEF HomeAxesOK, Homely, Sound, SlaveOK, ZeroStands
<1>3. HomeAxesOK(axis) /\ [HomeNext]_homeVars
      => [\A a \in Axes : /\ axis[a].asked = "zero" /\ axis'[a].asked = "zero" /\ Close(a)
                          => ~Jumps(a)]_homeVars
  BY <1>1
<1> QED BY <1>2, <1>3, HomelyInit, PTL DEF HomeSpec, HomingDoesNotJump

-----------------------------------------------------------------------------
\* What moves the axes of an arc.  Along the circle a coordinate goes no further than
\* the planner.
LEMMA AlongArc ==
  ASSUME NEW arc \in Arcs, NEW a \in XY,
         NEW i \in 0..(arc.length + Speed), NEW j \in 0..(arc.length + Speed), i <= j
  PROVE  /\ arc.at[a][i] \in Int /\ arc.at[a][j] \in Int
         /\ -(j - i) <= arc.at[a][j] - arc.at[a][i] /\ arc.at[a][j] - arc.at[a][i] <= j - i
<1> DEFINE f == arc.at[a]
           N == arc.length + Speed
           Far == {n \in Nat : /\ i + n <= N
                               /\ ~(-n <= f[i + n] - f[i] /\ f[i + n] - f[i] <= n)}
<1>1. N \in Nat /\ Speed \in Nat /\ arc.length \in Nat
  BY LineAssumption, ArcAssumption
<1>2. f \in [0..N -> -Reach..Reach]
  BY ArcAssumption
<1>3. \A s \in 1..N : Abs(f[s] - f[s - 1]) <= 1
  BY ArcAssumption
<1>4. Reach \in Nat
  BY LineAssumption
<1> HIDE DEF f, N
<1>5. \A s \in 0..N : f[s] \in Int
  BY <1>1, <1>2, <1>4
<1>6. i \in 0..N /\ j \in 0..N
  BY DEF N
<1>7. Far = {}
  <2> SUFFICES ASSUME Far # {} PROVE FALSE
    OBVIOUS
  <2>1. PICK n \in Far : \A k \in Far : n <= k
    BY LeastNatural
  <2>2. /\ n \in Nat /\ i + n <= N /\ i \in Nat
        /\ ~(-n <= f[i + n] - f[i] /\ f[i + n] - f[i] <= n)
    BY <1>1, <1>6, <2>1
  <2>3. n # 0
    <3> SUFFICES ASSUME n = 0 PROVE FALSE
      OBVIOUS
    <3>1. i + n = i /\ f[i] \in Int
      BY <1>5, <1>6, <2>2
    <3> QED BY <2>2, <3>1
  <2>4. n - 1 \in Nat /\ n - 1 \notin Far /\ i + (n - 1) <= N
    BY <1>1, <2>1, <2>2, <2>3
  <2>5. PICK c \in Nat : c = i + n
    BY <2>2
  <2>6. i + (n - 1) = c - 1 /\ c \in 1..N /\ c \in 0..N /\ c - 1 \in 0..N
    BY <1>1, <2>2, <2>3, <2>5
  <2>7. -(n - 1) <= f[c - 1] - f[i] /\ f[c - 1] - f[i] <= n - 1
    BY <2>4, <2>6
  <2>8. f[c] \in Int /\ f[c - 1] \in Int /\ f[i] \in Int
    BY <1>5, <1>6, <2>6
  <2>9. -1 <= f[c] - f[c - 1] /\ f[c] - f[c - 1] <= 1
    BY <1>3, <2>6, <2>8 DEF Abs
  <2>10. -n <= f[c] - f[i] /\ f[c] - f[i] <= n
    BY <2>2, <2>7, <2>8, <2>9
  <2> QED BY <2>2, <2>5, <2>10
<1>8. PICK d \in Nat : d = j - i /\ i + d = j /\ i + d <= N
  BY <1>1, <1>6
<1>9. -d <= f[j] - f[i] /\ f[j] - f[i] <= d
  BY <1>7, <1>8
<1> QED BY <1>5, <1>6, <1>8, <1>9 DEF f

\* The same, in either sense, by a step of the planner.
LEMMA ArcStretch ==
  ASSUME NEW arc \in Arcs, NEW a \in XY,
         NEW i \in 0..(arc.length + Speed), NEW j \in 0..(arc.length + Speed),
         -Speed <= j - i, j - i <= Speed
  PROVE  /\ arc.at[a][i] \in Int /\ arc.at[a][j] \in Int
         /\ -Speed <= arc.at[a][j] - arc.at[a][i] /\ arc.at[a][j] - arc.at[a][i] <= Speed
<1>1. Speed \in Nat /\ arc.length \in Nat
  BY LineAssumption, ArcAssumption
<1>2. PICK x, y : x = arc.at[a][i] /\ y = arc.at[a][j]
  OBVIOUS
<1>3. CASE i <= j
  <2>1. x \in Int /\ y \in Int /\ -(j - i) <= y - x /\ y - x <= j - i
    BY <1>2, <1>3, AlongArc
  <2> QED BY <1>1, <1>2, <2>1
<1>4. CASE j <= i
  <2>1. x \in Int /\ y \in Int /\ -(i - j) <= x - y /\ x - y <= i - j
    BY <1>2, <1>4, AlongArc
  <2> QED BY <1>1, <1>2, <2>1
<1> QED BY <1>1, <1>3, <1>4

\* The planner of an arc.
Planner == [running : BOOLEAN, pos : Nat, goal : Nat, dir : {1}, vel : 0..Speed]

PlannerOK ==
  g_arc.active =>
    /\ g_arc.shape \in Arcs /\ g_arc.planner \in Planner
    /\ g_arc.planner.goal = g_arc.shape.length
    /\ g_arc.planner.pos <= g_arc.shape.length + Speed

LEMMA PlannerStep ==
  ASSUME PlannerOK, g_arc.active, g_arc.planner.running, NEW p \in Stepped(g_arc.planner)
  PROVE  /\ p \in Planner /\ p.goal = g_arc.shape.length
         /\ p.pos <= g_arc.shape.length + Speed
         /\ -Speed <= p.pos - g_arc.planner.pos /\ p.pos - g_arc.planner.pos <= Speed
         /\ ~p.running => /\ -Speed <= g_arc.shape.length - g_arc.planner.pos
                          /\ g_arc.shape.length - g_arc.planner.pos <= Speed
<1> DEFINE q == g_arc.planner
           n == g_arc.shape.length
<1>1. /\ q \in Planner /\ q.goal = n /\ q.pos <= n + Speed /\ q.running
      /\ n \in Nat /\ Speed \in Nat
  BY LineAssumption, ArcAssumption DEF PlannerOK
<1>2. p \in Stepped(q)
  OBVIOUS
<1> HIDE DEF q, n
<1>3. CASE \E v \in 0..Speed : /\ p = [q EXCEPT !.pos = @ + q.dir * v, !.vel = v]
                               /\ (q.goal - p.pos) * q.dir >= -Speed
  <2>1. PICK v \in 0..Speed : /\ p = [q EXCEPT !.pos = @ + q.dir * v, !.vel = v]
                              /\ (q.goal - p.pos) * q.dir >= -Speed
    BY <1>3
  <2>2. q.dir = 1 /\ q.pos \in Nat
    BY <1>1 DEF Planner
  <2>3. PICK x \in Nat : x = q.pos + q.dir * v /\ x = q.pos + v
    BY <1>1, <2>1, <2>2
  <2>4. p = [q EXCEPT !.pos = x, !.vel = v]
    BY <2>1, <2>3
  <2>5. p \in Planner /\ p.pos = x /\ p.goal = n /\ p.running
    BY <1>1, <2>1, <2>3, <2>4 DEF Planner
  <2>6. n - x >= -Speed
    BY <1>1, <2>1, <2>2, <2>5
  <2> QED BY <1>1, <2>2, <2>1, <2>3, <2>5, <2>6 DEF q, n
<1>4. CASE \E to \in {q.pos, q.goal} :
             /\ p = [q EXCEPT !.running = FALSE, !.pos = to, !.vel = 0]
             /\ Abs(q.goal - q.pos) <= Speed
  <2>1. PICK to \in {q.pos, q.goal} :
             /\ p = [q EXCEPT !.running = FALSE, !.pos = to, !.vel = 0]
             /\ Abs(q.goal - q.pos) <= Speed
    BY <1>4
  <2>2. q.pos \in Nat /\ q.goal \in Nat /\ to \in Nat
    BY <1>1, <2>1 DEF Planner
  <2>3. -Speed <= n - q.pos /\ n - q.pos <= Speed
    BY <1>1, <2>1, <2>2 DEF Abs
  <2>4. 0 \in 0..Speed
    BY <1>1
  <2>5. p \in Planner /\ p.pos = to /\ p.goal = n
    BY <1>1, <2>1, <2>2, <2>4 DEF Planner
  <2> QED BY <1>1, <2>1, <2>2, <2>3, <2>5 DEF q, n
<1>5. \/ \E v \in 0..Speed : /\ p = [q EXCEPT !.pos = @ + q.dir * v, !.vel = v]
                             /\ (q.goal - p.pos) * q.dir >= -Speed
      \/ \E to \in {q.pos, q.goal} :
             /\ p = [q EXCEPT !.running = FALSE, !.pos = to, !.vel = 0]
             /\ Abs(q.goal - q.pos) <= Speed
  BY <1>1, <1>2 DEF Stepped
<1> QED BY <1>3, <1>4, <1>5
\* Axis_ControlCycle of an axis that is no slave and has the direction d.
LEMMA ControlledOnKept ==
  ASSUME NEW r \in AnyAxis, r.mode # "DDA", NEW d \in {-1, 0, 1}, NEW q \in ControlledOn(r, d)
  PROVE  /\ q \in AnyAxis /\ q.mode = r.mode /\ q.asked = r.asked
         /\ q.actual_pos = r.actual_pos
         /\ r.mode \in {"ARC", "HOLD"} => q.target_pos = r.target_pos
<1>0. r.mode \in {"HOLD", "VEL", "POS", "ARC"} /\ Speed \in Nat
  BY LineAssumption DEF AnyAxis
<1>1. CASE r.mode = "ARC"
  BY <1>1 DEF ControlledOn
<1>2. CASE r.mode = "VEL" /\ d # 0
  <2>1. PICK v \in 0..Speed : q = [r EXCEPT !.velocity = v, !.target_pos = @ + v * d]
    BY <1>2 DEF ControlledOn
  <2>2. r.target_pos \in Int
    BY DEF AnyAxis
  <2>3. PICK x \in Int : x = r.target_pos + v * d
    BY <1>0, <2>1, <2>2
  <2>4. q = [r EXCEPT !.velocity = v, !.target_pos = x]
    BY <2>1, <2>3
  <2> QED BY <1>2, <2>1, <2>4 DEF AnyAxis
<1>3. CASE r.mode = "POS" /\ d # 0
  <2>1. PICK x \in Controlled(r) : q = JogOn(x, d) \/ q = AtEdge(x)
    BY <1>3 DEF ControlledOn
  <2>2. /\ x \in AnyAxis /\ x.mode = r.mode /\ x.asked = r.asked
        /\ x.actual_pos = r.actual_pos
    BY <1>3, ControlledTask DEF OwnMode, SameTask
  <2>3. CASE q = JogOn(x, d)
    <3>1. PICK g \in Int : g = FarGoal(d)
      BY ArcAssumption, LineAssumption DEF FarGoal
    <3>2. PICK on \in BOOLEAN : on = (g # x.actual_pos)
      OBVIOUS
    <3>3. PICK dir \in {-1, 1} : dir = IF g < x.actual_pos THEN -1 ELSE 1
      OBVIOUS
    <3>4. q = [x EXCEPT !.running = on, !.pos = x.actual_pos, !.goal = g, !.dir = dir,
                        !.vel = 0, !.mode = "POS", !.motion_busy = TRUE]
      BY <2>3, <3>1, <3>2, <3>3 DEF JogOn, Planned
    <3>5. x.actual_pos \in Int /\ 0 \in 0..Speed
      BY <1>0, <2>2 DEF AnyAxis
    <3> QED BY <1>3, <2>2, <3>1, <3>4, <3>5 DEF AnyAxis
  <2>4. CASE q = AtEdge(x)
    <3>1. Edge \in Nat /\ x.dir \in {-1, 1}
      BY <2>2, ArcAssumption DEF AnyAxis
    <3>2. PICK e \in Int : e = Edge * x.dir
      BY <3>1
    <3>3. q = x \/ q = [x EXCEPT !.pos = e, !.target_pos = e]
      BY <2>4, <3>2 DEF AtEdge
    <3> QED BY <1>3, <2>2, <3>2, <3>3 DEF AnyAxis
  <2> QED BY <2>1, <2>3, <2>4
<1>4. CASE r.mode # "ARC" /\ ~(r.mode = "VEL" /\ d # 0) /\ ~(r.mode = "POS" /\ d # 0)
  <2>1. q \in Controlled(r)
    BY <1>4 DEF ControlledOn
  <2> QED BY <1>0, <1>4, <2>1, ControlledTask DEF OwnMode, SameTask
<1> QED BY <1>1, <1>2, <1>3, <1>4

\* Axis_StopOne.
LEMMA StoppedSound ==
  ASSUME NEW r \in AnyAxis, NEW d, NEW smooth, NEW q \in Stopped(r, d, smooth)
  PROVE  Sound(q) /\ q.asked # "arc"
<1>1. PICK x \in StopOne(r, smooth) :
        q = IF d = -1 /\ ~Moving(r) /\ Moving(x)
            THEN [x EXCEPT !.dir = -1, !.goal = 2 * x.pos - x.goal] ELSE x
  BY DEF Stopped
<1>2. Sound(x) /\ x \in AnyAxis /\ x.asked # "arc" /\ x.mode # "DDA"
  BY StopFields DEF Sound
<1>3. PICK g \in Int : g = 2 * x.pos - x.goal
  BY <1>2 DEF AnyAxis
<1>4. q = x \/ q = [x EXCEPT !.dir = -1, !.goal = g]
  BY <1>1, <1>3
<1> QED BY <1>2, <1>3, <1>4 DEF Sound, SlaveOK, AnyAxis

\* Arc_ProcessStep.
LEMMA ArcStepSound ==
  ASSUME AllSound(axis), PlannerOK, g_arc.active, g_arc.planner.running,
         NEW p \in Stepped(g_arc.planner)
  PROVE  LET s == ArcStepped(p)
         IN  /\ AllSound(s)
             /\ \A a \in Axes : s[a].asked = axis[a].asked /\ s[a].sent = axis[a].sent
             /\ \A a \in XY :
                  /\ s[a].mode = IF ArcDone(p) THEN "HOLD" ELSE axis[a].mode
                  /\ s[a].target_pos = IF ArcDone(p) THEN g_arc.shape.to[a]
                                       ELSE g_arc.shape.at[a][p.pos]
<1> DEFINE s == ArcStepped(p)
<1>1. /\ XY \subseteq Axes /\ g_arc.shape \in Arcs /\ Speed \in Nat /\ Reach \in Nat
      /\ g_arc.shape.length \in Nat
  BY ArcAssumption, LineAssumption DEF PlannerOK
<1>2. /\ p.pos \in 0..(g_arc.shape.length + Speed)
      /\ g_arc.planner.pos \in 0..(g_arc.shape.length + Speed)
      /\ -Speed <= p.pos - g_arc.planner.pos /\ p.pos - g_arc.planner.pos <= Speed
  BY <1>1, PlannerStep DEF PlannerOK, Planner
<1>3. ASSUME NEW a \in XY
      PROVE  /\ Coordinate(p, a) = g_arc.shape.at[a][p.pos] /\ Coordinate(p, a) \in Int
             /\ Abs(Tangent(p, a)) \in 0..Speed /\ g_arc.shape.to[a] \in Int
  <2>1. PICK x \in Int, y \in Int :
          /\ x = g_arc.shape.at[a][g_arc.planner.pos] /\ y = g_arc.shape.at[a][p.pos]
          /\ -Speed <= y - x /\ y - x <= Speed
    BY <1>1, <1>2, ArcStretch
  <2>2. Coordinate(p, a) = y /\ Tangent(p, a) = y - x
    BY <2>1 DEF Coordinate, Tangent
  <2>3. g_arc.shape.to[a] \in Int
    BY <1>1, ArcAssumption
  <2> QED BY <1>1, <2>1, <2>2, <2>3 DEF Abs
<1>4. s = [a \in Axes |-> s[a]]
  BY DEF ArcStepped
<1>5. ASSUME NEW a \in Axes
      PROVE  /\ Sound(s[a]) /\ s[a].asked = axis[a].asked /\ s[a].sent = axis[a].sent
             /\ a \in XY =>
                  /\ s[a].mode = IF ArcDone(p) THEN "HOLD" ELSE axis[a].mode
                  /\ s[a].target_pos = IF ArcDone(p) THEN g_arc.shape.to[a]
                                       ELSE g_arc.shape.at[a][p.pos]
  <2>1. axis[a] \in AnyAxis /\ Sound(axis[a]) /\ axis[a].actual_pos \in Int
    BY DEF AllSound, AnyAxis
  <2>2. CASE a \notin XY
    <3>1. s[a] = [axis[a] EXCEPT !.target_pos = axis[a].actual_pos]
      BY <2>2 DEF ArcStepped
    <3> HIDE DEF s
    <3> QED BY <2>1, <2>2, <3>1 DEF Sound, SlaveOK, AnyAxis
  <2>3. CASE a \in XY /\ ArcDone(p)
    <3>1. PICK x \in Int : x = g_arc.shape.to[a]
      BY <1>3, <2>3
    <3>2. s[a] = [axis[a] EXCEPT !.target_pos = x, !.velocity = 0, !.motion_busy = FALSE,
                                 !.mode = "HOLD"]
      BY <2>3, <3>1 DEF ArcStepped, EndsOn
    <3> HIDE DEF s
    <3>3. /\ Sound(s[a]) /\ s[a].asked = axis[a].asked /\ s[a].sent = axis[a].sent
          /\ s[a].mode = "HOLD" /\ s[a].target_pos = x
      <4>1. PICK r, q : r = axis[a] /\ q = s[a]
        OBVIOUS
      <4>2. Sound(r) /\ x \in Int
        BY <2>1, <3>1, <4>1
      <4>3. q = [r EXCEPT !.target_pos = x, !.velocity = 0, !.motion_busy = FALSE,
                          !.mode = "HOLD"]
        BY <3>2, <4>1
      <4>4. 0 \in 0..Speed
        BY <1>1
      <4>5. /\ Sound(q) /\ q.asked = r.asked /\ q.sent = r.sent
            /\ q.mode = "HOLD" /\ q.target_pos = x
        BY <4>2, <4>3, <4>4 DEF Sound, SlaveOK, AnyAxis
      <4> QED BY <4>1, <4>5
    <3> QED BY <2>3, <3>1, <3>3
  <2>4. CASE a \in XY /\ ~ArcDone(p)
    <3>1. PICK x \in Int : x = Coordinate(p, a) /\ x = g_arc.shape.at[a][p.pos]
      BY <1>3, <2>4
    <3>2. PICK v \in 0..Speed : v = Abs(Tangent(p, a))
      BY <1>3, <2>4
    <3>3. s[a] = [axis[a] EXCEPT !.target_pos = x, !.velocity = v]
      BY <2>4, <3>1, <3>2 DEF ArcStepped, EndsOn
    <3> HIDE DEF s
    <3>4. /\ Sound(s[a]) /\ s[a].asked = axis[a].asked /\ s[a].sent = axis[a].sent
          /\ s[a].mode = axis[a].mode /\ s[a].target_pos = x
      <4>1. PICK r, q : r = axis[a] /\ q = s[a]
        OBVIOUS
      <4>2. Sound(r) /\ x \in Int /\ v \in 0..Speed
        BY <2>1, <3>1, <3>2, <4>1
      <4>3. q = [r EXCEPT !.target_pos = x, !.velocity = v]
        BY <3>3, <4>1
      <4>4. /\ Sound(q) /\ q.asked = r.asked /\ q.sent = r.sent
            /\ q.mode = r.mode /\ q.target_pos = x
        BY <4>2, <4>3 DEF Sound, SlaveOK, AnyAxis
      <4> QED BY <4>1, <4>4
    <3> QED BY <2>4, <3>1, <3>4
  <2> QED BY <2>2, <2>3, <2>4
<1> HIDE DEF s
<1>6. s \in [Axes -> AnyAxis]
  BY <1>4, <1>5 DEF Sound
<1> QED BY <1>1, <1>5, <1>6 DEF AllSound, s

\* The senses in which the axes move.
Turns(d) == d \in [Axes -> {-1, 0, 1}]

LEMMA ArcTurns ==
  ASSUME Turns(direction), NEW p
  PROVE  Turns(ArcDirection(p))
BY DEF ArcDirection, Turns

\* A pass over the axes, when the arc has left them at s.
LEMMA FollowSound ==
  ASSUME NEW s, AllSound(s), NEW faults, NEW d, Turns(d), NEW ran,
         \A a \in Axes : ran[a] \in ArcAfter(s, faults, d, a)
  PROVE  LET u == Follow(s, ran)
         IN  /\ AllSound(u)
             /\ \A a \in Axes :
                  /\ u[a].actual_pos = s[a].sent
                  /\ u[a].asked = "arc" => s[a].asked = "arc"
                  /\ u[a].asked = "arc" /\ s[a].mode \in {"ARC", "HOLD"} =>
                       /\ u[a].mode = s[a].mode
                       /\ u[a].target_pos = s[a].target_pos /\ u[a].sent = s[a].target_pos
<1> DEFINE u == Follow(s, ran)
<1>1. ASSUME NEW a \in Axes
      PROVE  /\ Sound(ran[a]) /\ ran[a].actual_pos = s[a].sent
             /\ ran[a].asked \in {s[a].asked, "fault"}
             /\ ran[a].asked = "arc" => ran[a].mode = s[a].mode
             /\ s[a].mode = "DDA" => ran[a].mode \in {"DDA", "HOLD"}
             /\ ran[a].asked = "arc" /\ s[a].mode \in {"ARC", "HOLD"} =>
                  ran[a].target_pos = s[a].target_pos
  <2> DEFINE f == a \in faults
             e == Read(s[a], f)
             t == IF f THEN 0 ELSE d[a]
  <2>1. s[a] \in AnyAxis /\ Sound(s[a]) /\ f \in BOOLEAN
    BY DEF AllSound
  <2>2. IF s[a].mode = "DDA" THEN ran[a] = e ELSE ran[a] \in ControlledOn(e, t)
    BY <1>1 DEF ArcAfter
  <2>3. t \in {-1, 0, 1}
    BY DEF Turns
  <2> HIDE DEF f, t
  <2>4. /\ Sound(e) /\ e \in AnyAxis /\ e.actual_pos = s[a].sent
        /\ f => e.mode = "HOLD" /\ e.asked = "fault"
        /\ ~f => e.mode = s[a].mode /\ e.asked = s[a].asked /\ e.target_pos = s[a].target_pos
    BY <2>1, ReadFields, ReadTask DEF Sound
  <2> HIDE DEF e
  <2>5. CASE s[a].mode = "DDA"
    BY <2>2, <2>4, <2>5
  <2>6. CASE s[a].mode # "DDA"
    <3>1. e.mode # "DDA"
      BY <2>4, <2>6
    <3>2. /\ ran[a] \in AnyAxis /\ ran[a].mode = e.mode /\ ran[a].asked = e.asked
          /\ ran[a].actual_pos = e.actual_pos
          /\ e.mode \in {"ARC", "HOLD"} => ran[a].target_pos = e.target_pos
      BY <2>2, <2>3, <2>4, <2>6, <3>1, ControlledOnKept
    <3>3. Sound(ran[a])
      BY <3>1, <3>2 DEF Sound, SlaveOK
    <3> QED BY <2>4, <2>6, <3>2, <3>3
  <2> QED BY <2>5, <2>6
<1>2. u = [a \in Axes |-> u[a]]
  BY DEF Follow
<1>3. ASSUME NEW a \in Axes
      PROVE  /\ Sound(u[a]) /\ u[a].actual_pos = s[a].sent
             /\ u[a].asked = "arc" => s[a].asked = "arc"
             /\ u[a].asked = "arc" /\ s[a].mode \in {"ARC", "HOLD"} =>
                  /\ u[a].mode = s[a].mode
                  /\ u[a].target_pos = s[a].target_pos /\ u[a].sent = s[a].target_pos
  <2> DEFINE x == IF s[a].mode # "DDA" \/ ran[a].mode = "HOLD" THEN ran[a]
                  ELSE Followed(ran[a], ran[ran[a].dda_master])
  <2>1. u[a] = Sent(x)
    BY DEF Follow, MasterSeen
  <2>2. /\ Sound(x) /\ x.actual_pos = s[a].sent /\ x.asked = ran[a].asked
        /\ s[a].mode # "DDA" => x = ran[a]
    <3>1. CASE s[a].mode # "DDA" \/ ran[a].mode = "HOLD"
      BY <1>1, <3>1
    <3>2. CASE ~(s[a].mode # "DDA" \/ ran[a].mode = "HOLD")
      <4>1. Sound(ran[a]) /\ ran[a].mode = "DDA"
        BY <1>1, <3>2
      <4>2. PICK m : m = ran[ran[a].dda_master] /\ m \in AnyAxis
        BY <1>1, <4>1 DEF Sound, SlaveOK
      <4>3. x = Followed(ran[a], m)
        BY <3>2, <4>2
      <4>4. Sound(x) /\ x.asked = ran[a].asked /\ x.actual_pos = ran[a].actual_pos
        BY <4>1, <4>2, <4>3, FollowedFields, FollowedTask
      <4> QED BY <1>1, <3>2, <4>4
    <3> QED BY <3>1, <3>2
  <2> HIDE DEF x, u
  <2>3. /\ Sound(u[a]) /\ u[a].asked = x.asked /\ u[a].mode = x.mode
        /\ u[a].actual_pos = x.actual_pos
        /\ u[a].target_pos = x.target_pos /\ u[a].sent = x.target_pos
    <3>1. x \in AnyAxis
      BY <2>2 DEF Sound
    <3> QED BY <2>1, <2>2, <3>1, SentFields, SentTask
  <2> QED BY <1>1, <2>2, <2>3
<1> HIDE DEF u
<1>4. u \in [Axes -> AnyAxis]
  BY <1>2, <1>3 DEF Sound
<1> QED BY <1>3, <1>4 DEF AllSound, u

LEMMA ControlSound ==
  ASSUME NEW s, AllSound(s), NEW turn, Turns(turn), Control(s, turn)
  PROVE  /\ AllSound(axis') /\ Turns(direction')
         /\ \A a \in Axes :
              /\ axis'[a].actual_pos = s[a].sent
              /\ axis'[a].asked = "arc" => s[a].asked = "arc"
              /\ axis'[a].asked = "arc" /\ s[a].mode \in {"ARC", "HOLD"} =>
                   /\ axis'[a].mode = s[a].mode
                   /\ axis'[a].target_pos = s[a].target_pos
                   /\ axis'[a].sent = s[a].target_pos
<1>1. PICK faults \in SUBSET Faulty :
        /\ direction' = [a \in Axes |-> IF a \in faults THEN 0 ELSE turn[a]]
        /\ \E ran \in Outcomes(LAMBDA a : ArcAfter(s, faults, turn, a)) :
             IF QueueGate(g_arc') THEN ProcessQueue(Follow(s, ran))
             ELSE axis' = Follow(s, ran) /\ UNCHANGED qvars
  BY DEF Control
<1>2. PICK ran : /\ \A a \in Axes : ran[a] \in ArcAfter(s, faults, turn, a)
                 /\ ProcessQueue(Follow(s, ran)) \/ axis' = Follow(s, ran)
  BY <1>1 DEF Outcomes
<1> DEFINE u == Follow(s, ran)
<1>3. /\ AllSound(u)
      /\ \A a \in Axes :
           /\ u[a].actual_pos = s[a].sent
           /\ u[a].asked = "arc" => s[a].asked = "arc"
           /\ u[a].asked = "arc" /\ s[a].mode \in {"ARC", "HOLD"} =>
                /\ u[a].mode = s[a].mode
                /\ u[a].target_pos = s[a].target_pos /\ u[a].sent = s[a].target_pos
  BY <1>2, FollowSound
<1> HIDE DEF u
<1>4. axis' = u \/ \E seg \in Segments : axis' = Interp_Line(u, seg)
  BY <1>2 DEF ProcessQueue, u
<1>5. Turns(direction')
  BY <1>1 DEF Turns
<1>6. CASE axis' = u
  BY <1>3, <1>5, <1>6
<1>7. CASE \E seg \in Segments : axis' = Interp_Line(u, seg)
  <2>1. PICK seg \in Segments : axis' = Interp_Line(u, seg)
    BY <1>7
  <2>2. /\ AllSound(axis')
        /\ \A a \in Axes : axis'[a].actual_pos = u[a].actual_pos
        /\ axis' = u \/ \A a \in Axes : axis'[a].asked = "line"
    BY <1>3, <2>1, LineSound, TargetsInt
  <2>3. CASE axis' = u
    BY <1>3, <1>5, <2>3
  <2>4. CASE \A a \in Axes : axis'[a].asked = "line"
    BY <1>3, <1>5, <2>2, <2>4
  <2> QED BY <2>2, <2>3, <2>4
<1> QED BY <1>4, <1>6, <1>7

-----------------------------------------------------------------------------
\* Where an axis that follows an arc was sent: along the arc, when it has not been taken
\* there yet it stands where the arc begins; or to its end.
Along(a) ==
  \/ axis[a].sent = g_arc.shape.at[a][g_arc.planner.pos]
  \/ g_arc.planner.pos = 0 /\ axis[a].actual_pos = g_arc.shape.from[a]

AtEnd(a) ==
  /\ axis[a].mode = "HOLD" /\ g_arc.shape \in Arcs
  /\ axis[a].target_pos = g_arc.shape.to[a] /\ axis[a].sent = g_arc.shape.to[a]

OnArc(a) == axis[a].asked = "arc" => IF g_arc.active THEN Along(a) ELSE AtEnd(a)

ArcTyped ==
  AllSound(axis) /\ Turns(direction) /\ PlannerOK /\ \A a \in XY : OnArc(a)

LEMMA ArcTypedInit == ArcInit => ArcTyped
<1> SUFFICES ASSUME ArcInit PROVE ArcTyped
  OBVIOUS
<1>1. axis = [a \in Axes |-> Idle] /\ ~g_arc.active /\ direction = [a \in Axes |-> 0]
  BY DEF ArcInit, Init, NoArc
<1>2. 0 \in 0..Speed
  BY LineAssumption
<1>3. Idle \in AnyAxis /\ Sound(Idle) /\ Idle.asked = "none"
  BY <1>2 DEF Idle, AnyAxis, Sound, SlaveOK
<1>4. XY \subseteq Axes
  BY ArcAssumption
<1> QED BY <1>1, <1>3, <1>4 DEF ArcTyped, AllSound, Turns, PlannerOK, OnArc

\* Commands that leave the arc leave its axes or take them.
LEMMA OthersTyped ==
  ASSUME ArcTyped, AllSound(axis'), Turns(direction'), UNCHANGED g_arc,
         \A a \in Axes : axis'[a] = axis[a] \/ axis'[a].asked # "arc"
  PROVE  ArcTyped'
<1>1. XY \subseteq Axes
  BY ArcAssumption
<1>2. PlannerOK'
  BY DEF PlannerOK, ArcTyped
<1>3. ASSUME NEW a \in XY PROVE OnArc(a)'
  BY <1>1 DEF OnArc, Along, AtEnd, ArcTyped
<1> QED BY <1>2, <1>3 DEF ArcTyped, AllSound, Sound, SlaveOK, Turns

\* A command that makes the axis b into r.
LEMMA ReplacedTyped ==
  ASSUME ArcTyped, NEW b \in Axes, NEW r, Sound(r), r.asked # "arc",
         axis' = [axis EXCEPT ![b] = r], Turns(direction'), UNCHANGED g_arc
  PROVE  ArcTyped'
<1>1. axis \in [Axes -> AnyAxis] /\ \A a \in Axes : Sound(axis[a])
  BY DEF ArcTyped, AllSound
<1>2. \A a \in Axes : axis'[a] = IF a = b THEN r ELSE axis[a]
  BY <1>1
<1>3. AllSound(axis')
  BY <1>1, <1>2 DEF AllSound, Sound
<1> QED BY <1>2, <1>3, OthersTyped

LEMMA ArcPassTyped ==
  ASSUME ArcTyped, ArcIInv, ArcPass
  PROVE  ArcTyped'
<1>1. /\ XY \subseteq Axes /\ AllSound(axis) /\ Turns(direction) /\ PlannerOK
      /\ \A a \in XY : OnArc(a)
  BY ArcAssumption DEF ArcTyped
<1>2. CASE ~g_arc.active /\ UNCHANGED g_arc /\ Control(axis, direction)
  <2>1. /\ AllSound(axis') /\ Turns(direction')
        /\ \A a \in Axes :
             axis'[a].asked = "arc" =>
               /\ axis[a].asked = "arc"
               /\ axis[a].mode \in {"ARC", "HOLD"} =>
                    /\ axis'[a].mode = axis[a].mode
                    /\ axis'[a].target_pos = axis[a].target_pos
                    /\ axis'[a].sent = axis[a].target_pos
    BY <1>1, <1>2, ControlSound
  <2>2. ASSUME NEW a \in XY PROVE OnArc(a)'
    BY <1>1, <1>2, <2>1 DEF OnArc, AtEnd
  <2>3. PlannerOK'
    BY <1>2 DEF PlannerOK
  <2> QED BY <2>1, <2>2, <2>3 DEF ArcTyped, AllSound, Sound, SlaveOK, Turns
<1>3. CASE /\ g_arc.active
           /\ \E p \in Stepped(g_arc.planner) :
                /\ g_arc' = IF ArcDone(p) THEN Ended(g_arc) ELSE Active(g_arc.shape, p)
                /\ Control(ArcStepped(p), ArcDirection(p))
  <2>0. g_arc.planner.running
    BY <1>3 DEF ArcIInv, ArcAdvances
  <2>1. PICK p \in Stepped(g_arc.planner) :
          /\ g_arc' = IF ArcDone(p) THEN Ended(g_arc) ELSE Active(g_arc.shape, p)
          /\ Control(ArcStepped(p), ArcDirection(p))
    BY <1>3
  <2> DEFINE s == ArcStepped(p)
  <2>2. /\ AllSound(s)
        /\ \A a \in Axes : s[a].asked = axis[a].asked /\ s[a].sent = axis[a].sent
        /\ \A a \in XY :
             /\ s[a].mode = IF ArcDone(p) THEN "HOLD" ELSE axis[a].mode
             /\ s[a].target_pos = IF ArcDone(p) THEN g_arc.shape.to[a]
                                  ELSE g_arc.shape.at[a][p.pos]
    BY <1>1, <1>3, <2>0, ArcStepSound
  <2> HIDE DEF s
  <2>3. Control(s, ArcDirection(p)) /\ Turns(ArcDirection(p))
    BY <1>1, <2>1, ArcTurns DEF s
  <2>4. /\ AllSound(axis') /\ Turns(direction')
        /\ \A a \in Axes :
             axis'[a].asked = "arc" =>
               /\ s[a].asked = "arc"
               /\ s[a].mode \in {"ARC", "HOLD"} =>
                    /\ axis'[a].mode = s[a].mode
                    /\ axis'[a].target_pos = s[a].target_pos
                    /\ axis'[a].sent = s[a].target_pos
    BY <2>2, <2>3, ControlSound
  <2>5. ASSUME NEW a \in XY, axis'[a].asked = "arc"
        PROVE  /\ axis'[a].sent = s[a].target_pos /\ axis'[a].target_pos = s[a].target_pos
               /\ axis'[a].mode = s[a].mode
    <3>1. axis[a].asked = "arc" /\ s[a].asked = "arc"
      BY <1>1, <2>2, <2>4, <2>5
    <3>2. axis[a].mode = "ARC"
      BY <1>3, <3>1 DEF ArcIInv, ArcMode
    <3>3. s[a].mode \in {"ARC", "HOLD"}
      BY <2>2, <3>2
    <3> QED BY <1>1, <2>4, <2>5, <3>3
  <2>6. CASE ArcDone(p)
    <3>1. g_arc' = [active |-> FALSE, shape |-> g_arc.shape]
      <4>1. g_arc # NoArc
        BY <1>3 DEF NoArc
      <4> QED BY <2>1, <2>6, <4>1 DEF Ended
    <3>2. ~g_arc'.active /\ g_arc'.shape = g_arc.shape /\ g_arc.shape \in Arcs
      BY <1>1, <1>3, <3>1 DEF PlannerOK
    <3>3. ASSUME NEW a \in XY PROVE OnArc(a)'
      BY <2>2, <2>5, <2>6, <3>2 DEF OnArc, AtEnd
    <3>4. PlannerOK'
      BY <3>2 DEF PlannerOK
    <3> QED BY <2>4, <3>3, <3>4 DEF ArcTyped, AllSound, Sound, SlaveOK, Turns
  <2>7. CASE ~ArcDone(p)
    <3>1. g_arc' = [active |-> TRUE, shape |-> g_arc.shape, planner |-> p]
      BY <2>1, <2>7 DEF Active
    <3>2. g_arc'.active /\ g_arc'.shape = g_arc.shape /\ g_arc'.planner = p
      BY <3>1
    <3>3. ASSUME NEW a \in XY PROVE OnArc(a)'
      BY <2>2, <2>5, <2>7, <3>2 DEF OnArc, Along
    <3>4. PlannerOK'
      <4>1. /\ p \in Planner /\ p.goal = g_arc.shape.length
            /\ p.pos <= g_arc.shape.length + Speed
        BY <1>1, <1>3, <2>0, PlannerStep
      <4>2. g_arc.shape \in Arcs
        BY <1>1, <1>3 DEF PlannerOK
      <4> QED BY <3>2, <4>1, <4>2 DEF PlannerOK, Planner
    <3> QED BY <2>4, <3>3, <3>4 DEF ArcTyped, AllSound, Sound, SlaveOK, Turns
  <2> QED BY <2>6, <2>7
<1> QED BY <1>2, <1>3 DEF ArcPass

\* A new arc begins where its axes stand.
LEMMA StartTyped ==
  ASSUME ArcTyped, NEW arc \in Arcs, StartArc(arc)
  PROVE  ArcTyped' /\ \A a \in Axes : axis'[a].sent = axis[a].sent
<1> DEFINE u == Interp_ArcXY(axis, arc)
<1>1. /\ XY \subseteq Axes /\ AllSound(axis) /\ Turns(direction) /\ Speed \in Nat
      /\ arc.length \in Nat
  BY ArcAssumption, LineAssumption DEF ArcTyped
<1>2. u = [a \in Axes |-> u[a]]
  BY DEF Interp_ArcXY
<1>3. ASSUME NEW a \in Axes
      PROVE  /\ Sound(u[a]) /\ u[a].sent = axis[a].sent /\ u[a].actual_pos = axis[a].actual_pos
  <2>1. PICK r, q : r = axis[a] /\ q = u[a]
    OBVIOUS
  <2>2. Sound(r)
    BY <1>1, <2>1 DEF AllSound
  <2>3. CASE a \in XY
    <3>1. PICK v : /\ v = (IF r.mode = "ARC" THEN 0 ELSE r.velocity)
                   /\ q = [r EXCEPT !.mode = "ARC", !.motion_busy = TRUE, !.velocity = v,
                                    !.asked = "arc"]
      BY <2>1, <2>3 DEF Interp_ArcXY
    <3>2. v \in 0..Speed
      BY <1>1, <2>2, <3>1 DEF Sound, AnyAxis
    <3>3. q = [r EXCEPT !.mode = "ARC", !.motion_busy = TRUE, !.velocity = v, !.asked = "arc"]
      BY <3>1
    <3>4. Sound(q) /\ q.sent = r.sent /\ q.actual_pos = r.actual_pos
      BY <2>2, <3>2, <3>3 DEF Sound, SlaveOK, AnyAxis
    <3> QED BY <2>1, <3>4
  <2>4. CASE a \notin XY
    <3>1. q = r
      BY <2>1, <2>4 DEF Interp_ArcXY
    <3> QED BY <2>1, <2>2, <3>1
  <2> QED BY <2>3, <2>4
<1> HIDE DEF u
<1>4. /\ axis' = u /\ UNCHANGED direction
      /\ g_arc' = [active |-> TRUE, shape |-> arc, planner |-> ArcPlanned(arc)]
      /\ \A a \in XY : axis[a].actual_pos = arc.from[a]
  BY DEF StartArc, Active, StartsAt, u
<1>5. AllSound(axis')
  BY <1>2, <1>3, <1>4 DEF AllSound, Sound
<1>6. g_arc'.shape = arc /\ g_arc'.planner = ArcPlanned(arc) /\ g_arc'.active
  BY <1>4
<1>7. PlannerOK'
  <2>1. ArcPlanned(arc) \in Planner
    BY <1>1 DEF ArcPlanned, Planner
  <2>2. ArcPlanned(arc).goal = arc.length /\ ArcPlanned(arc).pos <= arc.length + Speed
    BY <1>1 DEF ArcPlanned
  <2> QED BY <1>6, <2>1, <2>2 DEF PlannerOK, Planner
<1>8. ASSUME NEW a \in XY PROVE OnArc(a)'
  <2>1. axis'[a].actual_pos = arc.from[a] /\ g_arc'.planner.pos = 0
    BY <1>1, <1>3, <1>4, <1>6 DEF ArcPlanned
  <2> QED BY <1>6, <2>1 DEF OnArc, Along
<1> QED BY <1>1, <1>3, <1>4, <1>5, <1>7, <1>8 DEF ArcTyped, AllSound, Sound, SlaveOK, Turns

LEMMA ArcAbortSound ==
  ASSUME NEW s, AllSound(s)
  PROVE  AllSound(Arc_Abort(s))
<1> DEFINE u == Arc_Abort(s)
<1>1. u = [a \in Axes |-> u[a]]
  BY DEF Arc_Abort
<1>2. ASSUME NEW a \in Axes PROVE Sound(u[a])
  <2>1. PICK r, q : r = s[a] /\ q = u[a]
    OBVIOUS
  <2>2. Sound(r)
    BY <2>1 DEF AllSound
  <2>3. q = r \/ q = [r EXCEPT !.mode = "HOLD", !.velocity = 0, !.motion_busy = FALSE]
    BY <2>1 DEF Arc_Abort
  <2>4. 0 \in 0..Speed
    BY LineAssumption
  <2>5. Sound(q)
    BY <2>2, <2>3, <2>4 DEF Sound, SlaveOK, AnyAxis
  <2> QED BY <2>1, <2>5
<1> HIDE DEF u
<1>3. u \in [Axes -> AnyAxis]
  BY <1>1, <1>2 DEF Sound
<1> QED BY <1>2, <1>3 DEF AllSound, u

\* Every step but a pass and a new arc.
LEMMA ArcCommandTyped ==
  ASSUME ArcTyped, [ArcNext]_arcVars, ~ArcPass, \A arc \in Arcs : ~StartArc(arc)
  PROVE  /\ ArcTyped'
         /\ \A a \in Axes : axis'[a] = axis[a] \/ axis'[a].asked # "arc"
<1> DEFINE Goal == /\ ArcTyped'
                   /\ \A a \in Axes : axis'[a] = axis[a] \/ axis'[a].asked # "arc"
<1>0. /\ XY \subseteq Axes /\ AllSound(axis) /\ Turns(direction)
      /\ axis \in [Axes -> AnyAxis]
      /\ \A a \in Axes : axis[a] \in AnyAxis /\ Sound(axis[a])
  BY ArcAssumption DEF ArcTyped, AllSound
<1>a. ASSUME NEW b \in Axes, NEW r, Sound(r), r.asked # "arc",
             axis' = [axis EXCEPT ![b] = r], UNCHANGED g_arc,
             direction' = direction \/ direction' = [direction EXCEPT ![b] = 0]
      PROVE  Goal
  <2>1. Turns(direction')
    BY <1>0, <1>a DEF Turns
  <2>2. \A a \in Axes : axis'[a] = IF a = b THEN r ELSE axis[a]
    BY <1>0, <1>a
  <2> QED BY <1>a, <2>1, <2>2, ReplacedTyped
<1>b. ASSUME UNCHANGED <<axis, g_arc, direction>> PROVE Goal
  BY <1>0, <1>b, OthersTyped
<1>1. ASSUME NEW t \in Lines, ArcLine(t) PROVE Goal
  <2>1. axis' = Interp_Line(axis, t) /\ UNCHANGED <<g_arc, direction>>
    BY <1>1 DEF ArcLine, Line
  <2>2. AllSound(axis') /\ (axis' = axis \/ \A a \in Axes : axis'[a].asked = "line")
    BY <1>0, <2>1, LineSound, TargetsInt
  <2>3. \A a \in Axes : axis'[a] = axis[a] \/ axis'[a].asked # "arc"
    BY <2>2
  <2> QED BY <1>0, <2>1, <2>2, <2>3, OthersTyped
<1>2. ASSUME NEW move \in Moves, ArcMoveTo(move[1], move[2]) PROVE Goal
  <2>1. PICK b \in Axes, to \in Int : b = move[1] /\ to = move[2]
    BY TargetsInt
  <2>2. axis' = [axis EXCEPT ![b] = ApplyPosition(axis[b], to)] /\ UNCHANGED <<g_arc, direction>>
    BY <1>2, <2>1 DEF ArcMoveTo, MoveTo
  <2>3. Sound(ApplyPosition(axis[b], to)) /\ ApplyPosition(axis[b], to).asked # "arc"
    BY <1>0, MoveSound
  <2> QED BY <1>a, <2>2, <2>3
<1>3. ASSUME NEW b \in Stops, NEW smooth \in Smooth, ArcStop(b, smooth) PROVE Goal
  <2>1. b \in Axes
    BY LineAssumption
  <2>2. PICK r \in Stopped(axis[b], direction[b], smooth) : axis' = [axis EXCEPT ![b] = r]
    BY <1>3 DEF ArcStop
  <2>3. Sound(r) /\ r.asked # "arc"
    BY <1>0, <2>1, <2>2, StoppedSound
  <2>4. UNCHANGED g_arc /\ direction' = [direction EXCEPT ![b] = 0]
    BY <1>3 DEF ArcStop
  <2> QED BY <1>a, <2>1, <2>2, <2>3, <2>4
<1>4. ASSUME NEW b \in Halts, ArcHalt(b) PROVE Goal
  <2>1. b \in Axes
    BY LineAssumption
  <2>2. PICK r \in Halted(axis[b]) : axis' = [axis EXCEPT ![b] = r]
    BY <1>4 DEF ArcHalt, Halt
  <2>3. Sound(r) /\ r.asked # "arc"
    BY <1>0, <2>1, <2>2, HaltFields
  <2>4. UNCHANGED g_arc /\ direction' = [direction EXCEPT ![b] = 0]
    BY <1>4 DEF ArcHalt
  <2> QED BY <1>a, <2>1, <2>2, <2>3, <2>4
<1>5. ASSUME NEW smooth \in Smooth, ArcAbort(smooth) PROVE Goal
  <2> DEFINE s == IF g_arc.active THEN Arc_Abort(axis) ELSE axis
  <2>1. AllSound(s)
    BY <1>0, ArcAbortSound
  <2> HIDE DEF s
  <2>2. /\ axis' = [a \in Axes |-> axis'[a]]
        /\ \A a \in Axes : axis'[a] \in Stopped(s[a], direction[a], smooth)
    BY <1>5 DEF ArcAbort, Outcomes, s
  <2>3. \A a \in Axes : Sound(axis'[a]) /\ axis'[a].asked # "arc"
    BY <2>1, <2>2, StoppedSound DEF AllSound
  <2>4. AllSound(axis')
    BY <2>2, <2>3 DEF AllSound, Sound
  <2>5. ~g_arc'.active /\ Turns(direction')
    BY <1>5 DEF ArcAbort, Ended, NoArc, Turns
  <2>6. ArcTyped'
    BY <1>0, <2>3, <2>4, <2>5
       DEF ArcTyped, PlannerOK, OnArc, AllSound, Sound, SlaveOK, Turns
  <2> QED BY <2>3, <2>6
<1>6. ASSUME NEW b \in Axes, ArcResetDone(b) PROVE Goal
  <2>1. PICK r : /\ axis' = [axis EXCEPT ![b] = r]
                 /\ Sound(r) /\ r.asked = axis[b].asked
    BY <1>0, <1>6, ResetSound DEF ArcResetDone, ResetDone
  <2>2. r.asked = "fault"
    BY <1>6, <2>1 DEF ArcResetDone, ResetDone
  <2>3. UNCHANGED g_arc /\ direction' = [direction EXCEPT ![b] = 0]
    BY <1>6 DEF ArcResetDone
  <2> QED BY <1>a, <2>1, <2>2, <2>3
<1>7. CASE ArcQueueCommand
  BY <1>7, <1>b DEF ArcQueueCommand, QueueCommand
<1>8. CASE UNCHANGED arcVars \/ ArcSpin \/ \E t \in Lines : ArcLineLoops(t)
  <2>1. UNCHANGED <<axis, g_arc, direction>>
    BY <1>8 DEF ArcSpin, ArcLineLoops, LineLoops, arcVars, vars
  <2> QED BY <1>b, <2>1
<1>9. CASE \/ \E t \in Lines : ArcLine(t)
           \/ \E move \in Moves : ArcMoveTo(move[1], move[2])
           \/ \E a \in Stops, smooth \in Smooth : ArcStop(a, smooth)
           \/ \E a \in Halts : ArcHalt(a)
           \/ \E smooth \in Smooth : ArcAbort(smooth)
           \/ \E a \in Axes : ArcResetDone(a)
  BY <1>1, <1>2, <1>3, <1>4, <1>5, <1>6, <1>9, Zenon
<1> QED BY <1>7, <1>8, <1>9, Zenon DEF ArcNext

LEMMA ArcTypedNext == ArcTyped /\ ArcIInv /\ [ArcNext]_arcVars => ArcTyped'
BY ArcPassTyped, StartTyped, ArcCommandTyped

LEMMA ArcInvariance == ArcSpec => [](ArcTyped /\ ArcIInv)
BY ArcTypedInit, ArcTypedNext, ArcInductiveInit, ArcNextOK, PTL DEF ArcSpec

-----------------------------------------------------------------------------
\* How far a step of the arc, or its end, is from where the axis was sent.
LEMMA ArcReaches ==
  ASSUME ArcTyped, ArcIInv, g_arc.active, NEW a \in XY, axis[a].asked = "arc", Close(a),
         NEW p \in Stepped(g_arc.planner), NEW to,
         \/ to = g_arc.shape.at[a][p.pos]
         \/ ~p.running /\ to = g_arc.shape.to[a]
  PROVE  /\ to \in Int /\ axis[a].sent \in Int
         /\ -(2 * Speed + 1 + Landing) <= to - axis[a].sent
         /\ to - axis[a].sent <= 2 * Speed + 1 + Landing
<1> DEFINE arc == g_arc.shape
           i == g_arc.planner.pos
           n == arc.length
           f == arc.at[a]
<1>1. /\ XY \subseteq Axes /\ Speed \in Nat /\ Landing \in Nat /\ Reach \in Nat
      /\ arc \in Arcs /\ n \in Nat /\ g_arc.planner.running
      /\ axis[a].sent \in Int /\ axis[a].actual_pos \in Int
  BY ArcAssumption, LineAssumption
     DEF ArcTyped, PlannerOK, ArcIInv, ArcAdvances, AllSound, AnyAxis
<1>2. PlannerOK
  BY DEF ArcTyped
<1>3. /\ p.pos \in 0..(n + Speed) /\ i \in 0..(n + Speed) /\ 0 \in 0..(n + Speed)
      /\ n \in 0..(n + Speed)
      /\ -Speed <= p.pos - i /\ p.pos - i <= Speed
      /\ ~p.running => -Speed <= n - i /\ n - i <= Speed
  BY <1>1, <1>2, PlannerStep DEF PlannerOK, Planner
<1>4. PICK j \in 0..(n + Speed), over \in 0..Landing :
        /\ -Speed <= j - i /\ j - i <= Speed
        /\ to \in Int /\ f[j] \in Int
        /\ -over <= to - f[j] /\ to - f[j] <= over
  <2>1. CASE to = f[p.pos]
    <3>1. f[p.pos] \in Int
      BY <1>1, <1>3, ArcStretch
    <3>2. 0 \in 0..Landing /\ -0 <= to - f[p.pos] /\ to - f[p.pos] <= 0
      BY <1>1, <2>1, <3>1
    <3> QED BY <1>3, <2>1, <3>1, <3>2
  <2>2. CASE ~p.running /\ to = arc.to[a]
    <3>1. f[n] \in Int
      BY <1>1, <1>3, <2>2, ArcStretch
    <3>2. to \in Int
      BY <1>1, <2>2, ArcAssumption
    <3>3. Abs(f[n] - to) <= Landing
      BY <1>1, <2>2, ArcAssumption
    <3>4. Landing \in 0..Landing /\ -Landing <= to - f[n] /\ to - f[n] <= Landing
      BY <1>1, <3>1, <3>2, <3>3 DEF Abs
    <3> QED BY <1>3, <2>2, <3>1, <3>2, <3>4
  <2> QED BY <2>1, <2>2
<1>5. PICK x \in Int, y \in Int :
        x = f[i] /\ y = f[j] /\ -Speed <= y - x /\ y - x <= Speed
  BY <1>1, <1>3, <1>4, ArcStretch
<1>6. /\ -(Speed + 1) <= x - axis[a].sent /\ x - axis[a].sent <= Speed + 1
  <2>1. OnArc(a)
    BY DEF ArcTyped
  <2>2. CASE axis[a].sent = x
    BY <1>1, <2>2
  <2>3. CASE i = 0 /\ axis[a].actual_pos = arc.from[a]
    <3>1. Abs(f[0] - arc.from[a]) <= 1
      BY <1>1, ArcAssumption
    <3>2. Abs(x - axis[a].actual_pos) <= 1
      BY <1>5, <2>3, <3>1
    <3>3. /\ -Speed <= axis[a].sent - axis[a].actual_pos
          /\ axis[a].sent - axis[a].actual_pos <= Speed
      BY <1>1 DEF Close, Abs
    <3>4. -1 <= x - axis[a].actual_pos /\ x - axis[a].actual_pos <= 1
      BY <1>1, <1>5, <3>2 DEF Abs
    <3> QED BY <1>1, <1>5, <3>3, <3>4
  <2> QED BY <1>5, <2>1, <2>2, <2>3 DEF OnArc, Along
<1>7. over \in 0..Landing /\ to \in Int
      /\ -over <= to - y /\ to - y <= over
  BY <1>4, <1>5
<1> HIDE DEF arc, i, n, f
<1> QED BY <1>1, <1>5, <1>6, <1>7

\* What becomes of an axis of an arc in a pass: it is sent along the arc or to its end, or
\* stays there, and is where it was sent before.
LEMMA ArcPassReaches ==
  ASSUME ArcTyped, ArcIInv, ArcPass, NEW a \in XY, axis[a].asked = "arc", Close(a)
  PROVE  /\ axis[a].sent \in Int /\ axis'[a].actual_pos \in Int
         /\ axis'[a].asked = "arc" => Abs(axis'[a].sent - axis[a].sent) <= 2 * Speed + 1 + Landing
         /\ ~g_arc'.active =>
              Abs(axis'[a].actual_pos - g_arc.shape.to[a]) <= 2 * Speed + 1 + Landing
<1>1. /\ a \in Axes /\ AllSound(axis) /\ Turns(direction) /\ PlannerOK /\ OnArc(a)
      /\ axis[a].sent \in Int /\ Speed \in Nat /\ Landing \in Nat
  BY ArcAssumption, LineAssumption DEF ArcTyped, AllSound, AnyAxis
<1>2. CASE ~g_arc.active /\ UNCHANGED g_arc /\ Control(axis, direction)
  <2>1. AtEnd(a)
    BY <1>1, <1>2 DEF OnArc
  <2>2. /\ axis'[a].actual_pos = axis[a].sent
        /\ axis'[a].asked = "arc" => axis'[a].sent = axis[a].target_pos
    BY <1>1, <1>2, <2>1, ControlSound DEF AtEnd
  <2>3. axis[a].target_pos = axis[a].sent /\ axis[a].sent = g_arc.shape.to[a]
    BY <2>1 DEF AtEnd
  <2>4. Abs(axis[a].sent - axis[a].sent) = 0
    BY <1>1 DEF Abs
  <2> QED BY <1>1, <2>2, <2>3, <2>4
<1>3. CASE /\ g_arc.active
           /\ \E p \in Stepped(g_arc.planner) :
                /\ g_arc' = IF ArcDone(p) THEN Ended(g_arc) ELSE Active(g_arc.shape, p)
                /\ Control(ArcStepped(p), ArcDirection(p))
  <2>0. g_arc.planner.running /\ axis[a].mode = "ARC"
    BY <1>3 DEF ArcIInv, ArcAdvances, ArcMode
  <2>1. PICK p \in Stepped(g_arc.planner) :
          /\ g_arc' = IF ArcDone(p) THEN Ended(g_arc) ELSE Active(g_arc.shape, p)
          /\ Control(ArcStepped(p), ArcDirection(p))
    BY <1>3
  <2> DEFINE s == ArcStepped(p)
  <2>2. /\ AllSound(s) /\ s[a].sent = axis[a].sent /\ s[a].mode \in {"HOLD", "ARC"}
        /\ s[a].target_pos = IF ArcDone(p) THEN g_arc.shape.to[a]
                             ELSE g_arc.shape.at[a][p.pos]
    BY <1>1, <1>3, <2>0, ArcStepSound
  <2> HIDE DEF s
  <2>3. Control(s, ArcDirection(p)) /\ Turns(ArcDirection(p))
    BY <1>1, <2>1, ArcTurns DEF s
  <2>4. /\ axis'[a].actual_pos = s[a].sent
        /\ axis'[a].asked = "arc" => axis'[a].sent = s[a].target_pos
    BY <1>1, <2>2, <2>3, ControlSound
  <2>5. PICK to : to = s[a].target_pos
    OBVIOUS
  <2>6. to = g_arc.shape.at[a][p.pos] \/ (~p.running /\ to = g_arc.shape.to[a])
    BY <2>2, <2>5 DEF ArcDone
  <2>7. /\ to \in Int
        /\ -(2 * Speed + 1 + Landing) <= to - axis[a].sent
        /\ to - axis[a].sent <= 2 * Speed + 1 + Landing
    BY <1>3, <2>6, ArcReaches
  <2>8. Abs(to - axis[a].sent) <= 2 * Speed + 1 + Landing
        /\ Abs(axis[a].sent - to) <= 2 * Speed + 1 + Landing
    BY <1>1, <2>7 DEF Abs
  <2>9. ~g_arc'.active => to = g_arc.shape.to[a]
    BY <2>1, <2>2, <2>5 DEF Active
  <2> QED BY <1>1, <2>2, <2>4, <2>5, <2>8, <2>9
<1> QED BY <1>2, <1>3 DEF ArcPass

\* An arc moves its axes by no more than the drive accepts, also when it replaces a motion,
\* another arc or what a fault has left, and when it ends beside the circle
\* (motion_api.c:586).
THEOREM ArcsNeverJump == ArcSpec => ArcDoesNotJump
<1>1. ASSUME ArcTyped, ArcIInv, [ArcNext]_arcVars, NEW a \in XY,
             axis[a].asked = "arc", axis'[a].asked = "arc", Close(a)
      PROVE  Abs(axis'[a].sent - axis[a].sent) <= 2 * Speed + 1 + Landing
  <2>1. a \in Axes /\ axis[a].sent \in Int /\ Speed \in Nat /\ Landing \in Nat
    BY <1>1, ArcAssumption, LineAssumption DEF ArcTyped, AllSound, AnyAxis
  <2>2. CASE ArcPass
    BY <1>1, <2>2, ArcPassReaches
  <2>3. CASE ~ArcPass
    <3>1. axis'[a].sent = axis[a].sent
      BY <1>1, <2>1, <2>3, StartTyped, ArcCommandTyped
    <3> QED BY <2>1, <3>1 DEF Abs
  <2> QED BY <2>2, <2>3
<1>2. ArcTyped /\ ArcIInv /\ [ArcNext]_arcVars
      => [\A a \in XY : /\ axis[a].asked = "arc" /\ axis'[a].asked = "arc" /\ Close(a)
                        => Abs(axis'[a].sent - axis[a].sent)
                             <= 2 * Speed + 1 + Landing]_arcVars
  BY <1>1
<1> QED BY <1>2, ArcInvariance, PTL DEF ArcSpec, ArcDoesNotJump

-----------------------------------------------------------------------------
\* The queue of every module is SegmentQueue: whatever lines, arcs, homing and faults do,
\* a step puts, takes, flushes, pauses or resumes, or leaves it.
LEMMA HomeQueueStep == [HomeNext]_homeVars => [QueueNext]_qvars
<1> SUFFICES ASSUME [HomeNext]_homeVars PROVE QueueNext \/ UNCHANGED qvars
  OBVIOUS
<1>1. CASE HomePass
  <2>1. PICK t : ProcessQueue(t)
    BY <1>1 DEF HomePass
  <2> QED BY <2>1 DEF ProcessQueue, QueueNext
<1>2. CASE \E as \in Zeros : SerialZero(as) \/ PanelZero(as)
  BY <1>2 DEF SerialZero, PanelZero, SendHome
<1>3. CASE HomeQueueCommand
  BY <1>3 DEF HomeQueueCommand, QueueCommand, QueueNext
<1>4. CASE UNCHANGED homeVars \/ HomeSpin \/ \E t \in Lines : HomeLineLoops(t)
  BY <1>4 DEF HomeSpin, HomeLineLoops, LineLoops, homeVars, vars, qvars
<1>5. CASE \E smooth \in Smooth : HomeAbort(smooth)
  BY <1>5 DEF HomeAbort, Abort, QueueNext
<1> QED
  BY <1>1, <1>2, <1>3, <1>4, <1>5
     DEF HomeNext, HomeLine, HomeMoveTo, HomeStop, HomeHalt, HomeResetDone,
         Line, MoveTo, Stop, Halt, ResetDone

\* What a pass does to the queue: nothing while an arc goes on.
LEMMA ArcPassQueue ==
  ASSUME ArcPass
  PROVE  UNCHANGED qvars \/ (~g_arc'.active /\ \E seg \in Segments : Take(seg))
<1>1. PICK s, turn : Control(s, turn)
  BY DEF ArcPass
<1>2. PICK u : IF QueueGate(g_arc') THEN ProcessQueue(u) ELSE UNCHANGED qvars
  BY <1>1 DEF Control
<1> QED BY <1>2 DEF QueueGate, ProcessQueue

LEMMA ArcQueueStep == [ArcNext]_arcVars => [QueueNext]_qvars
<1> SUFFICES ASSUME [ArcNext]_arcVars PROVE QueueNext \/ UNCHANGED qvars
  OBVIOUS
<1>1. CASE ArcPass
  BY <1>1, ArcPassQueue DEF QueueNext
<1>2. CASE \E arc \in Arcs : StartArc(arc)
  BY <1>2 DEF StartArc, qvars
<1>3. CASE ArcQueueCommand
  BY <1>3 DEF ArcQueueCommand, QueueCommand, QueueNext
<1>4. CASE UNCHANGED arcVars \/ ArcSpin \/ \E t \in Lines : ArcLineLoops(t)
  BY <1>4 DEF ArcSpin, ArcLineLoops, LineLoops, arcVars, vars, qvars
<1>5. CASE \E smooth \in Smooth : ArcAbort(smooth)
  BY <1>5 DEF ArcAbort, QueueNext
<1>6. CASE \E a \in Stops, smooth \in Smooth : ArcStop(a, smooth)
  BY <1>6 DEF ArcStop, qvars
<1> QED
  BY <1>1, <1>2, <1>3, <1>4, <1>5, <1>6
     DEF ArcNext, ArcLine, ArcMoveTo, ArcHalt, ArcResetDone, Line, MoveTo, Halt, ResetDone

\* Lines and what interferes with them keep the promises of SegmentQueue
\* (motion_api.c:717).
THEOREM LinesRefineQueue == Spec => QueueSpec
BY LineQueueStep, PTL DEF Spec, Init, QueueSpec

\* Nor do arcs break them: a queued line that waits for an arc is not lost or dispatched
\* twice, and the stop that ends the arc forgets them all (motion_api.c:717).
THEOREM ArcsRefineQueue == ArcSpec => QueueSpec
BY ArcQueueStep, PTL DEF ArcSpec, ArcInit, Init, QueueSpec

\* Nor does homing (motion_api.c:717).
THEOREM HomingRefinesQueue == HomeSpec => QueueSpec
BY HomeQueueStep, PTL DEF HomeSpec, HomeInit, Init, QueueSpec

LEMMA ArcQueueTypes == ArcSpec => []QueueTypes
<1>1. ArcInit => QueueTypes
  BY NoneQueued DEF ArcInit, Init, QueueInit, QueueTypes
<1>2. QueueTypes /\ [ArcNext]_arcVars => QueueTypes'
  BY ArcQueueStep, QueueStepTypes
<1> QED BY <1>1, <1>2, PTL DEF ArcSpec

\* Only a pass that leaves no arc takes a segment from the queue and every axis into it.
LEMMA TakenAfterArc ==
  ASSUME ArcTyped, QueueTypes, [ArcNext]_arcVars, queue # <<>>, queue' = Tail(queue),
         \A a \in XY : axis[a].asked = "arc",
         \A a \in Axes : axis'[a].asked = "line"
  PROVE  ArcPass /\ ~g_arc'.active
<1>0. queue' # queue /\ \A seg \in Segments : queue' # Append(queue, seg)
  BY TailShorter
<1>1. ~UNCHANGED qvars /\ ~UNCHANGED arcVars
  BY <1>0 DEF qvars, arcVars, vars
<1>2. ~ArcQueueCommand
  BY <1>0 DEF ArcQueueCommand, QueueCommand, Put, Pause, Resume
<1>3. ASSUME NEW smooth \in Smooth, ArcAbort(smooth) PROVE FALSE
  <2> DEFINE s == IF g_arc.active THEN Arc_Abort(axis) ELSE axis
  <2>1. 0 \in Axes /\ AllSound(axis)
    BY LineAssumption DEF Axes, ArcTyped
  <2>2. s[0] \in AnyAxis
    BY <2>1, ArcAbortSound DEF AllSound
  <2> HIDE DEF s
  <2>3. axis'[0] \in Stopped(s[0], direction[0], smooth)
    BY <1>3, <2>1 DEF ArcAbort, Outcomes, s
  <2>4. axis'[0].asked # "line"
    <3>1. PICK x \in StopOne(s[0], smooth) :
            axis'[0] = IF direction[0] = -1 /\ ~Moving(s[0]) /\ Moving(x)
                       THEN [x EXCEPT !.dir = -1, !.goal = 2 * x.pos - x.goal] ELSE x
      BY <2>3 DEF Stopped
    <3>2. Sound(x) /\ x.asked \in {"stop", "slowed"}
      BY <2>2, StopFields
    <3>3. axis'[0] = x \/ \E g : axis'[0] = [x EXCEPT !.dir = -1, !.goal = g]
      BY <3>1
    <3> QED BY <2>2, <2>3, <3>2, <3>3 DEF Sound, AnyAxis
  <2> QED BY <2>1, <2>4
<1>4. ArcPass
  BY <1>1, <1>2, <1>3
     DEF ArcNext, StartArc, ArcLine, ArcLineLoops, ArcMoveTo, ArcStop, ArcHalt,
         ArcResetDone, ArcSpin, Line, LineLoops, MoveTo, Halt, ResetDone,
         arcVars, vars, qvars
<1> QED BY <1>1, <1>4, ArcPassQueue

\* A queued line starts where the arc before it ended: not further from its end than the
\* drive's lag, a last cycle and what the end may lie beside the circle.
THEOREM QueueWaitsForArcs == ArcSpec => QueueWaitsForArc
<1>1. ASSUME ArcTyped, ArcIInv, QueueTypes, [ArcNext]_arcVars,
             \A a \in XY : axis[a].asked = "arc" /\ Close(a),
             queue # <<>>, queue' = Tail(queue),
             \A a \in Axes : axis'[a].asked = "line" /\ ~axis'[a].fault,
             NEW a \in XY
      PROVE  Abs(axis'[a].actual_pos - g_arc.shape.to[a]) <= 2 * Speed + 1 + Landing
  BY <1>1, TakenAfterArc, ArcPassReaches
<1>2. ArcTyped /\ ArcIInv /\ QueueTypes /\ [ArcNext]_arcVars
      => [/\ \A a \in XY : axis[a].asked = "arc" /\ Close(a)
          /\ queue # <<>> /\ queue' = Tail(queue)
          /\ \A a \in Axes : axis'[a].asked = "line" /\ ~axis'[a].fault
          => \A a \in XY : Abs(axis'[a].actual_pos - g_arc.shape.to[a])
                             <= 2 * Speed + 1 + Landing]_arcVars
  BY <1>1
<1> QED BY <1>2, ArcInvariance, ArcQueueTypes, PTL DEF ArcSpec, QueueWaitsForArc
=============================================================================
