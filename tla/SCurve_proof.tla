---------------------------- MODULE SCurve_proof ----------------------------
(***************************************************************************)
(* Proofs about the S-curve planner, from the loops of SCurve_Plan and     *)
(* SCurve_Stop up to the specification:                                    *)
(*   - counted loops and loops with a condition return what their bodies   *)
(*     keep, although no induction principle is at hand: a counterexample  *)
(*     would have a least one;                                             *)
(*   - the stages of an acceleration (Rise1, Rise2, Rise3) and of a        *)
(*     deceleration (Fall1, Fall2, Fall3), cycle by cycle; a deceleration  *)
(*     takes all of the velocity away but a remainder;                     *)
(*   - what SCurve_Plan computes for a displacement (ProfileFacts);        *)
(*   - the type invariant, the sign of the acceleration, no jumps;         *)
(*   - the planner follows the simulation its plan or its stop ran, and so *)
(*     ends where that said it would.                                      *)
(***************************************************************************)
EXTENDS SCurve, TLAPS, WellFoundedInduction

LEMMA LeastNatural ==
  ASSUME NEW S, S \subseteq Nat, S # {}
  PROVE  \E n \in S : \A k \in S : n <= k
<1>1. IsWellFoundedOn(OpToRel(<, Nat), Nat)
  BY NatLessThanWellFounded
<1>2. PICK n \in S : \A k \in S : ~(<<k, n>> \in OpToRel(<, Nat))
  <2> DEFINE R == OpToRel(<, Nat)
  <2>1. IsWellFoundedOn(R, Nat)
    BY <1>1
  <2> HIDE DEF R
  <2>2. \E n \in S : \A k \in S : ~(<<k, n>> \in R)
    BY <2>1, WFMin
  <2> QED BY <2>2 DEF R
<1>3. \A k \in S : n <= k
  <2> TAKE k \in S
  <2>1. ~(k < n)
    BY <1>2 DEF OpToRel
  <2> QED BY <2>1
<1> QED BY <1>3

\* The two halves of a number of cycles are shorter than it.
LEMMA Halves ==
  ASSUME NEW k \in Nat, k > 1
  PROVE  /\ k \div 2 \in 0..(k - 1) /\ k - k \div 2 \in 0..(k - 1)
         /\ k \div 2 \in Nat /\ k - k \div 2 \in Nat
OBVIOUS

\* The value of the recursion for k, from those for its halves in h.
Power1(f, h, k) ==
  IF k = 0 THEN [s \in DOMAIN f |-> s] ELSE IF k = 1 THEN f
  ELSE [s \in DOMAIN f |-> h[k - k \div 2][h[k \div 2][s]]]

\* h holds the powers of f up to the n-th.
PowersTo(f, h, n) ==
  h \in [0..n -> [DOMAIN f -> DOMAIN f]] /\ \A k \in 0..n : h[k] = Power1(f, h, k)

LEMMA Power1Local ==
  ASSUME NEW f, NEW h, NEW i, NEW k \in Nat, \A j \in 0..(k - 1) : h[j] = i[j]
  PROVE  Power1(f, h, k) = Power1(f, i, k)
BY Halves DEF Power1

LEMMA Power1Type ==
  ASSUME NEW D, NEW f \in [D -> D], NEW h, NEW k \in Nat,
         \A j \in 0..(k - 1) : h[j] \in [D -> D]
  PROVE  Power1(f, h, k) \in [D -> D]
<1>1. DOMAIN f = D
  OBVIOUS
<1>2. CASE k <= 1
  BY <1>1, <1>2 DEF Power1
<1>3. CASE k > 1
  <2>1. h[k - k \div 2] \in [D -> D] /\ h[k \div 2] \in [D -> D]
    BY <1>3, Halves
  <2> QED BY <1>1, <1>3, <2>1 DEF Power1
<1> QED BY <1>2, <1>3

LEMMA PowersExist ==
  ASSUME NEW D, NEW f \in [D -> D], NEW n \in Nat
  PROVE  \E h : PowersTo(f, h, n)
<1> DEFINE Bad == {m \in Nat : ~ \E h : PowersTo(f, h, m)}
<1> SUFFICES ASSUME Bad # {} PROVE FALSE
  OBVIOUS
<1>1. PICK m \in Bad : \A k \in Bad : m <= k
  BY LeastNatural
<1>d. DOMAIN f = D
  OBVIOUS
<1>2. PICK h : h \in [0..(m - 1) -> [D -> D]] /\ \A k \in 0..(m - 1) : h[k] = Power1(f, h, k)
  <2>1. CASE m = 0
    <3>1. [k \in 0..(m - 1) |-> f] \in [0..(m - 1) -> [D -> D]] /\ 0..(m - 1) = {}
      BY <2>1
    <3> QED BY <3>1
  <2>2. CASE m # 0
    <3>1. m - 1 \in Nat /\ m - 1 \notin Bad
      BY <1>1, <2>2
    <3> QED BY <3>1, <1>d DEF PowersTo
  <2> QED BY <2>1, <2>2
<1> DEFINE i == [k \in 0..m |-> IF k = m THEN Power1(f, h, m) ELSE h[k]]
<1>3. m \in Nat
  BY <1>1
<1>4. \A k \in 0..(m - 1) : i[k] = h[k] /\ k \in 0..m
  BY <1>3
<1>5. Power1(f, h, m) \in [D -> D]
  BY <1>2, <1>3, Power1Type
<1>6. i \in [0..m -> [D -> D]]
  <2>1. \A k \in 0..m : k # m => k \in 0..(m - 1)
    BY <1>3
  <2> QED BY <2>1, <1>2, <1>5
<1>7. \A k \in 0..m : i[k] = Power1(f, i, k)
  <2> SUFFICES ASSUME NEW k \in 0..m PROVE i[k] = Power1(f, i, k)
    OBVIOUS
  <2>1. k \in Nat /\ \A j \in 0..(k - 1) : h[j] = i[j]
    BY <1>3, <1>4
  <2> HIDE DEF i
  <2>2. Power1(f, h, k) = Power1(f, i, k)
    BY <2>1, Power1Local
  <2>3. i[k] = Power1(f, h, k)
    <3>1. CASE k = m
      BY <3>1 DEF i
    <3>2. CASE k # m
      <4>1. k \in 0..(m - 1)
        BY <3>2, <1>3
      <4> QED BY <4>1, <1>4, <1>2
    <3> QED BY <3>1, <3>2
  <2> QED BY <2>2, <2>3
<1> HIDE DEF i
<1>8. PowersTo(f, i, m)
  BY <1>6, <1>7, <1>d DEF PowersTo
<1> QED BY <1>1, <1>8

LEMMA PowersAgree ==
  ASSUME NEW f, NEW h, NEW i, NEW m \in Nat, NEW n \in Nat, m <= n,
         PowersTo(f, h, m), PowersTo(f, i, n), NEW k \in 0..m
  PROVE  h[k] = i[k]
<1> DEFINE Bad == {j \in 0..m : h[j] # i[j]}
<1> SUFFICES ASSUME Bad # {} PROVE FALSE
  OBVIOUS
<1>0. Bad \subseteq Nat
  OBVIOUS
<1>1. PICK j \in Bad : \A l \in Bad : j <= l
  <2> HIDE DEF Bad
  <2> QED BY <1>0, LeastNatural
<1>2. j \in 0..m /\ j \in 0..n /\ j \in Nat
  BY <1>1
<1>3. \A l \in 0..(j - 1) : h[l] = i[l]
  BY <1>1
<1>4. Power1(f, h, j) = Power1(f, i, j)
  BY <1>2, <1>3, Power1Local
<1>5. h[j] = Power1(f, h, j) /\ i[j] = Power1(f, i, j)
  BY <1>2 DEF PowersTo
<1> QED BY <1>1, <1>4, <1>5

\* The recursion that defines Power has a solution, of functions from D to D.
LEMMA PowerDef ==
  ASSUME NEW D, NEW f \in [D -> D]
  PROVE  /\ Power(f) \in [Nat -> [D -> D]]
         /\ \A k \in Nat : Power(f)[k] = Power1(f, Power(f), k)
<1> DEFINE H(n) == CHOOSE h : PowersTo(f, h, n)
           g == [k \in Nat |-> H(k)[k]]
<1>d. DOMAIN f = D
  OBVIOUS
<1>1. \A n \in Nat : PowersTo(f, H(n), n)
  BY PowersExist
<1> HIDE DEF H
<1>2. \A k \in Nat : H(k) \in [0..k -> [D -> D]]
  BY <1>1, <1>d DEF PowersTo
<1>3. \A k \in Nat : k \in 0..k
  OBVIOUS
<1>4. g \in [Nat -> [D -> D]]
  BY <1>2, <1>3
<1>5. \A k \in Nat : g[k] = Power1(f, g, k)
  <2> TAKE k \in Nat
  <2>1. \A j \in 0..(k - 1) : H(k)[j] = g[j]
    <3> TAKE j \in 0..(k - 1)
    <3>1. j \in Nat /\ j <= k /\ j \in 0..j
      OBVIOUS
    <3>2. H(j)[j] = H(k)[j]
      BY <3>1, <1>1, PowersAgree
    <3> QED BY <3>1, <3>2
  <2>2. g[k] = H(k)[k] /\ H(k)[k] = Power1(f, H(k), k)
    BY <1>1, <1>3 DEF PowersTo
  <2> HIDE DEF g
  <2>3. Power1(f, H(k), k) = Power1(f, g, k)
    BY <2>1, Power1Local
  <2> QED BY <2>2, <2>3
<1>6. g = [k \in Nat |-> Power1(f, g, k)]
  <2>1. g = [k \in Nat |-> g[k]]
    BY <1>4
  <2> QED BY <1>5, <2>1
<1>7. Power(f) = CHOOSE h : h = [k \in Nat |-> Power1(f, h, k)]
  BY DEF Power, Power1
<1> HIDE DEF g
<1>8. Power(f) = [k \in Nat |-> Power1(f, Power(f), k)]
  BY <1>6, <1>7
<1>9. \A k \in Nat : Power(f)[k] = Power1(f, Power(f), k)
  BY <1>8
<1>10. \A k \in Nat : Power(f)[k] = g[k]
  <2> DEFINE Bad == {k \in Nat : Power(f)[k] # g[k]}
  <2> SUFFICES ASSUME Bad # {} PROVE FALSE
    OBVIOUS
  <2>1. PICK j \in Bad : \A l \in Bad : j <= l
    BY LeastNatural
  <2>2. j \in Nat /\ \A l \in 0..(j - 1) : Power(f)[l] = g[l]
    BY <2>1
  <2>3. Power1(f, Power(f), j) = Power1(f, g, j)
    BY <2>2, Power1Local
  <2> QED BY <2>1, <2>2, <2>3, <1>5, <1>9
<1>11. Power(f) = g
  BY <1>4, <1>8, <1>10
<1> QED BY <1>4, <1>9, <1>11

\* A set of naturals that contains 0 and every successor contains them all.
LEMMA SetInduction ==
  ASSUME NEW S, 0 \in S, \A n \in Nat : n \in S => n + 1 \in S
  PROVE  Nat \subseteq S
<1> SUFFICES ASSUME Nat \ S # {} PROVE FALSE
  OBVIOUS
<1>1. PICK n \in Nat \ S : \A k \in Nat \ S : n <= k
  BY LeastNatural
<1>2. n # 0
  BY <1>1
<1>3. n - 1 \in Nat
  BY <1>1, <1>2
<1>4. n - 1 \in S
  BY <1>1, <1>3
<1>5. (n - 1) + 1 = n
  BY <1>1
<1> QED
  BY <1>1, <1>3, <1>4, <1>5

\* The powers of f and f commute.
LEMMA PowersCommute ==
  ASSUME NEW D, NEW f \in [D -> D], NEW n \in Nat, NEW s \in D
  PROVE  Power(f)[n][f[s]] = f[Power(f)[n][s]]
<1> DEFINE P == Power(f)
           Bad == {k \in Nat : \E t \in D : P[k][f[t]] # f[P[k][t]]}
<1>d. DOMAIN f = D
  OBVIOUS
<1>1. P \in [Nat -> [D -> D]] /\ \A k \in Nat : P[k] = Power1(f, P, k)
  BY PowerDef
<1> HIDE DEF P
<1> SUFFICES ASSUME Bad # {} PROVE FALSE
  BY DEF P
<1>2. PICK k \in Bad : \A l \in Bad : k <= l
  BY LeastNatural
<1>3. k \in Nat /\ \A l \in 0..(k - 1) : \A t \in D : P[l][f[t]] = f[P[l][t]]
  BY <1>2
<1>4. CASE k <= 1
  <2>1. k \in Nat /\ P[k] = Power1(f, P, k)
    BY <1>1, <1>3
  <2>2. CASE k = 0
    <3>1. \A t \in D : P[k][t] = t
      BY <2>1, <2>2, <1>d DEF Power1
    <3>2. \A t \in D : f[t] \in D
      OBVIOUS
    <3> QED
      BY <1>2, <3>1, <3>2
  <2>3. CASE k = 1
    <3>1. P[k] = f
      BY <2>1, <2>3 DEF Power1
    <3> QED
      BY <1>2, <3>1
  <2> QED
    BY <1>3, <1>4, <2>2, <2>3
<1>5. CASE k > 1
  <2> DEFINE i == k \div 2
             j == k - k \div 2
  <2>1. i \in 0..(k - 1) /\ j \in 0..(k - 1) /\ i \in Nat /\ j \in Nat
    BY <1>3, <1>5, Halves
  <2>2. \A t \in D : P[k][t] = P[j][P[i][t]]
    <3>1. P[k] = [t \in D |-> P[j][P[i][t]]]
      <4>1. P[k] = Power1(f, P, k)
        BY <1>1, <1>3
      <4> QED BY <4>1, <1>5, <1>d, <1>3 DEF Power1
    <3> QED BY <3>1
  <2> HIDE DEF i, j
  <2>3. \A t \in D : P[i][t] \in D /\ f[t] \in D
    BY <2>1, <1>1
  <2>4. \A t \in D : P[k][f[t]] = f[P[k][t]]
    <3> TAKE t \in D
    <3>1. P[k][f[t]] = P[j][P[i][f[t]]]
      BY <2>2, <2>3
    <3>2. P[i][f[t]] = f[P[i][t]]
      BY <2>1, <1>3
    <3>3. P[j][f[P[i][t]]] = f[P[j][P[i][t]]]
      BY <2>1, <2>3, <1>3
    <3> QED BY <2>2, <3>1, <3>2, <3>3
  <2> QED BY <1>2, <2>4
<1> QED BY <1>3, <1>4, <1>5

LEMMA IterateFacts ==
  ASSUME NEW D, NEW f \in [D -> D], NEW s \in D
  PROVE  /\ Iterate(f, s, 0) = s
         /\ \A n \in Nat : /\ Iterate(f, s, n) \in D
                           /\ Iterate(f, s, n + 1) = f[Iterate(f, s, n)]
                           /\ Iterate(f, s, n + 1) = Iterate(f, f[s], n)
<1> DEFINE P == Power(f)
           Bad == {n \in Nat : \E t \in D : P[n + 1][t] # f[P[n][t]]}
<1>d. DOMAIN f = D
  OBVIOUS
<1>1. P \in [Nat -> [D -> D]] /\ \A k \in Nat : P[k] = Power1(f, P, k)
  BY PowerDef
<1>2. \A n \in Nat : \A t \in D : P[n][f[t]] = f[P[n][t]]
  BY PowersCommute
<1>3. \A n \in Nat : P[n] = Power(f)[n]
  OBVIOUS
<1> HIDE DEF P
<1>4. \A t \in D : P[0][t] = t /\ P[1][t] = f[t]
  BY <1>1, <1>d DEF Power1
<1>h. \A k \in Nat : k > 1 => P[k] = [t \in D |-> P[k - k \div 2][P[k \div 2][t]]]
  <2> TAKE k \in Nat
  <2> HAVE k > 1
  <2>1. P[k] = Power1(f, P, k)
    BY <1>1
  <2> QED BY <2>1, <1>d DEF Power1
<1>5. \A n \in Nat : \A t \in D : P[n + 1][t] = f[P[n][t]]
  <2> SUFFICES ASSUME Bad # {} PROVE FALSE
    OBVIOUS
  <2>1. PICK n \in Bad : \A l \in Bad : n <= l
    BY LeastNatural
  <2>2. n \in Nat /\ \A l \in Nat : l < n => \A t \in D : P[l + 1][t] = f[P[l][t]]
    BY <2>1
  <2>3. CASE n = 0
    BY <2>1, <2>3, <1>4
  <2>4. CASE n = 1
    <3>1. P[2] = [t \in D |-> P[2 - 2 \div 2][P[2 \div 2][t]]]
      BY <1>h
    <3>2. \A t \in D : P[2][t] = f[f[t]]
      BY <3>1, <1>4
    <3> QED BY <2>1, <2>4, <3>2, <1>4
  <2>5. CASE n > 1
    <3> DEFINE i == n \div 2
               j == n - n \div 2
    <3>1. i \in Nat /\ j \in Nat /\ i < n /\ j < n /\ i + j = n /\ n + 1 > 1
      BY <2>2, <2>5, Halves
    <3>2. \A t \in D : P[n][t] = P[j][P[i][t]]
      <4>1. P[n] = [t \in D |-> P[j][P[i][t]]]
        BY <1>h, <2>2, <2>5
      <4> QED BY <4>1
    <3>3. P[n + 1] = [t \in D |-> P[(n + 1) - (n + 1) \div 2][P[(n + 1) \div 2][t]]]
      BY <1>h, <2>2, <2>5
    <3>4. \/ (n + 1) \div 2 = i + 1 /\ (n + 1) - (n + 1) \div 2 = j
          \/ (n + 1) \div 2 = i /\ (n + 1) - (n + 1) \div 2 = j + 1
      BY <2>2, <2>5
    <3> HIDE DEF i, j
    <3>5. \A t \in D : P[i][t] \in D /\ f[t] \in D /\ P[j][t] \in D
      BY <3>1, <1>1
    <3>6. \A t \in D : P[n + 1][t] = f[P[n][t]]
      <4> TAKE t \in D
      <4>1. CASE (n + 1) \div 2 = i + 1 /\ (n + 1) - (n + 1) \div 2 = j
        <5>1. P[n + 1][t] = P[j][P[i + 1][t]]
          BY <3>3, <4>1
        <5>2. P[i + 1][t] = f[P[i][t]]
          BY <3>1, <2>2
        <5>3. P[j][f[P[i][t]]] = f[P[j][P[i][t]]]
          BY <3>1, <3>5, <1>2
        <5> QED BY <5>1, <5>2, <5>3, <3>2
      <4>2. CASE (n + 1) \div 2 = i /\ (n + 1) - (n + 1) \div 2 = j + 1
        <5>1. P[n + 1][t] = P[j + 1][P[i][t]]
          BY <3>3, <4>2
        <5>2. P[j + 1][P[i][t]] = f[P[j][P[i][t]]]
          BY <3>1, <3>5, <2>2
        <5> QED BY <5>1, <5>2, <3>2
      <4> QED BY <3>4, <4>1, <4>2
    <3> QED BY <2>1, <3>6
  <2> QED BY <2>2, <2>3, <2>4, <2>5
<1>6. \A n \in Nat : P[n][s] \in D
  BY <1>1
<1>7. f[s] \in D
  OBVIOUS
<1> QED BY <1>2, <1>3, <1>4, <1>5, <1>6, <1>7 DEF Iterate

LEMMA IterateZero ==
  ASSUME NEW D, NEW f \in [D -> D], NEW s \in D
  PROVE  Iterate(f, s, 0) = s
BY IterateFacts

LEMMA IterateType ==
  ASSUME NEW D, NEW f \in [D -> D], NEW s \in D, NEW n \in Nat
  PROVE  Iterate(f, s, n) \in D
BY IterateFacts

\* A loop of n + 1 cycles is one of n cycles and one more, at either end.
LEMMA IterateNext ==
  ASSUME NEW D, NEW f \in [D -> D], NEW s \in D, NEW n \in Nat
  PROVE  Iterate(f, s, n + 1) = f[Iterate(f, s, n)]
BY IterateFacts

LEMMA IterateFirst ==
  ASSUME NEW D, NEW f \in [D -> D], NEW s \in D, NEW n \in Nat
  PROVE  Iterate(f, s, n + 1) = Iterate(f, f[s], n)
BY IterateFacts

\* What every cycle keeps, a counted loop keeps.
LEMMA IterateKeeps ==
  ASSUME NEW D, NEW f \in [D -> D], NEW I, I \subseteq D, \A x \in I : f[x] \in I,
         NEW s \in I, NEW n \in Nat
  PROVE  Iterate(f, s, n) \in I
<1> DEFINE S == {k \in Nat : Iterate(f, s, k) \in I}
<1>0. s \in D
  OBVIOUS
<1>1. 0 \in S
  BY <1>0, IterateZero
<1>2. \A k \in Nat : k \in S => k + 1 \in S
  <2> TAKE k \in Nat
  <2> HAVE k \in S
  <2>1. Iterate(f, s, k) \in I /\ Iterate(f, s, k + 1) = f[Iterate(f, s, k)]
    BY <1>0, IterateNext
  <2> QED BY <2>1
<1> HIDE DEF S
<1>3. Nat \subseteq S
  BY <1>1, <1>2, SetInduction
<1> QED BY <1>3 DEF S

\* A loop that cannot run for ever returns a value, and satisfies its equation.
LEMMA WhileDef ==
  ASSUME NEW D, NEW f \in [D -> D], NEW C, NEW m \in [D -> Nat],
         \A x \in D : x \in C => m[f[x]] < m[x]
  PROVE  \A s \in D : /\ While(f, C)[s] \in D
                      /\ While(f, C)[s] = IF s \in C THEN While(f, C)[f[s]] ELSE s
<1> DEFINE It(s, n) == Iterate(f, s, n)
           Ends(s, n) == n \in Nat /\ It(s, n) \notin C
           K(s) == CHOOSE n \in Nat : Ends(s, n) /\ \A j \in Nat : Ends(s, j) => n <= j
           g == [s \in D |-> It(s, K(s))]
<1>0. DOMAIN f = D
  OBVIOUS
<1>1. \A s \in D : /\ It(s, 0) = s /\ f[s] \in D
                   /\ \A n \in Nat : It(s, n) \in D /\ It(s, n + 1) = It(f[s], n)
  <2> TAKE s \in D
  <2>1. It(s, 0) = s
    BY IterateZero
  <2>2. f[s] \in D
    OBVIOUS
  <2>3. \A n \in Nat : It(s, n) \in D
    BY IterateType
  <2>4. \A n \in Nat : It(s, n + 1) = It(f[s], n)
    BY IterateFirst
  <2> QED BY <2>1, <2>2, <2>3, <2>4
<1> HIDE DEF It
<1>2. \A s \in D : \E n \in Nat : Ends(s, n)
  <2> DEFINE Bad == {n \in Nat : \E s \in D : m[s] = n /\ \A k \in Nat : ~Ends(s, k)}
  <2> SUFFICES ASSUME Bad # {} PROVE FALSE
    OBVIOUS
  <2>1. PICK n \in Bad : \A l \in Bad : n <= l
    BY LeastNatural
  <2>2. PICK s \in D : m[s] = n /\ \A k \in Nat : ~Ends(s, k)
    BY <2>1
  <2>3. s \in C
    BY <1>1, <2>2
  <2>4. m[f[s]] < n /\ f[s] \in D /\ m[f[s]] \in Nat
    BY <1>1, <2>2, <2>3
  <2>5. PICK k \in Nat : Ends(f[s], k)
    BY <2>1, <2>4
  <2>6. Ends(s, k + 1)
    BY <1>1, <2>2, <2>5
  <2> QED BY <2>2, <2>6
<1>3. \A s \in D : /\ K(s) \in Nat /\ Ends(s, K(s))
                   /\ \A j \in Nat : Ends(s, j) => K(s) <= j
  <2> TAKE s \in D
  <2> DEFINE E == {n \in Nat : Ends(s, n)}
  <2>1. E # {} /\ E \subseteq Nat
    BY <1>2
  <2>2. \E n \in E : \A j \in E : n <= j
    <3> HIDE DEF E
    <3> QED BY <2>1, LeastNatural
  <2>3. \E n \in Nat : Ends(s, n) /\ \A j \in Nat : Ends(s, j) => n <= j
    BY <2>2
  <2> HIDE DEF Ends
  <2> QED BY <2>3
<1> HIDE DEF K
<1>4. \A s \in D : g[s] \in D /\ g[s] = IF s \in C THEN g[f[s]] ELSE s
  <2> TAKE s \in D
  <2>1. g[s] \in D
    BY <1>1, <1>3
  <2>2. CASE s \notin C
    <3>1. Ends(s, 0)
      BY <1>1, <2>2
    <3>2. K(s) = 0
      BY <1>3, <3>1
    <3> QED BY <1>1, <2>1, <2>2, <3>2
  <2>3. CASE s \in C
    <3>1. K(s) # 0
      BY <1>1, <1>3, <2>3
    <3>2. K(s) - 1 \in Nat /\ (K(s) - 1) + 1 = K(s)
      BY <1>3, <3>1
    <3>3. It(f[s], K(s) - 1) = It(s, K(s))
      BY <1>1, <3>2
    <3>4. K(f[s]) <= K(s) - 1
      <4>1. Ends(f[s], K(s) - 1)
        BY <1>3, <3>2, <3>3
      <4> QED BY <1>1, <1>3, <3>2, <4>1
    <3>5. K(s) <= K(f[s]) + 1
      <4>1. Ends(f[s], K(f[s])) /\ K(f[s]) \in Nat
        BY <1>1, <1>3
      <4>2. It(s, K(f[s]) + 1) = It(f[s], K(f[s]))
        BY <1>1, <4>1
      <4>3. Ends(s, K(f[s]) + 1)
        BY <4>1, <4>2
      <4> QED BY <1>3, <4>1, <4>3
    <3>6. K(f[s]) = K(s) - 1
      BY <1>1, <1>3, <3>4, <3>5
    <3>7. It(f[s], K(f[s])) = It(s, K(s)) /\ f[s] \in D
      BY <1>1, <3>3, <3>6
    <3> QED BY <2>1, <2>3, <3>7
  <2> QED BY <2>2, <2>3
<1>5. g = [s \in D |-> IF s \in C THEN g[f[s]] ELSE s]
  <2>1. g = [s \in D |-> g[s]]
    OBVIOUS
  <2> HIDE DEF g
  <2> QED BY <1>4, <2>1
<1> HIDE DEF g
<1> DEFINE Loop(h) == [s \in D |-> IF s \in C THEN h[f[s]] ELSE s]
<1>6. While(f, C) = CHOOSE h : h = Loop(h)
  BY <1>0 DEF While
<1>7. While(f, C) = Loop(While(f, C))
  <2>1. \E h : h = Loop(h)
    BY <1>5
  <2> HIDE DEF Loop
  <2> QED BY <1>6, <2>1
<1> DEFINE W == While(f, C)
<1>8. \A s \in D : W[s] = IF s \in C THEN W[f[s]] ELSE s
  BY <1>7
<1> HIDE DEF W
<1>9. \A s \in D : W[s] \in D
  <2> DEFINE Bad == {n \in Nat : \E s \in D : m[s] = n /\ W[s] \notin D}
  <2> SUFFICES ASSUME Bad # {} PROVE FALSE
    OBVIOUS
  <2>1. PICK n \in Bad : \A l \in Bad : n <= l
    BY LeastNatural
  <2>2. PICK s \in D : m[s] = n /\ W[s] \notin D
    BY <2>1
  <2>3. s \in C /\ W[s] = W[f[s]]
    BY <1>8, <2>2
  <2>4. m[f[s]] < n /\ f[s] \in D /\ m[f[s]] \in Nat
    BY <1>1, <2>2, <2>3
  <2> QED BY <2>1, <2>2, <2>3, <2>4
<1> QED BY <1>8, <1>9 DEF W

\* What the body keeps while it runs holds of the result, which is not in C.
Terminates(f, C, D, m) ==
  f \in [D -> D] /\ m \in [D -> Nat] /\ \A x \in D : x \in C => m[f[x]] < m[x]

Preserves(f, C, D, I) == I \subseteq D /\ \A x \in I : x \in C => f[x] \in I

LEMMA WhileKeeps ==
  ASSUME NEW D, NEW f, NEW C, NEW m, Terminates(f, C, D, m),
         NEW I, Preserves(f, C, D, I), NEW s \in I
  PROVE  While(f, C)[s] \in I \ C
<1> DEFINE W == While(f, C)
           Bad == {n \in Nat : \E t \in I : m[t] = n /\ W[t] \notin I \ C}
<1>0. f \in [D -> D] /\ m \in [D -> Nat] /\ \A x \in D : x \in C => m[f[x]] < m[x]
  BY DEF Terminates
<1>p. I \subseteq D /\ \A x \in I : x \in C => f[x] \in I
  BY DEF Preserves
<1>1. \A t \in D : W[t] \in D /\ W[t] = IF t \in C THEN W[f[t]] ELSE t
  BY <1>0, WhileDef
<1> SUFFICES ASSUME Bad # {} PROVE FALSE
  BY <1>0, <1>p
<1> HIDE DEF W
<1>2. PICK n \in Bad : \A l \in Bad : n <= l
  <2>1. Bad \subseteq Nat
    OBVIOUS
  <2> HIDE DEF Bad
  <2> QED BY <2>1, LeastNatural
<1>3. PICK t \in I : m[t] = n /\ W[t] \notin I \ C
  BY <1>2
<1>4. t \in C /\ W[t] = W[f[t]]
  BY <1>1, <1>3, <1>p
<1>5. m[f[t]] < n /\ f[t] \in I /\ m[f[t]] \in Nat
  BY <1>0, <1>p, <1>3, <1>4
<1> QED BY <1>2, <1>3, <1>4, <1>5

-----------------------------------------------------------------------------
\* A ramp of no cycles changes nothing.
LEMMA RampZero ==
  ASSUME NEW s \in SimState, NEW da \in Int, NEW lo \in Int, NEW hi \in Int, NEW mv \in Int
  PROVE  Ramp(s, 0, da, lo, hi, mv) = s
<1> DEFINE f == [r \in SimState |-> SimCycle(r, da, lo, hi, mv)]
<1>1. f \in [SimState -> SimState]
  BY DEF SimState, SimCycle, Clamp, AtLeast, AtMost
<1> HIDE DEF f
<1>2. Iterate(f, s, 0) = s
  BY <1>1, IterateZero
<1> QED
  BY <1>2 DEF Ramp, f

\* A ramp of n + 1 cycles is one of n cycles and one more.
LEMMA RampNext ==
  ASSUME NEW s \in SimState, NEW da \in Int, NEW lo \in Int, NEW hi \in Int, NEW mv \in Int,
         NEW n \in Nat
  PROVE  /\ Ramp(s, n, da, lo, hi, mv) \in SimState
         /\ Ramp(s, n + 1, da, lo, hi, mv)
              = SimCycle(Ramp(s, n, da, lo, hi, mv), da, lo, hi, mv)
<1> DEFINE f == [r \in SimState |-> SimCycle(r, da, lo, hi, mv)]
<1>1. f \in [SimState -> SimState]
  BY DEF SimState, SimCycle, Clamp, AtLeast, AtMost
<1>2. \A r \in SimState : f[r] = SimCycle(r, da, lo, hi, mv)
  OBVIOUS
<1>3. /\ Ramp(s, n, da, lo, hi, mv) = Iterate(f, s, n)
      /\ Ramp(s, n + 1, da, lo, hi, mv) = Iterate(f, s, n + 1)
  BY DEF Ramp
<1> HIDE DEF f
<1>4. Iterate(f, s, n) \in SimState
  BY <1>1, IterateType
<1>5. Iterate(f, s, n + 1) = f[Iterate(f, s, n)]
  BY <1>1, IterateNext
<1> QED
  BY <1>2, <1>3, <1>4, <1>5

\* The same for a constant deceleration.
FlatCycle(r, ma, mv) ==
  LET w == Clamp(r.vel - ma, 0, mv) IN [acc |-> r.acc, vel |-> w, pos |-> r.pos + w]

LEMMA FlatZero ==
  ASSUME NEW s \in SimState, NEW ma \in Int, NEW mv \in Int
  PROVE  Flat(s, 0, ma, mv) = s
<1> DEFINE f == [r \in SimState |-> FlatCycle(r, ma, mv)]
<1>1. f \in [SimState -> SimState]
  BY DEF SimState, FlatCycle, Clamp, AtLeast, AtMost
<1>2. Flat(s, 0, ma, mv) = Iterate(f, s, 0)
  BY DEF Flat, FlatCycle
<1> HIDE DEF f
<1>3. Iterate(f, s, 0) = s
  BY <1>1, IterateZero
<1> QED
  BY <1>2, <1>3

LEMMA FlatNext ==
  ASSUME NEW s \in SimState, NEW ma \in Int, NEW mv \in Int, NEW n \in Nat
  PROVE  /\ Flat(s, n, ma, mv) \in SimState
         /\ Flat(s, n + 1, ma, mv) = FlatCycle(Flat(s, n, ma, mv), ma, mv)
<1> DEFINE f == [r \in SimState |-> FlatCycle(r, ma, mv)]
<1>1. f \in [SimState -> SimState]
  BY DEF SimState, FlatCycle, Clamp, AtLeast, AtMost
<1>2. \A r \in SimState : f[r] = FlatCycle(r, ma, mv)
  OBVIOUS
<1>3. /\ Flat(s, n, ma, mv) = Iterate(f, s, n)
      /\ Flat(s, n + 1, ma, mv) = Iterate(f, s, n + 1)
  BY DEF Flat, FlatCycle
<1> HIDE DEF f
<1>4. Iterate(f, s, n) \in SimState
  BY <1>1, IterateType
<1>5. Iterate(f, s, n + 1) = f[Iterate(f, s, n)]
  BY <1>1, IterateNext
<1> QED
  BY <1>2, <1>3, <1>4, <1>5

-----------------------------------------------------------------------------
\* The three stages of an acceleration from rest with jerk time t and peak
\* t * J, after n cycles of the stage.
Rise1(t, J, M, n) == Ramp(Rest, n, J, 0, t * J, M)

Rise2(t, J, M, n) == Ramp(Rise1(t, J, M, t), n, 0, 0, t * J, M)

Rise3(t, ta, J, M, n) == Ramp(Rise2(t, J, M, ta), n, -J, 0, t * J, M)

LEMMA RestState == Rest \in SimState
BY DEF Rest, SimState

LEMMA Rise1Facts ==
  ASSUME NEW t \in Nat \ {0}, NEW J \in Nat \ {0}, NEW M \in Nat \ {0}
  PROVE  \A n \in 0..t :
           LET u == Rise1(t, J, M, n)
           IN  /\ u \in SimState /\ u.acc = n * J /\ u.vel \in 0..M
               /\ 2 * u.vel <= J * (n * (n + 1)) /\ u.pos >= u.vel /\ u.pos >= n
               /\ n > 0 => u.vel > 0
<1> DEFINE U(n) == Rise1(t, J, M, n)
           P(u, n) == /\ u \in SimState /\ u.acc = n * J /\ u.vel \in 0..M
                      /\ 2 * u.vel <= J * (n * (n + 1)) /\ u.pos >= u.vel /\ u.pos >= n
                      /\ n > 0 => u.vel > 0
           S == {n \in Nat : n <= t => P(U(n), n)}
<1>0. t * J \in Nat /\ -J \in Int
  OBVIOUS
<1>1. U(0) = Rest
  BY <1>0, RestState, RampZero DEF Rise1
<1>2. \A n \in Nat : U(n + 1) = SimCycle(U(n), J, 0, t * J, M)
  BY <1>0, RestState, RampNext DEF Rise1
<1> HIDE DEF U
<1>3. 0 \in S
  BY <1>1, RestState DEF Rest
<1>4. \A n \in Nat : n \in S => n + 1 \in S
  <2> SUFFICES ASSUME NEW n \in Nat, n + 1 <= t, P(U(n), n)
               PROVE  P(U(n + 1), n + 1)
    OBVIOUS
  <2> DEFINE u == U(n)
             a == (n + 1) * J
             v == AtMost(u.vel + a, M)
  <2>1. a = n * J + J /\ a <= t * J /\ a \in Nat /\ a > 0
    <3>1. n + 1 <= t /\ n + 1 \in Nat
      OBVIOUS
    <3>2. (n + 1) * J <= t * J
      BY <3>1
    <3> QED BY <3>2
  <2>2. u \in SimState /\ u.acc = n * J /\ u.vel \in 0..M /\ u.pos \in Int
        /\ 2 * u.vel <= J * (n * (n + 1)) /\ u.pos >= u.vel /\ u.pos >= n
    BY DEF SimState
  <2>3. J * ((n + 1) * (n + 2)) = J * (n * (n + 1)) + 2 * a
    OBVIOUS
  <2> HIDE DEF u, a
  <2>4. v \in 1..M /\ v <= u.vel + a
    BY <2>1, <2>2 DEF AtMost
  <2>5. SimCycle(u, J, 0, t * J, M) = [acc |-> a, vel |-> v, pos |-> u.pos + v]
    <3>1. Clamp(u.acc + J, 0, t * J) = a
      BY <1>0, <2>1, <2>2 DEF Clamp, AtLeast, AtMost
    <3>2. Clamp(u.vel + a, 0, M) = v
      BY <2>1, <2>2, <2>4 DEF Clamp, AtLeast, AtMost
    <3> QED BY <3>1, <3>2 DEF SimCycle
  <2>6. U(n + 1) = [acc |-> a, vel |-> v, pos |-> u.pos + v]
    BY <1>2, <2>5 DEF u
  <2> HIDE DEF v
  <2>7. /\ U(n + 1) \in SimState /\ U(n + 1).acc = a /\ U(n + 1).vel = v
        /\ U(n + 1).pos = u.pos + v
    BY <2>1, <2>2, <2>4, <2>6 DEF SimState
  <2>8. 2 * v <= J * ((n + 1) * (n + 2)) /\ u.pos + v >= v /\ u.pos + v >= n + 1
    BY <2>1, <2>2, <2>3, <2>4
  <2>9. (n + 1) + 1 = n + 2
    OBVIOUS
  <2> QED BY <2>4, <2>7, <2>8, <2>9 DEF a
<1> HIDE DEF S
<1>5. Nat \subseteq S
  BY <1>3, <1>4, SetInduction
<1>6. \A n \in 0..t : P(U(n), n)
  BY <1>5 DEF S
<1> QED BY <1>6 DEF U

LEMMA Rise2Facts ==
  ASSUME NEW t \in Nat \ {0}, NEW J \in Nat \ {0}, NEW M \in Nat \ {0}
  PROVE  \A n \in Nat :
           LET u == Rise2(t, J, M, n)
           IN  /\ u \in SimState /\ u.acc = t * J /\ u.vel \in 1..M
               /\ 2 * u.vel <= J * (t * (t + 1)) + 2 * (n * (t * J))
               /\ u.pos >= u.vel /\ u.pos >= t
<1> DEFINE A == t * J
           B == J * (t * (t + 1))
           U(n) == Rise2(t, J, M, n)
           P(u, n) == /\ u \in SimState /\ u.acc = A /\ u.vel \in 1..M
                      /\ 2 * u.vel <= B + 2 * (n * A)
                      /\ u.pos >= u.vel /\ u.pos >= t
           S == {n \in Nat : P(U(n), n)}
           U0 == Rise1(t, J, M, t)
<1>0. A \in Nat /\ B \in Nat
  OBVIOUS
<1>a. /\ U0 \in SimState /\ U0.acc = A /\ U0.vel \in 1..M /\ 2 * U0.vel <= B
      /\ U0.pos >= U0.vel /\ U0.pos >= t
  <2>1. t \in 0..t /\ t > 0
    OBVIOUS
  <2>2. LET u == Rise1(t, J, M, t)
        IN  /\ u \in SimState /\ u.acc = t * J /\ u.vel \in 0..M
            /\ 2 * u.vel <= J * (t * (t + 1)) /\ u.pos >= u.vel /\ u.pos >= t
            /\ t > 0 => u.vel > 0
    BY <2>1, Rise1Facts
  <2> HIDE DEF A, B
  <2>3. U0.vel \in 1..M
    BY <2>1, <2>2
  <2> QED BY <2>2, <2>3 DEF A, B
<1>1. U(0) = U0
  BY <1>0, <1>a, RampZero DEF Rise2
<1>2. \A n \in Nat : U(n + 1) = SimCycle(U(n), 0, 0, A, M)
  BY <1>0, <1>a, RampNext DEF Rise2
<1> HIDE DEF U, U0, B
<1>3. 0 \in S
  <2>1. 0 * A = 0
    OBVIOUS
  <2> QED BY <1>0, <1>1, <1>a, <2>1
<1>4. \A n \in Nat : n \in S => n + 1 \in S
  <2> SUFFICES ASSUME NEW n \in Nat, P(U(n), n)
               PROVE  P(U(n + 1), n + 1)
    OBVIOUS
  <2> DEFINE u == U(n)
             v == AtMost(u.vel + A, M)
  <2>1. (n + 1) * A = n * A + A
    OBVIOUS
  <2>2. u \in SimState /\ u.acc = A /\ u.vel \in 1..M /\ u.pos \in Int
        /\ 2 * u.vel <= B + 2 * (n * A) /\ u.pos >= u.vel /\ u.pos >= t
    BY DEF SimState
  <2>3. n * A \in Nat
    OBVIOUS
  <2> HIDE DEF u, A
  <2>4. v \in 1..M /\ v <= u.vel + A
    BY <1>0, <2>2 DEF AtMost
  <2>5. SimCycle(u, 0, 0, A, M) = [acc |-> A, vel |-> v, pos |-> u.pos + v]
    <3>1. Clamp(u.acc + 0, 0, A) = A
      BY <1>0, <2>2 DEF Clamp, AtLeast, AtMost
    <3>2. Clamp(u.vel + A, 0, M) = v
      BY <1>0, <2>2, <2>4 DEF Clamp, AtLeast, AtMost
    <3> QED BY <3>1, <3>2 DEF SimCycle
  <2>6. U(n + 1) = [acc |-> A, vel |-> v, pos |-> u.pos + v]
    BY <1>2, <2>5 DEF u
  <2> HIDE DEF v
  <2>7. /\ U(n + 1) \in SimState /\ U(n + 1).acc = A /\ U(n + 1).vel = v
        /\ U(n + 1).pos = u.pos + v
    BY <1>0, <2>2, <2>4, <2>6 DEF SimState
  <2>8. 2 * v <= B + 2 * ((n + 1) * A) /\ u.pos + v >= v /\ u.pos + v >= t
    BY <1>0, <2>1, <2>2, <2>3, <2>4
  <2> QED BY <2>4, <2>7, <2>8
<1> HIDE DEF S
<1>5. Nat \subseteq S
  BY <1>3, <1>4, SetInduction
<1>6. \A n \in Nat : P(U(n), n)
  BY <1>5 DEF S
<1> QED BY <1>6 DEF U, B

LEMMA Rise3Facts ==
  ASSUME NEW t \in Nat \ {0}, NEW ta \in Nat, NEW J \in Nat \ {0}, NEW M \in Nat \ {0}
  PROVE  \A n \in 0..t :
           LET u == Rise3(t, ta, J, M, n)
           IN  /\ u \in SimState /\ u.acc = (t - n) * J /\ u.vel \in 1..M
               /\ 2 * u.vel + J * ((t - n) * (t - n - 1)) <= 2 * ((t * J) * (t + ta))
               /\ u.pos >= u.vel /\ u.pos >= t
<1> DEFINE A == t * J
           B == 2 * ((t * J) * (t + ta))
           U(n) == Rise3(t, ta, J, M, n)
           P(u, n) == /\ u \in SimState /\ u.acc = (t - n) * J /\ u.vel \in 1..M
                      /\ 2 * u.vel + J * ((t - n) * (t - n - 1)) <= B
                      /\ u.pos >= u.vel /\ u.pos >= t
           S == {n \in Nat : n <= t => P(U(n), n)}
           U0 == Rise2(t, J, M, ta)
<1>0. A \in Nat /\ B \in Nat /\ -J \in Int
  OBVIOUS
<1>a. /\ U0 \in SimState /\ U0.acc = A /\ U0.vel \in 1..M
      /\ 2 * U0.vel <= J * (t * (t + 1)) + 2 * (ta * (t * J))
      /\ U0.pos >= U0.vel /\ U0.pos >= t
  BY Rise2Facts
<1>1. U(0) = U0
  BY <1>0, <1>a, RampZero DEF Rise3
<1>2. \A n \in Nat : U(n + 1) = SimCycle(U(n), -J, 0, A, M)
  BY <1>0, <1>a, RampNext DEF Rise3
<1> HIDE DEF U, U0
<1>3. 0 \in S
  <2>1. (t - 0) * J = A
    OBVIOUS
  <2>2. J * (t * (t + 1)) + 2 * (ta * (t * J)) + J * ((t - 0) * (t - 0 - 1)) = B
    OBVIOUS
  <2>3. J * (t * (t + 1)) \in Int /\ ta * (t * J) \in Int
        /\ J * ((t - 0) * (t - 0 - 1)) \in Int
    OBVIOUS
  <2>4. U0.vel \in Int
    BY <1>a
  <2>5. 2 * U0.vel + J * ((t - 0) * (t - 0 - 1)) <= B
    <3> HIDE DEF B
    <3> QED BY <1>a, <1>0, <2>2, <2>3, <2>4
  <2> HIDE DEF B, A
  <2> QED BY <1>1, <1>a, <2>1, <2>5
<1>4. \A n \in Nat : n \in S => n + 1 \in S
  <2> SUFFICES ASSUME NEW n \in Nat, n + 1 <= t, P(U(n), n)
               PROVE  P(U(n + 1), n + 1)
    OBVIOUS
  <2> DEFINE u == U(n)
             a == (t - (n + 1)) * J
             v == AtMost(u.vel + a, M)
             X(k) == J * ((t - k) * (t - k - 1))
  <2>1. a \in Nat /\ (t - n) * J - J = a /\ (t - n) * J \in Nat /\ (t - n) * J <= A
    <3>1. t - (n + 1) \in Nat /\ t - n \in Nat /\ t - n <= t
      OBVIOUS
    <3>2. a \in Nat /\ (t - n) * J \in Nat
      BY <3>1
    <3>3. (t - n) * J <= t * J
      BY <3>1
    <3>4. (t - n) * J - J = a
      OBVIOUS
    <3> QED BY <3>2, <3>3, <3>4
  <2>2. u \in SimState /\ u.acc = (t - n) * J /\ u.vel \in 1..M /\ u.pos \in Int
        /\ 2 * u.vel + X(n) <= B /\ u.pos >= u.vel /\ u.pos >= t
    BY DEF SimState
  <2>3. X(n) = X(n + 1) + 2 * a /\ X(n) \in Int /\ X(n + 1) \in Int
    <3>1. X(n) \in Int /\ X(n + 1) \in Int
      OBVIOUS
    <3>2. X(n) = X(n + 1) + 2 * a
      <4> DEFINE m == t - n
      <4>1. m \in Int /\ t - (n + 1) = m - 1 /\ t - (n + 1) - 1 = m - 2 /\ t - n - 1 = m - 1
        OBVIOUS
      <4> HIDE DEF m
      <4>2. J * (m * (m - 1)) = J * ((m - 1) * (m - 2)) + 2 * ((m - 1) * J)
        BY <4>1
      <4> QED BY <4>1, <4>2 DEF m
    <3> QED BY <3>1, <3>2
  <2> HIDE DEF u, a, A, B, X
  <2>4. v \in 1..M /\ v <= u.vel + a
    BY <2>1, <2>2 DEF AtMost
  <2>5. SimCycle(u, -J, 0, A, M) = [acc |-> a, vel |-> v, pos |-> u.pos + v]
    <3>1. Clamp(u.acc + (-J), 0, A) = a
      <4>1. u.acc \in Int /\ u.acc - J = a /\ u.acc <= A /\ a >= 0 /\ a <= A
        BY <2>1, <2>2, <1>0
      <4>2. u.acc + (-J) = a
        BY <4>1
      <4> QED BY <1>0, <4>1, <4>2 DEF Clamp, AtLeast, AtMost
    <3>2. Clamp(u.vel + a, 0, M) = v
      BY <1>0, <2>1, <2>2, <2>4 DEF Clamp, AtLeast, AtMost
    <3> QED BY <3>1, <3>2 DEF SimCycle
  <2>6. U(n + 1) = [acc |-> a, vel |-> v, pos |-> u.pos + v]
    BY <1>2, <2>5 DEF u
  <2> HIDE DEF v
  <2>7. /\ U(n + 1) \in SimState /\ U(n + 1).acc = a /\ U(n + 1).vel = v
        /\ U(n + 1).pos = u.pos + v
    BY <1>0, <2>1, <2>2, <2>4, <2>6 DEF SimState
  <2>8. 2 * v + X(n + 1) <= B /\ u.pos + v >= v /\ u.pos + v >= t
    BY <1>0, <2>1, <2>2, <2>3, <2>4
  <2> QED BY <2>4, <2>7, <2>8 DEF a, X
<1> HIDE DEF S
<1>5. Nat \subseteq S
  BY <1>3, <1>4, SetInduction
<1>6. \A n \in 0..t : P(U(n), n)
  BY <1>5 DEF S
<1> QED BY <1>6 DEF U

\* u ends an acceleration: without acceleration, and at a speed a deceleration of
\* the same times can take away.
Accelerated(u, t, ta, J, M) ==
  /\ u = Rise3(t, ta, J, M, t)
  /\ u \in SimState /\ u.acc = 0 /\ u.vel \in 1..M
  /\ u.vel <= (t * J) * (t + ta) /\ u.pos >= u.vel /\ u.pos >= t

LEMMA AccelFacts ==
  ASSUME NEW t \in Nat \ {0}, NEW ta \in Nat, NEW J \in Nat \ {0}, NEW M \in Nat \ {0}
  PROVE  Accelerated(SimAccelPhase(t, ta, t * J, J, M), t, ta, J, M)
<1> DEFINE u == Rise3(t, ta, J, M, t)
<1>1. SimAccelPhase(t, ta, t * J, J, M) = u
  BY DEF SimAccelPhase, Rise1, Rise2, Rise3
<1>2. t \in 0..t /\ (t - t) * J = 0 /\ J * ((t - t) * (t - t - 1)) = 0
  OBVIOUS
<1>3. /\ u \in SimState /\ u.acc = (t - t) * J /\ u.vel \in 1..M
      /\ 2 * u.vel + J * ((t - t) * (t - t - 1)) <= 2 * ((t * J) * (t + ta))
      /\ u.pos >= u.vel /\ u.pos >= t
  BY <1>2, Rise3Facts
<1> HIDE DEF u
<1>4. (t * J) * (t + ta) \in Int /\ u.vel \in Int
  BY <1>3
<1>5. u.vel <= (t * J) * (t + ta)
  <2> DEFINE c == (t * J) * (t + ta)
  <2>1. 2 * u.vel <= 2 * c
    BY <1>2, <1>3, <1>4
  <2> HIDE DEF c
  <2>2. u.vel <= c
    BY <1>4, <2>1 DEF c
  <2> QED BY <2>2 DEF c
<1> QED BY <1>1, <1>2, <1>3, <1>5 DEF u, Accelerated

\* A jerk up that reaches the speed limit is followed by cycles at that limit.
LEMMA SaturatedRise ==
  ASSUME NEW t \in Nat \ {0}, NEW J \in Nat \ {0}, NEW M \in Nat \ {0},
         Rise1(t, J, M, t).vel = M
  PROVE  LET u == SimAccelPhase(t, 0, t * J, J, M)
         IN  u.vel = M /\ u.pos = Rise1(t, J, M, t).pos + t * M
<1> DEFINE U(n) == Rise3(t, 0, J, M, n)
           U0 == Rise1(t, J, M, t)
           S == {n \in Nat : n <= t => U(n).vel = M /\ U(n).pos = U0.pos + n * M}
<1>0. 0 \in Nat /\ t * J \in Int /\ -J \in Int
  OBVIOUS
<1>1. U0 \in SimState
  <2>1. t \in 0..t
    OBVIOUS
  <2> QED BY <2>1, Rise1Facts
<1>2. Rise2(t, J, M, 0) = U0
  BY <1>0, <1>1, RampZero DEF Rise2
<1>3. U(0) = U0
  BY <1>0, <1>1, <1>2, RampZero DEF Rise3
<1>4. \A n \in Nat : U(n + 1) = SimCycle(U(n), -J, 0, t * J, M)
  BY <1>0, <1>1, <1>2, RampNext DEF Rise3
<1>5. \A n \in 0..t : U(n) \in SimState /\ U(n).acc = (t - n) * J
  <2> HIDE DEF U, U0, S
  <2>1. \A ta \in Nat : \A n \in 0..t :
          Rise3(t, ta, J, M, n) \in SimState /\ Rise3(t, ta, J, M, n).acc = (t - n) * J
    <3> TAKE ta \in Nat
    <3>1. \A n \in 0..t :
           LET u == Rise3(t, ta, J, M, n)
           IN  /\ u \in SimState /\ u.acc = (t - n) * J /\ u.vel \in 1..M
               /\ 2 * u.vel + J * ((t - n) * (t - n - 1)) <= 2 * ((t * J) * (t + ta))
               /\ u.pos >= u.vel /\ u.pos >= t
      BY Rise3Facts
    <3> QED BY <3>1
  <2> QED BY <2>1 DEF U
<1>p. U0.pos \in Int /\ U0.vel = M
  BY <1>1 DEF SimState
<1> HIDE DEF U, U0
<1>6. 0 \in S
  BY <1>3, <1>p
<1>7. \A n \in Nat : n \in S => n + 1 \in S
  <2> SUFFICES ASSUME NEW n \in Nat, n + 1 <= t, U(n).vel = M, U(n).pos = U0.pos + n * M
               PROVE  U(n + 1).vel = M /\ U(n + 1).pos = U0.pos + (n + 1) * M
    OBVIOUS
  <2> DEFINE a == Clamp(U(n).acc + (-J), 0, t * J)
  <2>1. n \in 0..t /\ n + 1 \in 0..t
    OBVIOUS
  <2> DEFINE v == Clamp(M + a, 0, M)
  <2>6. U(n + 1) = [acc |-> a, vel |-> v, pos |-> (U0.pos + n * M) + v]
    BY <1>4 DEF SimCycle
  <2>2. U(n + 1).vel = v /\ U(n + 1).pos = (U0.pos + n * M) + v
    BY <2>6
  <2>3. a >= 0 /\ a \in Int
    <3>1. U(n).acc \in Int /\ t * J \in Nat
      BY <2>1, <1>5 DEF SimState
    <3> QED BY <3>1 DEF Clamp, AtLeast, AtMost
  <2> HIDE DEF a
  <2>4. Clamp(M + a, 0, M) = M
    BY <2>3 DEF Clamp, AtLeast, AtMost
  <2>5. (U0.pos + n * M) + M = U0.pos + (n + 1) * M
    BY <1>p
  <2> QED BY <2>2, <2>4, <2>5
<1> HIDE DEF S
<1>8. Nat \subseteq S
  BY <1>6, <1>7, SetInduction
<1>9. U(t).vel = M /\ U(t).pos = U0.pos + t * M
  BY <1>8 DEF S
<1>10. Accelerated(SimAccelPhase(t, 0, t * J, J, M), t, 0, J, M)
  BY <1>0, AccelFacts
<1>11. SimAccelPhase(t, 0, t * J, J, M) = U(t)
  BY <1>10 DEF Accelerated, U
<1> QED BY <1>9, <1>11 DEF U0

-----------------------------------------------------------------------------
\* The three stages of a deceleration from velocity v, with n jerk cycles, td
\* cycles of constant deceleration, limit A and jerk J, after k cycles of the
\* stage.
Cruise(v) == [Rest EXCEPT !.vel = v]

Fall1(v, A, J, k) == Ramp(Cruise(v), k, -J, -A, 0, v)

Fall2(v, n, A, J, k) == Flat(Fall1(v, A, J, n), k, A, v)

Fall3(v, n, td, A, J, k) == Ramp(Fall2(v, n, A, J, td), k, J, -A, 0, v)

\* What every state of a deceleration from v satisfies.
Falling(u, v, A) ==
  u \in SimState /\ u.vel \in 0..v /\ u.acc \in (-A)..0 /\ u.pos \in Nat

LEMMA CruiseState ==
  ASSUME NEW v \in Nat, NEW A \in Nat
  PROVE  /\ Cruise(v) = [pos |-> 0, vel |-> v, acc |-> 0]
         /\ Falling(Cruise(v), v, A)
<1>1. Cruise(v) = [pos |-> 0, vel |-> v, acc |-> 0]
  BY DEF Cruise, Rest
<1>2. 0 \in (-A)..0
  OBVIOUS
<1> QED BY <1>1, <1>2 DEF Falling, SimState

\* r follows u by a cycle of a deceleration with the jerk da: the new velocity is
\* not above the old one.
Follows(r, u, da, v, A) ==
  /\ r.acc = Clamp(u.acc + da, -A, 0) /\ r.acc \in (-A)..0
  /\ r.vel = AtLeast(u.vel + r.acc, 0) /\ r.vel \in 0..u.vel
  /\ r.pos = u.pos + r.vel
  /\ Falling(u, v, A) /\ Falling(r, v, A)

LEMMA FallCycle ==
  ASSUME NEW v \in Nat, NEW A \in Nat, NEW da \in Int, NEW u, Falling(u, v, A)
  PROVE  Follows(SimCycle(u, da, -A, 0, v), u, da, v, A)
<1> DEFINE a == Clamp(u.acc + da, -A, 0)
           w == Clamp(u.vel + a, 0, v)
           r == SimCycle(u, da, -A, 0, v)
<1>1. u.vel \in 0..v /\ u.acc \in Int /\ u.pos \in Nat /\ -A \in Int /\ -A <= 0
  BY DEF Falling
<1>2. a \in (-A)..0
  BY <1>1 DEF Clamp, AtLeast, AtMost
<1>3. r = [acc |-> a, vel |-> w, pos |-> u.pos + w]
  BY DEF SimCycle
<1> HIDE DEF a, r
<1>4. w = AtLeast(u.vel + a, 0) /\ w \in 0..u.vel
  BY <1>1, <1>2 DEF Clamp, AtLeast, AtMost
<1>5. Falling(r, v, A)
  <2> HIDE DEF w
  <2>1. w \in Nat /\ w <= v /\ a \in Int
    BY <1>1, <1>2, <1>4
  <2>2. r.acc = a /\ r.vel = w /\ r.pos = u.pos + w /\ r \in SimState
    BY <1>1, <1>3, <2>1 DEF SimState
  <2> QED BY <1>1, <1>2, <2>1, <2>2 DEF Falling
<1> HIDE DEF w
<1>6. r.acc = a /\ r.vel = w /\ r.pos = u.pos + w
  BY <1>3
<1>7. Follows(r, u, da, v, A)
  BY <1>2, <1>4, <1>5, <1>6 DEF Follows, a
<1> QED BY <1>7 DEF r

\* Every state of a deceleration ramp is a state of a deceleration.
LEMMA FallRamp ==
  ASSUME NEW v \in Nat, NEW A \in Nat, NEW da \in Int, NEW s, Falling(s, v, A)
  PROVE  \A k \in Nat :
           /\ Falling(Ramp(s, k, da, -A, 0, v), v, A)
           /\ Follows(Ramp(s, k + 1, da, -A, 0, v), Ramp(s, k, da, -A, 0, v), da, v, A)
<1> DEFINE U(k) == Ramp(s, k, da, -A, 0, v)
           S == {k \in Nat : Falling(U(k), v, A)}
<1>0. s \in SimState /\ -A \in Int /\ 0 \in Int /\ v \in Int
  BY DEF Falling
<1>1. U(0) = s
  BY <1>0, RampZero
<1>2. \A k \in Nat : U(k + 1) = SimCycle(U(k), da, -A, 0, v)
  BY <1>0, RampNext
<1> HIDE DEF U
<1>3. 0 \in S
  BY <1>1
<1>4. \A k \in Nat : k \in S => k + 1 \in S
  <2> SUFFICES ASSUME NEW k \in Nat, Falling(U(k), v, A) PROVE Falling(U(k + 1), v, A)
    OBVIOUS
  <2>1. Follows(SimCycle(U(k), da, -A, 0, v), U(k), da, v, A)
    BY FallCycle
  <2> QED BY <1>2, <2>1 DEF Follows
<1> HIDE DEF S
<1>5. Nat \subseteq S
  BY <1>3, <1>4, SetInduction
<1>6. \A k \in Nat : Falling(U(k), v, A)
  BY <1>5 DEF S
<1>7. \A k \in Nat : Follows(U(k + 1), U(k), da, v, A)
  <2> TAKE k \in Nat
  <2>1. Follows(SimCycle(U(k), da, -A, 0, v), U(k), da, v, A)
    BY <1>6, FallCycle
  <2> QED BY <1>2, <2>1
<1> QED BY <1>6, <1>7 DEF U

LEMMA Fall1Facts ==
  ASSUME NEW v \in Nat, NEW A \in Nat, NEW J \in Nat
  PROVE  /\ Fall1(v, A, J, 0) = Cruise(v)
         /\ \A k \in Nat : /\ Falling(Fall1(v, A, J, k), v, A)
                           /\ Follows(Fall1(v, A, J, k + 1), Fall1(v, A, J, k), -J, v, A)
<1>1. Falling(Cruise(v), v, A) /\ Cruise(v) \in SimState
  BY CruiseState DEF Falling
<1>2. -J \in Int /\ -A \in Int /\ 0 \in Int /\ v \in Int
  OBVIOUS
<1>3. Fall1(v, A, J, 0) = Cruise(v)
  BY <1>1, <1>2, RampZero DEF Fall1
<1>4. \A k \in Nat :
        /\ Falling(Ramp(Cruise(v), k, -J, -A, 0, v), v, A)
        /\ Follows(Ramp(Cruise(v), k + 1, -J, -A, 0, v), Ramp(Cruise(v), k, -J, -A, 0, v),
                   -J, v, A)
  BY <1>1, <1>2, FallRamp
<1> QED BY <1>3, <1>4 DEF Fall1

\* u is what k cycles of constant deceleration make of s, and r follows it.
Glides(r, u, s, k, v, A) ==
  /\ Falling(u, v, A) /\ u.acc = s.acc
  /\ u.vel = 0 \/ u.vel + k * A = s.vel
  /\ r.acc = u.acc /\ r.vel = AtLeast(u.vel - A, 0) /\ r.pos = u.pos + r.vel

LEMMA Fall2Facts ==
  ASSUME NEW v \in Nat, NEW A \in Nat, NEW J \in Nat, NEW n \in Nat
  PROVE  /\ Fall2(v, n, A, J, 0) = Fall1(v, A, J, n)
         /\ \A k \in Nat : Glides(Fall2(v, n, A, J, k + 1), Fall2(v, n, A, J, k),
                                  Fall1(v, A, J, n), k, v, A)
<1> DEFINE s == Fall1(v, A, J, n)
           U(k) == Fall2(v, n, A, J, k)
           w(k) == AtLeast(U(k).vel - A, 0)
           P(u, k) == /\ Falling(u, v, A) /\ u.acc = s.acc
                      /\ u.vel = 0 \/ u.vel + k * A = s.vel
           S == {k \in Nat : P(U(k), k)}
<1>0. Falling(s, v, A) /\ s \in SimState
  BY Fall1Facts DEF Falling
<1>1. U(0) = s
  BY <1>0, FlatZero DEF Fall2
<1>2. \A k \in Nat : U(k + 1) = FlatCycle(U(k), A, v)
  BY <1>0, FlatNext DEF Fall2
<1> HIDE DEF U, s
<1>3. \A k \in Nat : Falling(U(k), v, A)
        => U(k + 1) = [acc |-> U(k).acc, vel |-> w(k), pos |-> U(k).pos + w(k)]
  <2> SUFFICES ASSUME NEW k \in Nat, Falling(U(k), v, A)
               PROVE U(k + 1) = [acc |-> U(k).acc, vel |-> w(k), pos |-> U(k).pos + w(k)]
    OBVIOUS
  <2>1. U(k).vel \in 0..v
    BY DEF Falling
  <2>2. Clamp(U(k).vel - A, 0, v) = w(k)
    BY <2>1 DEF Clamp, AtLeast, AtMost
  <2> QED BY <1>2, <2>2 DEF FlatCycle
<1>4. 0 \in S
  <2>1. s.vel \in Nat
    BY <1>0 DEF Falling
  <2> QED BY <1>0, <1>1, <2>1
<1>5. \A k \in Nat : k \in S => k + 1 \in S
  <2> SUFFICES ASSUME NEW k \in Nat, P(U(k), k) PROVE P(U(k + 1), k + 1)
    OBVIOUS
  <2> DEFINE u == U(k)
             x == w(k)
  <2>1. u.vel \in 0..v /\ u.acc \in (-A)..0 /\ u.acc = s.acc /\ u.pos \in Nat
        /\ (u.vel = 0 \/ u.vel + k * A = s.vel)
    BY DEF Falling
  <2>2. x \in 0..u.vel /\ (x = 0 \/ x = u.vel - A)
    BY <2>1 DEF AtLeast
  <2>3. (k + 1) * A = k * A + A /\ k * A \in Nat
    OBVIOUS
  <2>4. U(k + 1) = [acc |-> u.acc, vel |-> x, pos |-> u.pos + x]
    BY <1>3
  <2>5. s.vel \in Nat
    BY <1>0 DEF Falling
  <2> HIDE DEF u, x
  <2>6. x = 0 \/ x + (k + 1) * A = s.vel
    BY <2>1, <2>2, <2>3, <2>5
  <2>7. U(k + 1).acc = u.acc /\ U(k + 1).vel = x /\ U(k + 1).pos = u.pos + x
        /\ U(k + 1) \in SimState
    BY <2>1, <2>2, <2>4 DEF SimState
  <2>8. Falling(U(k + 1), v, A)
    BY <2>1, <2>2, <2>7 DEF Falling
  <2> QED BY <2>1, <2>6, <2>7, <2>8
<1> HIDE DEF S
<1>6. Nat \subseteq S
  BY <1>4, <1>5, SetInduction
<1>7. \A k \in Nat : P(U(k), k)
  BY <1>6 DEF S
<1>8. \A k \in Nat : Glides(U(k + 1), U(k), s, k, v, A)
  <2> TAKE k \in Nat
  <2>1. P(U(k), k)
    BY <1>7
  <2>2. U(k + 1) = [acc |-> U(k).acc, vel |-> w(k), pos |-> U(k).pos + w(k)]
    BY <1>3, <2>1
  <2> HIDE DEF w
  <2>3. U(k + 1).acc = U(k).acc /\ U(k + 1).vel = w(k) /\ U(k + 1).pos = U(k).pos + w(k)
    BY <2>2
  <2> QED BY <2>1, <2>3 DEF Glides, w
<1> QED BY <1>1, <1>8 DEF U, s

\* The constant deceleration keeps the acceleration the jerk has reached.
LEMMA Fall2Next ==
  ASSUME NEW v \in Nat, NEW A \in Nat, NEW J \in Nat, NEW n \in Nat, NEW k \in Nat
  PROVE  Glides(Fall2(v, n, A, J, k + 1), Fall2(v, n, A, J, k), Fall1(v, A, J, n), k, v, A)
BY Fall2Facts

LEMMA Fall3Facts ==
  ASSUME NEW v \in Nat, NEW A \in Nat, NEW J \in Nat, NEW n \in Nat, NEW td \in Nat
  PROVE  /\ Fall3(v, n, td, A, J, 0) = Fall2(v, n, A, J, td)
         /\ \A k \in Nat : /\ Falling(Fall3(v, n, td, A, J, k), v, A)
                           /\ Follows(Fall3(v, n, td, A, J, k + 1),
                                      Fall3(v, n, td, A, J, k), J, v, A)
<1> DEFINE s == Fall2(v, n, A, J, td)
<1>1. Falling(s, v, A) /\ s \in SimState
  <2>1. Glides(Fall2(v, n, A, J, td + 1), s, Fall1(v, A, J, n), td, v, A)
    BY Fall2Next
  <2> QED BY <2>1 DEF Glides, Falling
<1>2. J \in Int /\ -A \in Int /\ 0 \in Int /\ v \in Int
  OBVIOUS
<1> HIDE DEF s
<1>3. Ramp(s, 0, J, -A, 0, v) = s
  BY <1>1, <1>2, RampZero
<1>4. \A k \in Nat :
        /\ Falling(Ramp(s, k, J, -A, 0, v), v, A)
        /\ Follows(Ramp(s, k + 1, J, -A, 0, v), Ramp(s, k, J, -A, 0, v), J, v, A)
  BY <1>1, <1>2, FallRamp
<1> QED BY <1>3, <1>4 DEF Fall3, s

LEMMA Fall3Start ==
  ASSUME NEW v \in Nat, NEW A \in Nat, NEW J \in Nat, NEW n \in Nat, NEW td \in Nat
  PROVE  Fall3(v, n, td, A, J, 0) = Fall2(v, n, A, J, td)
BY Fall3Facts

\* One cycle of the last stage.
LEMMA Fall3Next ==
  ASSUME NEW v \in Nat, NEW A \in Nat, NEW J \in Nat, NEW n \in Nat, NEW td \in Nat,
         NEW k \in Nat
  PROVE  Follows(Fall3(v, n, td, A, J, k + 1), Fall3(v, n, td, A, J, k), J, v, A)
BY Fall3Facts

\* While the jerk lasts, the deceleration is k * J and the velocity lost is its sum.
LEMMA Fall1Slopes ==
  ASSUME NEW v \in Nat, NEW A \in Nat, NEW J \in Nat, NEW n \in Nat, n * J <= A
  PROVE  \A k \in 0..n :
           LET u == Fall1(v, A, J, k)
           IN  /\ u.acc = -(k * J)
               /\ u.vel = 0 \/ 2 * u.vel + J * (k * (k + 1)) <= 2 * v
<1> DEFINE U(k) == Fall1(v, A, J, k)
           X(k) == J * (k * (k + 1))
           P(u, k) == u.acc = -(k * J) /\ (u.vel = 0 \/ 2 * u.vel + X(k) <= 2 * v)
           S == {k \in Nat : k <= n => P(U(k), k)}
<1>1. /\ U(0) = Cruise(v)
      /\ \A k \in Nat : Follows(U(k + 1), U(k), -J, v, A)
  BY Fall1Facts
<1> HIDE DEF U
<1>2. 0 \in S
  <2>1. U(0).acc = 0 /\ U(0).vel = v /\ X(0) = 0 /\ -(0 * J) = 0
    BY <1>1, CruiseState
  <2> HIDE DEF X
  <2> QED BY <2>1
<1>3. \A k \in Nat : k \in S => k + 1 \in S
  <2> SUFFICES ASSUME NEW k \in Nat, k + 1 <= n, P(U(k), k)
               PROVE  P(U(k + 1), k + 1)
    OBVIOUS
  <2> DEFINE u == U(k)
             b == (k + 1) * J
             a == U(k + 1).acc
             w == U(k + 1).vel
  <2>1. Follows(U(k + 1), u, -J, v, A)
    BY <1>1
  <2>2. /\ a = Clamp(u.acc + (-J), -A, 0) /\ w = AtLeast(u.vel + a, 0) /\ u.vel \in Nat
    BY <2>1 DEF Follows, Falling
  <2>4. b = k * J + J /\ b <= A /\ b \in Nat /\ k * J \in Nat
    <3>1. (k + 1) * J <= n * J
      OBVIOUS
    <3>2. n * J \in Nat
      OBVIOUS
    <3> QED BY <3>1, <3>2
  <2>5. X(k + 1) = X(k) + 2 * b /\ X(k) \in Nat /\ X(k + 1) \in Nat
    <3>1. k + 1 + 1 = k + 2
      OBVIOUS
    <3>2. J * ((k + 1) * (k + 2)) = J * (k * (k + 1)) + 2 * ((k + 1) * J)
      OBVIOUS
    <3> QED BY <3>1, <3>2
  <2>6. u.acc = -(k * J) /\ (u.vel = 0 \/ 2 * u.vel + X(k) <= 2 * v) /\ u.vel \in Nat
    BY <2>2
  <2> HIDE DEF X, b, u
  <2>7. a = -b
    BY <2>2, <2>4, <2>6 DEF Clamp, AtLeast, AtMost
  <2>8. w = AtLeast(u.vel + a, 0)
    BY <2>2
  <2> HIDE DEF a, w
  <2>9. w = 0 \/ 2 * w + X(k + 1) <= 2 * v
    BY <2>4, <2>5, <2>6, <2>7, <2>8 DEF AtLeast
  <2> QED BY <2>7, <2>9 DEF a, b, w
<1> HIDE DEF S
<1>4. Nat \subseteq S
  BY <1>2, <1>3, SetInduction
<1>5. \A k \in 0..n : P(U(k), k)
  BY <1>4 DEF S
<1> QED BY <1>5 DEF U

LEMMA Fall1End ==
  ASSUME NEW v \in Nat, NEW A \in Nat, NEW J \in Nat, NEW n \in Nat, n * J <= A
  PROVE  Fall1(v, A, J, n).acc = -(n * J)
<1>1. n \in 0..n
  OBVIOUS
<1> QED BY <1>1, Fall1Slopes

\* In the last stage the deceleration falls off by J per cycle; C bounds the speed
\* that is left over when it is gone.
LEMMA Fall3Slopes ==
  ASSUME NEW v \in Nat, NEW A \in Nat, NEW J \in Nat, NEW n \in Nat, NEW td \in Nat,
         n * J <= A, NEW C \in Nat,
         2 * Fall2(v, n, A, J, td).vel <= 2 * C + J * (n * (n - 1))
  PROVE  \A k \in 0..n :
           LET u == Fall3(v, n, td, A, J, k)
           IN  u.acc = -((n - k) * J)
               /\ 2 * u.vel <= 2 * C + J * ((n - k) * (n - k - 1))
<1> DEFINE U(k) == Fall3(v, n, td, A, J, k)
           X(k) == J * ((n - k) * (n - k - 1))
           P(u, k) == u.acc = -((n - k) * J) /\ 2 * u.vel <= 2 * C + X(k)
           S == {k \in Nat : k <= n => P(U(k), k)}
<1>1. U(0) = Fall2(v, n, A, J, td)
  BY Fall3Start
<1>b. \A k \in Nat : Follows(U(k + 1), U(k), J, v, A)
  BY Fall3Next
<1>a. U(0).acc = -(n * J)
  <2>1. Fall2(v, n, A, J, td).acc = Fall1(v, A, J, n).acc
    <3>1. Glides(Fall2(v, n, A, J, td + 1), Fall2(v, n, A, J, td), Fall1(v, A, J, n),
                 td, v, A)
      BY Fall2Next
    <3> QED BY <3>1 DEF Glides
  <2>3. Fall1(v, A, J, n).acc = -(n * J)
    BY Fall1End
  <2> HIDE DEF U
  <2> QED BY <1>1, <2>1, <2>3
<1> HIDE DEF U
<1>2. 0 \in S
  <2>1. X(0) = J * (n * (n - 1)) /\ (n - 0) * J = n * J
    OBVIOUS
  <2> HIDE DEF X
  <2> QED BY <1>1, <1>a, <2>1
<1>3. \A k \in Nat : k \in S => k + 1 \in S
  <2> SUFFICES ASSUME NEW k \in Nat, k + 1 <= n, P(U(k), k)
               PROVE  P(U(k + 1), k + 1)
    OBVIOUS
  <2> DEFINE u == U(k)
             b == (n - (k + 1)) * J
             a == U(k + 1).acc
             w == U(k + 1).vel
  <2>1. Follows(U(k + 1), u, J, v, A)
    BY <1>b
  <2>2. /\ a = Clamp(u.acc + J, -A, 0) /\ w = AtLeast(u.vel + a, 0) /\ u.vel \in Nat
    BY <2>1 DEF Follows, Falling
  <2>4. (n - k) * J = b + J /\ b <= A /\ b \in Nat /\ (n - k) * J \in Nat
    <3>1. n - (k + 1) \in Nat /\ n - (k + 1) <= n
      OBVIOUS
    <3>2. b <= n * J /\ b \in Nat /\ n * J \in Nat
      BY <3>1
    <3>3. (n - k) * J = b + J
      OBVIOUS
    <3> QED BY <3>2, <3>3
  <2>5. X(k) = X(k + 1) + 2 * b /\ X(k) \in Nat /\ X(k + 1) \in Nat
    <3> DEFINE m == n - (k + 1)
    <3>1. m \in Nat /\ n - k = m + 1 /\ n - k - 1 = m /\ n - (k + 1) - 1 = m - 1
      OBVIOUS
    <3> HIDE DEF m
    <3>2. J * ((m + 1) * m) = J * (m * (m - 1)) + 2 * (m * J)
      BY <3>1
    <3>3. m * (m - 1) \in Nat
      <4>1. CASE m = 0
        BY <4>1
      <4>2. CASE m > 0
        <5>1. m - 1 \in Nat
          BY <3>1, <4>2
        <5> QED BY <3>1, <5>1
      <4> QED BY <3>1, <4>1, <4>2
    <3>4. J * ((m + 1) * m) \in Nat /\ J * (m * (m - 1)) \in Nat
      BY <3>1, <3>3
    <3>5. X(k) = J * ((m + 1) * m) /\ X(k + 1) = J * (m * (m - 1)) /\ b = m * J
      BY <3>1 DEF m
    <3> HIDE DEF X, b
    <3> QED BY <3>2, <3>4, <3>5
  <2>6. u.acc = -((n - k) * J) /\ 2 * u.vel <= 2 * C + X(k) /\ u.vel \in Nat
    BY <2>2
  <2> HIDE DEF X, b, u
  <2>7. a = -b
    BY <2>2, <2>4, <2>6 DEF Clamp, AtLeast, AtMost
  <2>8. w = AtLeast(u.vel + a, 0)
    BY <2>2
  <2> HIDE DEF a, w
  <2>9. 2 * w <= 2 * C + X(k + 1)
    BY <2>4, <2>5, <2>6, <2>7, <2>8 DEF AtLeast
  <2> QED BY <2>7, <2>9 DEF a, b, w
<1> HIDE DEF S
<1>4. Nat \subseteq S
  BY <1>2, <1>3, SetInduction
<1>5. \A k \in 0..n : P(U(k), k)
  BY <1>4 DEF S
<1> QED BY <1>5 DEF U

\* Once at rest, the last stage stays where it is.
AtRest(u) == u.vel = 0

RestsFrom(v, n, td, A, J, k) ==
  \A j \in Nat : AtRest(Fall3(v, n, td, A, J, k + j))
                 /\ Fall3(v, n, td, A, J, k + j).pos = Fall3(v, n, td, A, J, k).pos

LEMMA Fall3Rests ==
  ASSUME NEW v \in Nat, NEW A \in Nat, NEW J \in Nat, NEW n \in Nat, NEW td \in Nat,
         NEW k \in Nat, AtRest(Fall3(v, n, td, A, J, k))
  PROVE  RestsFrom(v, n, td, A, J, k)
<1> DEFINE U(j) == Fall3(v, n, td, A, J, k + j)
           x == Fall3(v, n, td, A, J, k).pos
           S == {j \in Nat : U(j).vel = 0 /\ U(j).pos = x}
<1>1. 0 \in S
  <2>1. k + 0 = k
    OBVIOUS
  <2> QED BY <2>1 DEF AtRest
<1>2. \A j \in Nat : j \in S => j + 1 \in S
  <2> SUFFICES ASSUME NEW j \in Nat, U(j).vel = 0, U(j).pos = x
               PROVE  U(j + 1).vel = 0 /\ U(j + 1).pos = x
    OBVIOUS
  <2>1. k + j \in Nat /\ (k + j) + 1 = k + (j + 1)
    OBVIOUS
  <2>2. /\ U(j + 1).vel \in 0..U(j).vel
        /\ U(j + 1).pos = U(j).pos + U(j + 1).vel /\ U(j).pos \in Nat
    <3> DEFINE i == k + j
    <3>1. i \in Nat
      BY <2>1
    <3> HIDE DEF i
    <3>2. Follows(Fall3(v, n, td, A, J, i + 1), Fall3(v, n, td, A, J, i), J, v, A)
      BY <3>1, Fall3Next
    <3> QED BY <2>1, <3>2 DEF i, Follows, Falling
  <2> HIDE DEF U, x
  <2> QED BY <2>2
<1> HIDE DEF S
<1>3. Nat \subseteq S
  BY <1>1, <1>2, SetInduction
<1> QED BY <1>3 DEF S, RestsFrom, AtRest

\* What the last stage still travels after its k-th cycle, in which the velocity
\* has fallen to the jerk or which is the last one.
LEMMA Undone ==
  ASSUME NEW v \in Nat, NEW A \in Nat, NEW J \in Nat, NEW n \in Nat, NEW td \in Nat,
         n * J <= A, NEW C \in Nat,
         2 * Fall2(v, n, A, J, td).vel <= 2 * C + J * (n * (n - 1)),
         NEW k \in 1..n, k = n \/ Fall3(v, n, td, A, J, k).vel <= J
  PROVE  LET left == Fall3(v, n, td, A, J, n).pos - Fall3(v, n, td, A, J, k - 1).pos
         IN  /\ left \in Nat
             /\ left <= C \/ left <= J \/ (left <= 2 * J /\ left <= 2 * C)
<1> DEFINE f(j) == Fall3(v, n, td, A, J, j)
           left == f(n).pos - f(k - 1).pos
<1>1. \A j \in 0..n : f(j).acc = -((n - j) * J)
                      /\ 2 * f(j).vel <= 2 * C + J * ((n - j) * (n - j - 1))
  BY Fall3Slopes
<1>2. ASSUME NEW j \in Nat
      PROVE  /\ f(j + 1).pos = f(j).pos + f(j + 1).vel /\ f(j).pos \in Nat
             /\ f(j + 1).vel = AtLeast(f(j).vel + f(j + 1).acc, 0) /\ f(j).vel \in Nat
             /\ f(j + 1).vel \in Nat
  <2>1. Follows(f(j + 1), f(j), J, v, A)
    BY Fall3Next
  <2> HIDE DEF f
  <2> QED BY <2>1 DEF Follows, Falling
<1>3. \A j, i \in Nat : f(j).vel = 0 => f(j + i).pos = f(j).pos
  <2> SUFFICES ASSUME NEW j \in Nat, NEW i \in Nat, f(j).vel = 0
               PROVE  f(j + i).pos = f(j).pos
    OBVIOUS
  <2>1. AtRest(Fall3(v, n, td, A, J, j))
    BY DEF AtRest
  <2>2. RestsFrom(v, n, td, A, J, j)
    BY <2>1, Fall3Rests
  <2> QED BY <2>2 DEF RestsFrom
<1> HIDE DEF f
<1>4. /\ k - 1 \in Nat /\ (k - 1) + 1 = k /\ k \in Nat /\ k \in 0..n /\ n \in 0..n
      /\ k # n => k + 1 \in 0..n
  OBVIOUS
<1>5. /\ f(k).pos = f(k - 1).pos + f(k).vel /\ f(k - 1).pos \in Nat
      /\ f(k).vel \in Nat
  BY <1>2, <1>4
<1>6. CASE k = n
  <2>1. J * ((n - n) * (n - n - 1)) = 0
    OBVIOUS
  <2>2. f(k).vel <= C
    BY <1>1, <1>4, <1>5, <1>6, <2>1
  <2> QED BY <1>5, <1>6, <2>2 DEF f
<1>7. CASE k # n
  <2>0. f(k).vel <= J
    BY <1>7 DEF f
  <2>1. /\ f(k + 1).pos = f(k).pos + f(k + 1).vel
        /\ f(k + 1).vel = AtLeast(f(k).vel + f(k + 1).acc, 0) /\ f(k + 1).vel \in Nat
        /\ f(k).pos \in Nat
    BY <1>2, <1>4
  <2>2. f(k + 1).acc = -((n - (k + 1)) * J)
    BY <1>1, <1>4, <1>7
  <2>3. CASE k + 1 = n
    <3>1. (n - (k + 1)) * J = 0 /\ J * ((n - k) * (n - k - 1)) = 0
      BY <2>3
    <3>2. f(k + 1).vel = f(k).vel
      BY <1>5, <2>1, <2>2, <3>1 DEF AtLeast
    <3>3. f(k).vel <= C
      <4> DEFINE x == J * ((n - k) * (n - k - 1))
      <4>1. 2 * f(k).vel <= 2 * C + x
        BY <1>1, <1>4
      <4>2. x = 0
        BY <3>1
      <4> HIDE DEF x
      <4> QED BY <1>5, <4>1, <4>2
    <3> QED BY <1>5, <2>0, <2>1, <2>3, <3>2, <3>3 DEF f
  <2>4. CASE k + 1 # n
    <3>1. n - (k + 1) \in Nat /\ n - (k + 1) >= 1
      BY <1>7, <2>4
    <3>2. (n - (k + 1)) * J >= J
      BY <3>1
    <3>3. f(k + 1).vel = 0
      <4> DEFINE b == (n - (k + 1)) * J
      <4>1. b \in Int /\ b >= J /\ f(k + 1).acc = -b
        BY <2>2, <3>1, <3>2
      <4> HIDE DEF b
      <4> QED BY <1>5, <2>0, <2>1, <4>1 DEF AtLeast
    <3>4. (k + 1) + (n - (k + 1)) = n /\ k + 1 \in Nat
      OBVIOUS
    <3>5. f(n).pos = f(k + 1).pos
      BY <1>3, <3>1, <3>3, <3>4
    <3> QED BY <1>5, <2>0, <2>1, <3>3, <3>5 DEF f
  <2> QED BY <2>3, <2>4
<1> QED BY <1>6, <1>7

\* A planned deceleration, from a speed its times can take away, ends within one
\* jerk of the distance that was simulated.
LEMMA PlannedUndone ==
  ASSUME NEW v \in Nat, NEW t \in Nat \ {0}, NEW J \in Nat \ {0}, NEW td \in Nat,
         v <= (t * J) * (t + td), NEW k \in 1..t,
         k = t \/ Fall3(v, t, td, t * J, J, k).vel <= J
  PROVE  Fall3(v, t, td, t * J, J, t).pos - Fall3(v, t, td, t * J, J, k - 1).pos \in 0..J
<1> DEFINE A == t * J
           w == Fall2(v, t, A, J, td).vel
           X == J * (t * (t - 1))
           Y == J * (t * (t + 1))
           z == td * A
           left == Fall3(v, t, td, A, J, t).pos - Fall3(v, t, td, A, J, k - 1).pos
<1>1. A \in Nat /\ t * J <= A /\ t \in 0..t
  OBVIOUS
<1>2. X \in Nat /\ Y \in Nat /\ z \in Nat /\ 2 * ((t * J) * (t + td)) = Y + X + 2 * z
  <2>1. t - 1 \in Nat
    OBVIOUS
  <2>2. X \in Nat /\ Y \in Nat /\ z \in Nat
    BY <2>1
  <2>3. 2 * ((t * J) * (t + td)) = Y + X + 2 * z
    OBVIOUS
  <2> QED BY <2>2, <2>3
<1>3. Fall1(v, A, J, t).vel = 0 \/ 2 * Fall1(v, A, J, t).vel + Y <= 2 * v
  <2> HIDE DEF A
  <2>1. \A i \in 0..t :
           LET u == Fall1(v, A, J, i)
           IN  /\ u.acc = -(i * J)
               /\ u.vel = 0 \/ 2 * u.vel + J * (i * (i + 1)) <= 2 * v
    BY <1>1, Fall1Slopes
  <2> QED BY <1>1, <2>1
<1>4. w \in Nat /\ (w = 0 \/ w + z = Fall1(v, A, J, t).vel)
  <2> HIDE DEF A
  <2>1. Glides(Fall2(v, t, A, J, td + 1), Fall2(v, t, A, J, td), Fall1(v, A, J, t), td, v, A)
    BY <1>1, Fall2Next
  <2> QED BY <2>1 DEF Glides, Falling
<1>5. 2 * w <= X
  <2> DEFINE c == (t * J) * (t + td)
             x1 == Fall1(v, A, J, t).vel
  <2>1. v <= c /\ 2 * c = Y + X + 2 * z /\ c \in Int
    BY <1>2
  <2>2. w = 0 \/ (w + z = x1 /\ (x1 = 0 \/ 2 * x1 + Y <= 2 * v))
    BY <1>3, <1>4
  <2>3. w \in Nat /\ X \in Nat /\ Y \in Nat /\ z \in Nat
    BY <1>2, <1>4
  <2> HIDE DEF c, w, X, Y, z, x1
  <2>4. CASE w = 0
    BY <2>3, <2>4
  <2>5. CASE w + z = x1 /\ x1 = 0
    BY <2>3, <2>5
  <2>6. CASE w + z = x1 /\ 2 * x1 + Y <= 2 * v
    BY <2>1, <2>3, <2>6
  <2> QED BY <2>2, <2>4, <2>5, <2>6
<1>6. left \in Nat /\ (left <= 0 \/ left <= J \/ (left <= 2 * J /\ left <= 2 * 0))
  <2>1. 0 \in Nat /\ 2 * w <= 2 * 0 + J * (t * (t - 1))
    BY <1>5
  <2>2. k = t \/ Fall3(v, t, td, A, J, k).vel <= J
    OBVIOUS
  <2> HIDE DEF A
  <2> QED BY <1>1, <2>1, <2>2, Undone
<1> HIDE DEF left
<1>7. left \in 0..J
  BY <1>6
<1> QED BY <1>7 DEF left

\* The velocity after the jerk of a stop, and the velocity its last stage takes away.
AfterJerk(v, A, J) == Fall1(v, A, J, StopTj2(A, J)).vel

StopEntry(A, J) == LET n == StopTj2(A, J) IN A * n - (J * n * (n - 1)) \div 2

LEMMA StopFields ==
  ASSUME NEW v \in Nat, NEW A \in Nat \ {0}, NEW J \in Nat \ {0}
  PROVE  /\ StopTj2(A, J) \in Nat \ {0}
         /\ StopTd(v, A, J) = AtLeast(AfterJerk(v, A, J) - StopEntry(A, J), 0) \div A
         /\ StopTd(v, A, J) \in Nat
         /\ StopDist(v, A, J)
              = Fall3(v, StopTj2(A, J), StopTd(v, A, J), A, J, StopTj2(A, J)).pos
         /\ StopDist(v, A, J) \in Nat
<1> DEFINE n == StopTj2(A, J)
           td == StopTd(v, A, J)
           x == J * n * (n - 1)
           e == x \div 2
           d == AtLeast(AfterJerk(v, A, J) - StopEntry(A, J), 0)
<1>1. n \in Nat \ {0}
  <2>1. A \div J \in Nat
    OBVIOUS
  <2> DEFINE q == A \div J
  <2> HIDE DEF q
  <2>2. AtLeast(q, 1) \in Nat \ {0}
    BY <2>1 DEF AtLeast, q
  <2> QED BY <2>2 DEF StopTj2, q
<1>2. td = d \div A
  BY DEF StopTd, AfterJerk, StopEntry, Fall1, Cruise
<1> HIDE DEF n
<1>3. AfterJerk(v, A, J) \in Nat
  <2>1. Falling(Fall1(v, A, J, n), v, A)
    BY <1>1, Fall1Facts
  <2> QED BY <2>1 DEF Falling, AfterJerk, n
<1>4. d \in Nat
  <2>1. n - 1 \in Nat
    BY <1>1
  <2>2. x \in Nat
    BY <1>1, <2>1
  <2> HIDE DEF x
  <2>3. e \in Nat
    BY <2>2
  <2> HIDE DEF e
  <2>4. StopEntry(A, J) = A * n - e
    BY DEF StopEntry, n, e, x
  <2>5. StopEntry(A, J) \in Int
    BY <1>1, <2>3, <2>4
  <2> QED BY <1>3, <2>5 DEF AtLeast
<1> HIDE DEF d
<1>5. td \in Nat
  BY <1>2, <1>4
<1>6. StopDist(v, A, J) = Fall3(v, n, td, A, J, n).pos
  BY DEF StopDist, Fall3, Fall2, Fall1, Cruise, n
<1> HIDE DEF td
<1>7. Fall3(v, n, td, A, J, n).pos \in Nat
  <2>1. Follows(Fall3(v, n, td, A, J, n + 1), Fall3(v, n, td, A, J, n), J, v, A)
    BY <1>1, <1>5, Fall3Next
  <2> QED BY <2>1 DEF Follows, Falling
<1> QED BY <1>1, <1>2, <1>5, <1>6, <1>7 DEF n, td, d

\* A stop's constant deceleration leaves less than one cycle of it above the
\* velocity that the last stage takes away.
LEMMA StopGlide ==
  ASSUME NEW v \in Nat, NEW A \in Nat \ {0}, NEW J \in Nat \ {0}
  PROVE  LET w == Fall2(v, StopTj2(A, J), A, J, StopTd(v, A, J)).vel
         IN  w \in Nat /\ (w = 0 \/ w < StopEntry(A, J) + A)
<1> DEFINE n == StopTj2(A, J)
           td == StopTd(v, A, J)
           w == Fall2(v, n, A, J, td).vel
           c == AfterJerk(v, A, J)
           x == J * n * (n - 1)
           b == StopEntry(A, J)
           d == AtLeast(c - b, 0)
<1>1. n \in Nat \ {0} /\ td \in Nat /\ td = d \div A
  BY StopFields
<1>2. b \in Int
  <2>1. b = A * n - x \div 2
    BY DEF StopEntry
  <2> HIDE DEF n
  <2>2. n - 1 \in Nat
    BY <1>1
  <2>3. x \in Nat
    BY <1>1, <2>2
  <2> HIDE DEF x
  <2>4. x \div 2 \in Nat
    BY <2>3
  <2> QED BY <1>1, <2>1, <2>4
<1>3. Glides(Fall2(v, n, A, J, td + 1), Fall2(v, n, A, J, td), Fall1(v, A, J, n), td, v, A)
  BY <1>1, Fall2Next
<1>4. w \in Nat /\ (w = 0 \/ w + td * A = c)
  BY <1>3 DEF Glides, Falling, AfterJerk
<1>5. c \in Nat
  <2>1. Falling(Fall1(v, A, J, n), v, A)
    BY <1>1, Fall1Facts
  <2> QED BY <2>1 DEF Falling, AfterJerk
<1> HIDE DEF n, td, w, c, b
<1>6. d \in Nat /\ c - b <= d /\ (d = 0 \/ d = c - b)
  BY <1>2, <1>5 DEF AtLeast
<1> HIDE DEF d
<1>7. d < td * A + A
  <2>1. d = A * (d \div A) + (d % A) /\ d % A < A /\ d % A \in Nat /\ d \div A \in Nat
    BY <1>6
  <2>2. A * (d \div A) = td * A
    BY <1>1, <2>1
  <2> QED BY <1>1, <1>6, <2>1, <2>2
<1>8. w = 0 \/ w < b + A
  <2> DEFINE y == td * A
  <2>1. y \in Nat
    BY <1>1
  <2> HIDE DEF y
  <2> QED BY <1>2, <1>4, <1>5, <1>6, <1>7, <2>1 DEF y
<1> QED BY <1>4, <1>8 DEF w, n, td, b

\* A stop ends within three cycles of its deceleration limit of the distance that
\* was simulated.
LEMMA StopUndone ==
  ASSUME NEW v \in Nat, NEW A \in Nat \ {0}, NEW J \in Nat \ {0},
         NEW k \in 1..StopTj2(A, J),
         \/ k = StopTj2(A, J)
         \/ Fall3(v, StopTj2(A, J), StopTd(v, A, J), A, J, k).vel <= J
  PROVE  StopDist(v, A, J)
           - Fall3(v, StopTj2(A, J), StopTd(v, A, J), A, J, k - 1).pos \in 0..(3 * A)
<1> DEFINE n == StopTj2(A, J)
           td == StopTd(v, A, J)
           f(j) == Fall3(v, n, td, A, J, j)
           w == Fall2(v, n, A, J, td).vel
           b == StopEntry(A, J)
           left == f(n).pos - f(k - 1).pos
<1>1. n \in Nat \ {0} /\ td \in Nat /\ StopDist(v, A, J) = f(n).pos
  BY StopFields
<1>2. w \in Nat /\ (w = 0 \/ w < b + A)
  BY StopGlide
<1>n. n = AtLeast(A \div J, 1)
  BY DEF StopTj2
<1>b. b = A * n - (J * n * (n - 1)) \div 2
  BY DEF StopEntry
<1>f. k \in 1..n /\ (k = n \/ f(k).vel <= J)
  OBVIOUS
<1> SUFFICES left \in 0..(3 * A)
  BY <1>1
<1> HIDE DEF td, b, n
<1>3. CASE J <= A
  <2> DEFINE m == n * J
             x == J * (n * (n - 1))
             C == A * n - x + A
  <2>1. n = A \div J /\ m <= A /\ A <= m + J - 1
    <3> DEFINE q == A \div J
    <3>1. q \in Nat /\ A = J * q + (A % J) /\ A % J \in 0..(J - 1)
      OBVIOUS
    <3>2. q >= 1
      <4>1. CASE q = 0
        BY <1>3, <3>1, <4>1
      <4> QED BY <3>1, <4>1
    <3> HIDE DEF q
    <3>3. n = q
      BY <1>n, <3>1, <3>2 DEF AtLeast, q
    <3>4. m = J * q /\ m \in Int
      BY <3>1, <3>3
    <3> HIDE DEF m
    <3> QED BY <3>1, <3>3, <3>4 DEF q
  <2>2. m \in Nat /\ x \in Nat /\ A * n \in Nat /\ x = n * m - m
    <3>1. n - 1 \in Nat
      BY <1>1
    <3> QED BY <1>1, <3>1
  <2>3. n * (A - m) <= m - n /\ n * (A - m) = A * n - n * m /\ n * m \in Nat
        /\ m - n \in Nat
    <3> DEFINE r == A - m
    <3>1. r \in 0..(J - 1)
      BY <2>1, <2>2
    <3> HIDE DEF r
    <3>2. n * r <= n * (J - 1)
      BY <1>1, <3>1
    <3>3. n * (J - 1) = m - n /\ n * (J - 1) \in Nat
      <4>1. J - 1 \in Nat
        OBVIOUS
      <4> QED BY <1>1, <4>1
    <3>4. n * r = A * n - n * m /\ n * m \in Nat
      BY <1>1, <2>2 DEF r
    <3> QED BY <3>2, <3>3, <3>4 DEF r
  <2>4. C \in Nat /\ C <= 3 * A
    <3> DEFINE y == n * m
               g == A * n
    <3>1. C = g - (y - m) + A /\ g - y <= m - n /\ g - y >= 0
      <4>1. A - m \in Nat
        BY <2>1, <2>2
      <4>2. n * (A - m) \in Nat
        BY <1>1, <4>1
      <4> QED BY <2>2, <2>3, <4>2
    <3>2. y \in Nat /\ g \in Nat /\ m \in Nat /\ m <= A /\ n \in Nat
      BY <1>1, <2>1, <2>2, <2>3
    <3> HIDE DEF y, g, m, C
    <3> QED BY <3>1, <3>2
  <2>5. 2 * w <= 2 * C + x
    <3> DEFINE e == x \div 2
               g == A * n
    <3>1. J * n * (n - 1) = x
      BY <1>1
    <3>2. b = g - e
      BY <1>b, <3>1
    <3> HIDE DEF x
    <3>3. e \in Nat /\ 2 * e <= x /\ x <= 2 * e + 1
      BY <2>2
    <3>4. g \in Nat /\ x \in Nat /\ C \in Nat /\ C = g - x + A
      BY <2>2, <2>4
    <3> HIDE DEF e, g, C, w
    <3> QED BY <1>2, <3>2, <3>3, <3>4
  <2>6. /\ left \in Nat
        /\ left <= C \/ left <= J \/ (left <= 2 * J /\ left <= 2 * C)
    <3> HIDE DEF C
    <3>1. n \in Nat /\ A \in Nat /\ J \in Nat /\ n * J <= A /\ C \in Nat
      BY <1>1, <2>1, <2>4
    <3>2. 2 * Fall2(v, n, A, J, td).vel <= 2 * C + J * (n * (n - 1))
      BY <2>5
    <3>3. k = n \/ Fall3(v, n, td, A, J, k).vel <= J
      BY <1>f
    <3> QED BY <1>1, <1>f, <3>1, <3>2, <3>3, Undone
  <2> HIDE DEF left, C
  <2> QED BY <1>3, <2>4, <2>6
<1>4. CASE J > A
  <2>1. n = 1
    <3>1. A \div J = 0
      BY <1>4
    <3> QED BY <1>n, <3>1 DEF AtLeast
  <2>2. b = A
    <3>1. J * 1 * (1 - 1) = 0 /\ 0 \div 2 = 0
      OBVIOUS
    <3> QED BY <1>b, <2>1, <3>1
  <2>3. k = 1
    BY <1>f, <2>1
  <2>4. Follows(f(0 + 1), f(0), J, v, A)
    BY <1>1, Fall3Next
  <2>5. f(0) = Fall2(v, n, A, J, td)
    BY <1>1, Fall3Start
  <2>6. left = f(0 + 1).vel /\ f(0 + 1).vel \in 0..f(0).vel
    <3> HIDE DEF f
    <3>1. f(0 + 1).pos = f(0).pos + f(0 + 1).vel /\ f(0 + 1).vel \in 0..f(0).vel
          /\ f(0).pos \in Nat /\ f(0).vel \in Nat
      BY <2>4 DEF Follows, Falling
    <3> QED BY <2>1, <2>3, <3>1
  <2> HIDE DEF left, w, f
  <2>7. f(0).vel = w
    BY <2>5 DEF w
  <2> QED BY <1>2, <2>2, <2>6, <2>7
<1> QED BY <1>3, <1>4

-----------------------------------------------------------------------------
\* r2 is r1 further along by x.
Shifted(r2, r1, x) ==
  r2 \in SimState /\ r2.vel = r1.vel /\ r2.acc = r1.acc /\ r2.pos = r1.pos + x

\* A deceleration does not depend on where it starts, nor on a speed limit above
\* its speed.
LEMMA RampShift ==
  ASSUME NEW v \in Nat, NEW mv \in Nat, v <= mv, NEW A \in Nat, NEW da \in Int,
         NEW x \in Int, NEW s, Falling(s, v, A), NEW s2, Shifted(s2, s, x), NEW n \in Nat
  PROVE  /\ Shifted(Ramp(s2, n, da, -A, 0, mv), Ramp(s, n, da, -A, 0, v), x)
         /\ Falling(Ramp(s, n, da, -A, 0, v), v, A)
<1> DEFINE U(k) == Ramp(s, k, da, -A, 0, v)
           W(k) == Ramp(s2, k, da, -A, 0, mv)
           S == {k \in Nat : Shifted(W(k), U(k), x)}
<1>0. s \in SimState /\ s2 \in SimState /\ -A \in Int /\ 0 \in Int /\ v \in Int /\ mv \in Int
  BY DEF Falling, Shifted
<1>1. \A k \in Nat : Falling(U(k), v, A) /\ Follows(U(k + 1), U(k), da, v, A)
  BY FallRamp
<1>2. U(0) = s /\ W(0) = s2
  <2>1. U(0) = s
    BY <1>0, RampZero
  <2>2. W(0) = s2
    BY <1>0, RampZero
  <2> QED BY <2>1, <2>2
<1>3. \A k \in Nat : W(k) \in SimState /\ W(k + 1) = SimCycle(W(k), da, -A, 0, mv)
  BY <1>0, RampNext
<1> HIDE DEF U, W
<1>4. 0 \in S
  BY <1>2
<1>5. \A k \in Nat : k \in S => k + 1 \in S
  <2> SUFFICES ASSUME NEW k \in Nat, Shifted(W(k), U(k), x)
               PROVE  Shifted(W(k + 1), U(k + 1), x)
    OBVIOUS
  <2> DEFINE u == U(k)
             r == U(k + 1)
             w == W(k)
             a == Clamp(w.acc + da, -A, 0)
             y == Clamp(w.vel + a, 0, mv)
  <2>1. Follows(r, u, da, v, A)
    BY <1>1
  <2>2. w.acc = u.acc /\ w.vel = u.vel /\ w.pos = u.pos + x
    BY DEF Shifted
  <2>3. W(k + 1) = [acc |-> a, vel |-> y, pos |-> w.pos + y]
    BY <1>3 DEF SimCycle
  <2>4. a = r.acc
    BY <2>1, <2>2 DEF Follows
  <2>5. y = r.vel
    <3>1. u.vel \in 0..v /\ r.acc \in (-A)..0 /\ r.vel = AtLeast(u.vel + r.acc, 0)
      BY <2>1 DEF Follows, Falling
    <3> HIDE DEF a
    <3> QED BY <2>2, <2>4, <3>1 DEF Clamp, AtLeast, AtMost
  <2>6. W(k + 1) \in SimState
    BY <1>3
  <2>7. r.pos = u.pos + r.vel /\ u.pos \in Nat /\ r.vel \in Nat
    BY <2>1 DEF Follows, Falling
  <2> HIDE DEF a, y, r, u, w
  <2>8. W(k + 1).acc = a /\ W(k + 1).vel = y /\ W(k + 1).pos = w.pos + y
    BY <2>3
  <2>9. w.pos + y = r.pos + x
    BY <2>2, <2>5, <2>7
  <2> QED BY <2>4, <2>5, <2>6, <2>8, <2>9 DEF Shifted, r
<1> HIDE DEF S
<1>6. Nat \subseteq S
  BY <1>4, <1>5, SetInduction
<1>7. Shifted(W(n), U(n), x)
  BY <1>6 DEF S
<1> QED BY <1>1, <1>7 DEF U, W

\* With the peak deceleration t * J the constant stage of the simulation is that of
\* the stop.
LEMMA FlatIsRamp ==
  ASSUME NEW v \in Nat, NEW t \in Nat, NEW J \in Nat, NEW n \in Nat
  PROVE  Ramp(Fall1(v, t * J, J, t), n, 0, -(t * J), 0, v) = Fall2(v, t, t * J, J, n)
<1> DEFINE A == t * J
           s == Fall1(v, A, J, t)
           U(k) == Ramp(s, k, 0, -A, 0, v)
           W(k) == Fall2(v, t, A, J, k)
           S == {k \in Nat : U(k) = W(k)}
<1>0. A \in Nat /\ -A \in Int /\ v \in Int /\ 0 \in Int /\ t * J <= A
  OBVIOUS
<1> HIDE DEF A
<1>1. Falling(s, v, A) /\ s \in SimState
  BY <1>0, Fall1Facts DEF Falling
<1>2. s.acc = -A
  <2>1. Fall1(v, A, J, t).acc = -(t * J)
    BY <1>0, Fall1End
  <2> QED BY <2>1 DEF A
<1>3. U(0) = s
  BY <1>0, <1>1, RampZero
<1>4. W(0) = s
  BY <1>0, Fall2Facts
<1>5. \A k \in Nat : U(k + 1) = SimCycle(U(k), 0, -A, 0, v)
  BY <1>0, <1>1, RampNext
<1>6. \A k \in Nat : W(k + 1) = FlatCycle(W(k), A, v)
  BY <1>0, <1>1, FlatNext DEF Fall2
<1>7. \A k \in Nat : W(k).acc = -A
  <2> SUFFICES ASSUME NEW k \in Nat PROVE W(k).acc = -A
    OBVIOUS
  <2>1. Glides(W(k + 1), W(k), s, k, v, A)
    BY <1>0, Fall2Next
  <2> HIDE DEF W, s
  <2> QED BY <1>2, <2>1 DEF Glides
<1> HIDE DEF U, W, s
<1>8. 0 \in S
  BY <1>3, <1>4
<1>9. \A k \in Nat : k \in S => k + 1 \in S
  <2> SUFFICES ASSUME NEW k \in Nat, U(k) = W(k) PROVE U(k + 1) = W(k + 1)
    OBVIOUS
  <2>1. Clamp(W(k).acc + 0, -A, 0) = -A
    BY <1>0, <1>7 DEF Clamp, AtLeast, AtMost
  <2>2. W(k).vel + (-A) = W(k).vel - A
    OBVIOUS
  <2> QED BY <1>5, <1>6, <1>7, <2>1, <2>2 DEF SimCycle, FlatCycle
<1> HIDE DEF S
<1>10. Nat \subseteq S
  BY <1>8, <1>9, SetInduction
<1>11. U(n) = W(n)
  BY <1>10 DEF S
<1> QED BY <1>11 DEF U, W, A, s

\* What SimDecelDist returns is where the stages of the deceleration end, and
\* SimDecel from another place and under a higher limit covers the same distance.
Decelerates(c, x, v, t, td, J, mv) ==
  LET dist == SimDecelDist(v, t, td, t * J, J)
  IN  /\ dist = Fall3(v, t, td, t * J, J, t).pos /\ dist \in Nat
      /\ SimDecel(c, t, td, t * J, J, mv).pos = dist + x

LEMMA DecelDist ==
  ASSUME NEW v \in Nat, NEW mv \in Nat, v <= mv, NEW t \in Nat, NEW J \in Nat, NEW td \in Nat,
         NEW x \in Int, NEW c, Shifted(c, Cruise(v), x)
  PROVE  Decelerates(c, x, v, t, td, J, mv)
<1> DEFINE A == t * J
           u1 == Fall1(v, A, J, t)
           u2 == Ramp(u1, td, 0, -A, 0, v)
           u3 == Ramp(u2, t, J, -A, 0, v)
           w1 == Ramp(c, t, -J, -A, 0, mv)
           w2 == Ramp(w1, td, 0, -A, 0, mv)
           w3 == Ramp(w2, t, J, -A, 0, mv)
<1>0. A \in Nat /\ -J \in Int /\ J \in Int /\ 0 \in Int
  OBVIOUS
<1>1. SimDecelDist(v, t, td, A, J) = u3.pos /\ SimDecel(c, t, td, A, J, mv).pos = w3.pos
  BY DEF SimDecelDist, SimDecel, Fall1, Cruise
<1>2. u2 = Fall2(v, t, A, J, td)
  BY FlatIsRamp
<1>3. u3 = Fall3(v, t, td, A, J, t)
  BY <1>2 DEF Fall3
<1> HIDE DEF A
<1>4. Falling(Cruise(v), v, A)
  BY <1>0, CruiseState
<1>5. Shifted(w1, u1, x) /\ Falling(u1, v, A)
  BY <1>0, <1>4, RampShift DEF Fall1
<1> HIDE DEF u1, w1
<1>6. Shifted(w2, u2, x) /\ Falling(u2, v, A)
  BY <1>0, <1>5, RampShift
<1> HIDE DEF u2, w2
<1>7. Shifted(w3, u3, x) /\ Falling(u3, v, A)
  BY <1>0, <1>6, RampShift
<1> HIDE DEF u3, w3
<1>8. w3.pos = u3.pos + x /\ u3.pos \in Nat
  BY <1>7 DEF Shifted, Falling
<1> QED BY <1>1, <1>3, <1>8 DEF A, Decelerates

-----------------------------------------------------------------------------
\* The end of the acceleration of a profile.
AccelEnd(q) == SimAccelPhase(q.Tj, q.Ta, q.max_acc, q.jerk, q.max_vel)

\* A profile whose times and peak acceleration fit each other.
Regular(q) ==
  /\ q.max_vel \in Nat \ {0} /\ q.jerk \in Nat \ {0}
  /\ q.Tj \in Nat \ {0} /\ q.Tj2 = q.Tj /\ q.max_acc = q.Tj * q.jerk
  /\ q.Ta \in Nat /\ q.Td = q.Ta /\ q.Tv \in Nat

\* The deceleration SCurve_Plan simulates for a profile.
PlannedDecel(q) == SimDecelDist(AccelEnd(q).vel, q.Tj2, q.Td, q.max_acc, q.jerk)

\* The acceleration of a regular profile, and the total SCurve_SimulateDisp returns.
LEMMA RegularFacts ==
  ASSUME NEW q, Regular(q)
  PROVE  LET a == AccelEnd(q)
         IN  /\ a \in SimState /\ a.acc = 0 /\ a.vel \in 1..q.max_vel
             /\ a.vel <= q.max_acc * (q.Tj + q.Ta) /\ a.pos >= a.vel /\ a.pos >= q.Tj
             /\ PlannedDecel(q) \in Nat
             /\ PlannedDecel(q) = Fall3(a.vel, q.Tj, q.Td, q.max_acc, q.jerk, q.Tj).pos
             /\ SCurve_SimulateDisp(q) = a.pos + a.vel * q.Tv + PlannedDecel(q)
<1> DEFINE a == AccelEnd(q)
           V == a.vel
           x == a.pos + V * q.Tv
           c == [a EXCEPT !.pos = @ + a.vel * q.Tv]
           t == q.Tj
           J == q.jerk
           M == q.max_vel
           td == q.Td
           A == q.max_acc
<1>1. /\ t \in Nat \ {0} /\ q.Ta \in Nat /\ J \in Nat \ {0} /\ M \in Nat \ {0}
      /\ A = t * J /\ q.Tv \in Nat /\ td = q.Ta /\ q.Tj2 = t
  BY DEF Regular
<1>2. Accelerated(SimAccelPhase(t, q.Ta, t * J, J, M), t, q.Ta, J, M)
  <2> HIDE DEF t, J, M
  <2> QED BY <1>1, AccelFacts
<1>3. a = SimAccelPhase(t, q.Ta, t * J, J, M)
  BY <1>1 DEF AccelEnd
<1> HIDE DEF a, t, J, M, td, A
<1>4. /\ a \in SimState /\ a.acc = 0 /\ V \in 1..M
      /\ V <= A * (t + q.Ta) /\ a.pos >= V /\ a.pos >= t /\ a.pos \in Nat
  <2>1. /\ a \in SimState /\ a.acc = 0 /\ V \in 1..M
        /\ V <= A * (t + q.Ta) /\ a.pos >= V /\ a.pos >= t
    BY <1>1, <1>2, <1>3 DEF Accelerated
  <2>2. a.pos \in Int
    BY <2>1 DEF SimState
  <2> QED BY <1>1, <2>1, <2>2
<1>5. c = [pos |-> x, vel |-> V, acc |-> 0] /\ x \in Int
  BY <1>1, <1>4 DEF SimState
<1>6. V \in Nat /\ M \in Nat /\ V <= M /\ t \in Nat /\ J \in Nat /\ td \in Nat
  BY <1>1, <1>4
<1> HIDE DEF x, V, c
<1>7. Cruise(V) = [pos |-> 0, vel |-> V, acc |-> 0]
  BY DEF Cruise, Rest
<1>8. Shifted(c, Cruise(V), x)
  BY <1>5, <1>6, <1>7 DEF Shifted, SimState
<1>9. Decelerates(c, x, V, t, td, J, M)
  BY <1>5, <1>6, <1>8, DecelDist
<1>10. PlannedDecel(q) = SimDecelDist(V, t, td, t * J, J)
  BY <1>1 DEF PlannedDecel, V, a, t, td, J, A
<1>11. SCurve_SimulateDisp(q) = SimDecel(c, t, td, t * J, J, M).pos
  BY <1>1 DEF SCurve_SimulateDisp, c, a, AccelEnd, t, td, J, M, A
<1>12. SCurve_SimulateDisp(q) = x + PlannedDecel(q) /\ PlannedDecel(q) \in Nat
  BY <1>5, <1>9, <1>10, <1>11 DEF Decelerates
<1>13. PlannedDecel(q) = Fall3(V, t, td, A, J, t).pos
  BY <1>1, <1>9, <1>10 DEF Decelerates
<1> QED BY <1>4, <1>12, <1>13 DEF V, x, a, t, td, J, M, A

-----------------------------------------------------------------------------
\* A set of naturals that is not empty and bounded has its maximum.
LEMMA MaxIn ==
  ASSUME NEW S, S \subseteq Nat, S # {}, NEW B \in Nat, \A x \in S : x <= B
  PROVE  Max(S) \in S
<1> DEFINE T == {B - x : x \in S}
<1>1. T \subseteq Nat /\ T # {}
  OBVIOUS
<1>2. PICK n \in T : \A k \in T : n <= k
  BY <1>1, LeastNatural
<1>3. PICK x \in S : n = B - x
  BY <1>2
<1>4. \A y \in S : x >= y
  <2> TAKE y \in S
  <2>1. B - y \in T
    OBVIOUS
  <2>2. n <= B - y
    BY <1>2, <2>1
  <2> QED BY <1>3, <2>2
<1>5. \E z \in S : \A y \in S : z >= y
  BY <1>4
<1> QED BY <1>5 DEF Max

LEMMA JerkTimeType ==
  ASSUME NEW mv \in Nat, NEW ma \in Nat, NEW jerk \in Nat \ {0}
  PROVE  JerkTime(mv, ma, jerk) \in Nat \ {0}
<1> DEFINE q == ma \div jerk
           S == {1} \cup {t \in 1..q : (jerk * t * (t + 1)) \div 2 <= mv}
<1>1. q \in Nat
  OBVIOUS
<1> HIDE DEF q
<1>2. S \subseteq Nat \ {0} /\ S # {} /\ q + 1 \in Nat /\ \A x \in S : x <= q + 1
  BY <1>1
<1>3. JerkTime(mv, ma, jerk) = Max(S)
  BY DEF JerkTime, q
<1> HIDE DEF S
<1>4. Max(S) \in S
  BY <1>2, MaxIn
<1> QED BY <1>2, <1>3, <1>4

LEMMA DoubledType ==
  ASSUME NEW x \in Nat
  PROVE  Doubled(x) \in Nat
<1> DEFINE D == Nat \ {0}
           f == [r \in D |-> 2 * r]
           C == {r \in D : r * r * r < x}
           m == [r \in D |-> IF x > r THEN x - r ELSE 0]
<1>1. f \in [D -> D] /\ m \in [D -> Nat]
  OBVIOUS
<1>2. \A r \in D : r \in C => m[f[r]] < m[r]
  <2> SUFFICES ASSUME NEW r \in D, r * r * r < x PROVE m[f[r]] < m[r]
    OBVIOUS
  <2>1. r < x
    <3>1. r * r >= 1
      OBVIOUS
    <3>2. (r * r) * r >= r
      BY <3>1
    <3>3. r * r * r \in Int
      OBVIOUS
    <3> QED BY <3>2, <3>3
  <2>2. f[r] = 2 * r /\ f[r] \in D
    OBVIOUS
  <2>3. m[r] = x - r
    BY <2>1
  <2>4. m[f[r]] = IF x > 2 * r THEN x - 2 * r ELSE 0
    BY <2>2
  <2> QED BY <2>1, <2>3, <2>4
<1>3. Doubled(x) = While(f, C)[1] /\ 1 \in D
  BY DEF Doubled
<1> HIDE DEF f, C, m
<1>4. \A r \in D : While(f, C)[r] \in D
  BY <1>1, <1>2, WhileDef
<1> QED BY <1>3, <1>4

LEMMA icbrtType ==
  ASSUME NEW x \in Int
  PROVE  icbrt(x) \in Nat
<1>1. CASE x <= 0
  BY <1>1 DEF icbrt
<1>2. CASE x > 0
  <2> DEFINE D == Nat \ {0}
             f == [r \in D |-> (2 * r + x \div (r * r)) \div 3]
             s == AtLeast(Doubled(x) \div 2, 1)
  <2>1. f \in [D -> D]
    <3> SUFFICES ASSUME NEW r \in D PROVE (2 * r + x \div (r * r)) \div 3 \in D
      OBVIOUS
    <3>1. r * r \in Nat \ {0}
      OBVIOUS
    <3> DEFINE y == x \div (r * r)
               w == r * r
    <3>2. y \in Nat /\ (r = 1 => y >= 1)
      <4>1. x \in Nat /\ w \in Nat \ {0} /\ (r = 1 => w = 1)
        BY <1>2, <3>1
      <4> HIDE DEF w
      <4>2. x \div w \in Nat /\ (w = 1 => x \div w >= 1)
        BY <1>2, <4>1
      <4> QED BY <4>1, <4>2 DEF w
    <3> HIDE DEF y
    <3>3. 2 * r + y >= 3
      BY <3>2
    <3> QED BY <3>2, <3>3 DEF y
  <2>2. s \in D
    <3>1. Doubled(x) \in Nat
      BY <1>2, DoubledType
    <3> QED BY <3>1 DEF AtLeast
  <2>3. icbrt(x) = Iterate(f, s, 5)
    BY <1>2 DEF icbrt
  <2> HIDE DEF f, s
  <2>4. 5 \in Nat
    OBVIOUS
  <2>5. Iterate(f, s, 5) \in D
    BY <2>1, <2>2, <2>4, IterateType
  <2> QED BY <2>3, <2>5
<1> QED BY <1>1, <1>2

\* The shortest profile there is: two cycles up, and at rest one cycle later.
LEMMA ShortestFacts ==
  ASSUME NEW q, Regular(q), q.Tj = 1, q.Ta = 0
  PROVE  LET a == AccelEnd(q)
         IN  /\ a.vel = AtMost(q.jerk, q.max_vel) /\ a.pos = 2 * AtMost(q.jerk, q.max_vel)
             /\ PlannedDecel(q) = 0
<1> DEFINE J == q.jerk
           M == q.max_vel
           V == AtMost(J, M)
           up == Ramp(Rest, 1, J, 0, J, M)
           flat == Ramp(up, 0, 0, 0, J, M)
           down == Ramp(flat, 1, -J, 0, J, M)
           dup == Ramp(Cruise(V), 1, -J, -J, 0, V)
           dflat == Ramp(dup, 0, 0, -J, 0, V)
           ddown == Ramp(dflat, 1, J, -J, 0, V)
<1>1. J \in Nat \ {0} /\ M \in Nat \ {0} /\ q.Tj2 = 1 /\ q.max_acc = J /\ q.Td = 0
  BY DEF Regular
<1>2. AccelEnd(q) = down
  BY <1>1 DEF AccelEnd, SimAccelPhase
<1> HIDE DEF J, M
<1>3. V \in 1..M /\ V <= J
  BY <1>1 DEF AtMost
<1>4. ASSUME NEW s \in SimState, NEW da \in Int, NEW lo \in Int, NEW hi \in Int, NEW mv \in Int
      PROVE  Ramp(s, 1, da, lo, hi, mv) = SimCycle(s, da, lo, hi, mv)
  <2>1. Ramp(s, 0, da, lo, hi, mv) = s
    BY RampZero
  <2>2. Ramp(s, 0 + 1, da, lo, hi, mv) = SimCycle(Ramp(s, 0, da, lo, hi, mv), da, lo, hi, mv)
    BY RampNext
  <2> QED BY <2>1, <2>2
<1>i. J \in Int /\ -J \in Int /\ M \in Int /\ 0 \in Int /\ V \in Int
  BY <1>1, <1>3
<1>5. up = [acc |-> J, vel |-> V, pos |-> V]
  <2>1. up = SimCycle(Rest, J, 0, J, M)
    BY <1>4, <1>i, RestState
  <2>2. Clamp(0 + J, 0, J) = J /\ Clamp(0 + J, 0, M) = V /\ 0 + V = V
    BY <1>1, <1>3 DEF Clamp, AtMost, AtLeast
  <2> HIDE DEF V, up
  <2> QED BY <2>1, <2>2 DEF SimCycle, Rest
<1>6. up \in SimState
  BY <1>5, <1>i DEF SimState
<1> HIDE DEF up, V
<1>7. flat = up
  BY <1>6, <1>i, RampZero
<1> HIDE DEF flat
<1>8. down = [acc |-> 0, vel |-> V, pos |-> V + V]
  <2>1. down = SimCycle(up, -J, 0, J, M)
    BY <1>4, <1>6, <1>7, <1>i
  <2>2. Clamp(J + (-J), 0, J) = 0 /\ Clamp(V + 0, 0, M) = V
    BY <1>1, <1>3 DEF Clamp, AtMost, AtLeast
  <2> HIDE DEF down
  <2> QED BY <2>1, <2>2, <1>5 DEF SimCycle
<1> HIDE DEF down
<1>9. AccelEnd(q).vel = V /\ AccelEnd(q).pos = 2 * V
  BY <1>2, <1>8, <1>i
<1>10. PlannedDecel(q) = ddown.pos
  BY <1>1, <1>9 DEF PlannedDecel, SimDecelDist, SimDecel, Cruise, J
<1>11. Cruise(V) = [pos |-> 0, vel |-> V, acc |-> 0] /\ Cruise(V) \in SimState
  BY <1>i DEF Cruise, Rest, SimState
<1>12. dup = [acc |-> -J, vel |-> 0, pos |-> 0]
  <2>1. dup = SimCycle(Cruise(V), -J, -J, 0, V)
    BY <1>4, <1>i, <1>11
  <2>2. Clamp(0 + (-J), -J, 0) = -J /\ Clamp(V + (-J), 0, V) = 0
    BY <1>1, <1>3 DEF Clamp, AtMost, AtLeast
  <2> HIDE DEF dup
  <2> QED BY <2>1, <2>2, <1>11 DEF SimCycle
<1>13. dup \in SimState
  BY <1>12, <1>i DEF SimState
<1> HIDE DEF dup
<1>14. dflat = dup
  BY <1>13, <1>i, RampZero
<1> HIDE DEF dflat
<1>15. ddown.pos = 0
  <2>1. ddown = SimCycle(dup, J, -J, 0, V)
    BY <1>4, <1>13, <1>14, <1>i
  <2>2. Clamp(-J + J, -J, 0) = 0 /\ Clamp(0 + 0, 0, V) = 0
    BY <1>1, <1>3 DEF Clamp, AtMost, AtLeast
  <2> HIDE DEF ddown
  <2> QED BY <2>1, <2>2, <1>12 DEF SimCycle
<1> QED BY <1>9, <1>10, <1>15 DEF V, J, M

-----------------------------------------------------------------------------
\* The fields of a short profile before its jerk time is known.
ShortBase(q) ==
  /\ q \in PlanFields /\ q.max_vel > 0 /\ q.jerk > 0
  /\ q.Ta = 0 /\ q.Td = 0 /\ q.Tv = 0

LEMMA WithTjFacts ==
  ASSUME NEW q, ShortBase(q), NEW t \in Nat
  PROVE  LET r == WithTj(q, t)
         IN  /\ r \in PlanFields
             /\ r.Tj = t /\ r.Tj2 = t /\ r.max_acc = t * q.jerk
             /\ r.Ta = 0 /\ r.Td = 0 /\ r.Tv = 0 /\ r.jerk = q.jerk
             /\ r.max_vel = q.max_vel /\ r.direction = q.direction
             /\ r.decel_dist = q.decel_dist /\ r.v_at_dec_start = q.v_at_dec_start
             /\ t > 0 => Regular(r)
<1> DEFINE r == WithTj(q, t)
           A == t * q.jerk
<1>1. q \in PlanFields /\ q.jerk \in Nat \ {0} /\ q.max_vel \in Nat \ {0}
  BY DEF ShortBase, PlanFields
<1>2. A \in Nat
  BY <1>1
<1>3. r = [q EXCEPT !.Tj = t, !.Tj2 = t, !.max_acc = A]
  BY DEF WithTj
<1> HIDE DEF A, r
<1>4. /\ r \in PlanFields
      /\ r.Tj = t /\ r.Tj2 = t /\ r.max_acc = A
      /\ r.Ta = q.Ta /\ r.Td = q.Td /\ r.Tv = q.Tv /\ r.jerk = q.jerk
      /\ r.max_vel = q.max_vel /\ r.direction = q.direction
      /\ r.decel_dist = q.decel_dist /\ r.v_at_dec_start = q.v_at_dec_start
  BY <1>1, <1>2, <1>3 DEF PlanFields
<1>5. q.Ta = 0 /\ q.Td = 0 /\ q.Tv = 0
  BY DEF ShortBase
<1>6. t > 0 => Regular(r)
  BY <1>1, <1>4, <1>5 DEF Regular, A
<1> QED BY <1>4, <1>5, <1>6 DEF r, A

\* The search for the jerk time ends, at 1 or at a profile that is not too long.
LEMMA ShortTjFacts ==
  ASSUME NEW q, ShortBase(q), NEW d \in Nat \ {0}
  PROVE  LET t == ShortTj(q, d)
         IN  /\ t \in Nat \ {0}
             /\ t = 1 \/ SCurve_SimulateDisp(WithTj(q, t)) <= d
<1> DEFINE sim == [t \in Nat |-> SCurve_SimulateDisp(WithTj(q, t))]
           guess == AtLeast(icbrt(d \div (2 * q.jerk)), 1)
           f == [t \in Nat |-> t + 1]
           C == {t \in Nat : sim[t] < d}
           m == [t \in Nat |-> IF d > t THEN d - t ELSE 0]
           up == While(f, C)[guess]
           g == [t \in Int |-> t - 1]
           E == {t \in Nat : t > 1 /\ sim[t] > d}
           l == [t \in Int |-> IF t > 0 THEN t ELSE 0]
           P == Nat \ {0}
<1>1. ShortTj(q, d) = While(g, E)[up]
  BY DEF ShortTj
<1>2. \A t \in P : sim[t] = SCurve_SimulateDisp(WithTj(q, t)) /\ sim[t] \in Int /\ sim[t] >= t
  <2> SUFFICES ASSUME NEW t \in P
               PROVE  LET s == SCurve_SimulateDisp(WithTj(q, t)) IN s \in Int /\ s >= t
    OBVIOUS
  <2> DEFINE r == WithTj(q, t)
             a == AccelEnd(r)
  <2>1. Regular(r) /\ r.Tj = t /\ r.Tv = 0
    BY WithTjFacts
  <2> HIDE DEF r
  <2>2. /\ a \in SimState /\ a.pos >= r.Tj /\ PlannedDecel(r) \in Nat /\ a.vel \in 1..r.max_vel
        /\ SCurve_SimulateDisp(r) = a.pos + a.vel * r.Tv + PlannedDecel(r)
    BY <2>1, RegularFacts
  <2> HIDE DEF a
  <2>3. a.pos \in Int /\ a.vel \in Int
    BY <2>2 DEF SimState
  <2>4. a.vel * r.Tv = 0
    BY <2>1, <2>3
  <2>5. SCurve_SimulateDisp(r) \in Int /\ SCurve_SimulateDisp(r) >= t
    BY <2>1, <2>2, <2>3, <2>4
  <2> QED BY <2>5 DEF r
<1>3. guess \in P
  <2>1. q.jerk \in Nat \ {0}
    BY DEF ShortBase, PlanFields
  <2>2. d \div (2 * q.jerk) \in Int
    BY <2>1
  <2>3. icbrt(d \div (2 * q.jerk)) \in Nat
    BY <2>2, icbrtType
  <2> QED BY <2>3 DEF AtLeast
<1> HIDE DEF sim, guess
<1>4. f \in [Nat -> Nat] /\ m \in [Nat -> Nat] /\ g \in [Int -> Int] /\ l \in [Int -> Nat]
  OBVIOUS
<1>5. \A t \in Nat : t \in C => m[f[t]] < m[t]
  <2> SUFFICES ASSUME NEW t \in Nat, t \in C PROVE m[f[t]] < m[t]
    OBVIOUS
  <2>1. t < d
    BY <1>2
  <2> QED BY <2>1
<1>6. Preserves(f, C, Nat, P)
  BY DEF Preserves
<1>7. up \in P
  <2> HIDE DEF f, C, m
  <2>1. While(f, C)[guess] \in P \ C
    <3>1. Terminates(f, C, Nat, m)
      BY <1>4, <1>5 DEF Terminates
    <3> QED BY <1>3, <1>6, <3>1, WhileKeeps
  <2> QED BY <2>1
<1>8. \A t \in Int : t \in E => l[g[t]] < l[t]
  OBVIOUS
<1>9. Preserves(g, E, Int, P)
  BY DEF Preserves
<1> HIDE DEF up
<1>10. While(g, E)[up] \in P \ E
  <2> HIDE DEF g, E, l
  <2>1. Terminates(g, E, Int, l)
    BY <1>4, <1>8 DEF Terminates
  <2> QED BY <1>7, <1>9, <2>1, WhileKeeps
<1>11. ShortTj(q, d) \in P \ E
  BY <1>1, <1>10
<1> DEFINE t == ShortTj(q, d)
<1> HIDE DEF t
<1>12. t \in P /\ t \in Nat /\ ~(t > 1 /\ sim[t] > d)
  BY <1>11 DEF t
<1>13. sim[t] = SCurve_SimulateDisp(WithTj(q, t)) /\ sim[t] \in Int
  BY <1>2, <1>12
<1>14. t = 1 \/ SCurve_SimulateDisp(WithTj(q, t)) <= d
  BY <1>12, <1>13
<1> QED BY <1>12, <1>14 DEF t

-----------------------------------------------------------------------------
\* r is q but for the cycles of constant velocity.
SameShape(r, q) ==
  /\ r \in PlanFields
  /\ r.direction = q.direction /\ r.max_vel = q.max_vel /\ r.max_acc = q.max_acc
  /\ r.jerk = q.jerk /\ r.Tj = q.Tj /\ r.Ta = q.Ta /\ r.Td = q.Td /\ r.Tj2 = q.Tj2
  /\ r.decel_dist = q.decel_dist

\* The profile q covers the distance d, but for less than one cycle of travel where
\* it has no cycle of constant velocity.
Fits(q, d) ==
  LET a == AccelEnd(q)
  IN  /\ a.pos + a.vel * q.Tv + PlannedDecel(q) <= d
      /\ q.Tv = 0 => d < a.pos + PlannedDecel(q) + q.max_vel

LEMMA ShrinkNothing ==
  ASSUME NEW q \in PlanFields, NEW d \in Int,
         q.Tj = 1 \/ SCurve_SimulateDisp(q) <= d, SCurve_SimulateDisp(q) \in Int
  PROVE  Iterate([r \in PlanFields |->
                    IF d < SCurve_SimulateDisp(r) /\ r.Tj > 1
                    THEN WithTj(r, r.Tj - 1) ELSE r], q, 6) = q
<1> DEFINE f == [r \in PlanFields |->
                   IF d < SCurve_SimulateDisp(r) /\ r.Tj > 1
                   THEN WithTj(r, r.Tj - 1) ELSE r]
<1>1. f \in [PlanFields -> PlanFields]
  <2> SUFFICES ASSUME NEW r \in PlanFields, r.Tj > 1 PROVE WithTj(r, r.Tj - 1) \in PlanFields
    OBVIOUS
  <2> DEFINE t == r.Tj - 1
             A == t * r.jerk
  <2>1. t \in Nat /\ A \in Nat
    <3>1. r.Tj \in Nat /\ r.jerk \in Nat
      BY DEF PlanFields
    <3>2. t \in Nat
      BY <3>1
    <3> QED BY <3>1, <3>2
  <2> HIDE DEF t, A
  <2>2. [r EXCEPT !.Tj = t, !.Tj2 = t, !.max_acc = A] \in PlanFields
    BY <2>1 DEF PlanFields
  <2> QED BY <2>2 DEF WithTj, t, A
<1>2. f[q] = q
  BY DEF PlanFields
<1> HIDE DEF f
<1>3. {q} \subseteq PlanFields /\ (\A x \in {q} : f[x] \in {q}) /\ q \in {q} /\ 6 \in Nat
  BY <1>2
<1>4. Iterate(f, q, 6) \in {q}
  BY <1>1, <1>3, IterateKeeps
<1> QED BY <1>4 DEF f

\* Step 6 only changes the cycles of constant velocity, and leaves a profile that
\* was not too long one that fits.
LEMMA CorrectedFacts ==
  ASSUME NEW q \in PlanFields, Regular(q), NEW d \in Nat,
         q.Ta # 0 \/ q.Tj = 1 \/ SCurve_SimulateDisp(q) <= d
  PROVE  LET r == Corrected(q, d)
         IN  /\ SameShape(r, q) /\ Regular(r)
             /\ SCurve_SimulateDisp(q) <= d => Fits(r, d)
<1> DEFINE sim == SCurve_SimulateDisp(q)
           err == d - sim
           M == q.max_vel
           e == IF err > 0 THEN err \div M ELSE 0
           longer == IF err > 0 THEN [q EXCEPT !.Tv = @ + err \div M] ELSE q
           shrunk == Iterate([s \in PlanFields |->
                        IF d < SCurve_SimulateDisp(s) /\ s.Tj > 1
                        THEN WithTj(s, s.Tj - 1) ELSE s], longer, 6)
           a == AccelEnd(q)
           V == a.vel
           x == a.pos
           dd == PlannedDecel(q)
<1>1. Corrected(q, d) = IF q.Ta = 0 THEN shrunk ELSE longer
  BY DEF Corrected
<1>2. M \in Nat \ {0} /\ q.Tv \in Nat
  BY DEF Regular
<1>3. /\ a \in SimState /\ V \in 1..M /\ dd \in Nat /\ sim = x + V * q.Tv + dd /\ x \in Int
      /\ sim \in Int
  <2>1. /\ a \in SimState /\ V \in 1..M /\ dd \in Nat /\ sim = x + V * q.Tv + dd
    BY RegularFacts
  <2>2. x \in Int
    BY <2>1 DEF SimState
  <2> HIDE DEF a, V, x, dd, sim, M
  <2>3. V * q.Tv \in Int
    BY <1>2, <2>1
  <2> QED BY <2>1, <2>2, <2>3
<1> HIDE DEF shrunk, sim, a, V, x, dd
<1>4. e \in Nat /\ (err > 0 => V * e <= err) /\ (err > 0 /\ e = 0 => err < M)
  <2>1. CASE err > 0
    <3>1. err \in Nat /\ e = err \div M
      BY <1>3, <2>1
    <3> HIDE DEF err, M, e
    <3>2. e \in Nat /\ M * e <= err /\ (e = 0 => err < M)
      <4>1. err = M * (err \div M) + (err % M) /\ err % M \in 0..(M - 1) /\ err \div M \in Nat
        BY <1>2, <3>1
      <4>2. M * (err \div M) \in Nat
        BY <1>2, <4>1
      <4> QED BY <1>2, <3>1, <4>1, <4>2
    <3>3. V * e <= M * e
      BY <1>2, <1>3, <3>2
    <3>4. V * e \in Int /\ M * e \in Int
      BY <1>2, <1>3, <3>2
    <3> QED BY <3>1, <3>2, <3>3, <3>4
  <2>2. CASE ~(err > 0)
    BY <2>2
  <2> QED BY <2>1, <2>2
<1>5. SameShape(longer, q) /\ longer.Tv = q.Tv + e
  <2>1. CASE err > 0
    <3>1. e = err \div M /\ longer = [q EXCEPT !.Tv = @ + err \div M]
      BY <2>1
    <3> HIDE DEF err, M, e, longer
    <3>2. longer = [q EXCEPT !.Tv = q.Tv + e] /\ q.Tv + e \in Nat
      BY <1>2, <1>4, <3>1
    <3> QED BY <3>2 DEF SameShape, PlanFields
  <2>2. CASE ~(err > 0)
    BY <1>2, <2>2 DEF SameShape
  <2> QED BY <2>1, <2>2
<1>6. Regular(longer) /\ AccelEnd(longer) = a /\ PlannedDecel(longer) = dd
  <2>1. Regular(longer)
    <3> HIDE DEF longer, e
    <3>1. longer.Tv \in Nat
      BY <1>2, <1>4, <1>5
    <3> QED BY <1>5, <3>1 DEF Regular, SameShape
  <2> HIDE DEF longer
  <2>2. AccelEnd(longer) = a
    BY <1>5 DEF AccelEnd, SameShape, a
  <2>3. PlannedDecel(longer) = dd
    BY <1>5, <2>2 DEF PlannedDecel, SameShape, a, dd
  <2> QED BY <2>1, <2>2, <2>3
<1>7. longer \in PlanFields
  BY <1>5 DEF SameShape
<1>8. sim <= d => Fits(longer, d)
  <2> SUFFICES ASSUME sim <= d PROVE Fits(longer, d)
    OBVIOUS
  <2>1. longer.Tv = q.Tv + e /\ longer.max_vel = M
    BY <1>5 DEF SameShape
  <2>2. V * (q.Tv + e) = V * q.Tv + V * e /\ V * q.Tv \in Int /\ V * e \in Nat
    BY <1>2, <1>3, <1>4
  <2>3. err \in Nat /\ err = d - sim /\ V * e <= err
    <3>1. CASE err > 0
      BY <1>3, <1>4, <3>1
    <3>2. CASE ~(err > 0)
      <4>1. e = 0 /\ err = 0
        BY <1>3, <3>2
      <4>2. V * e = 0
        BY <1>3, <4>1
      <4> QED BY <4>1, <4>2
    <3> QED BY <3>1, <3>2
  <2>4. e = 0 => err < M
    BY <1>2, <1>3, <1>4
  <2> HIDE DEF err, e, M, longer
  <2>5. x + V * longer.Tv + dd <= d
    BY <1>3, <2>1, <2>2, <2>3
  <2>6. longer.Tv = 0 => d < x + dd + M
    <3> SUFFICES ASSUME longer.Tv = 0 PROVE d < x + dd + M
      OBVIOUS
    <3>1. q.Tv = 0 /\ e = 0
      BY <1>2, <1>4, <2>1
    <3>2. V * q.Tv = 0
      BY <1>3, <3>1
    <3> QED BY <1>2, <1>3, <2>3, <2>4, <3>1, <3>2
  <2> QED BY <1>6, <2>1, <2>5, <2>6 DEF Fits, V, x
<1>9. q.Ta = 0 => shrunk = longer
  <2> SUFFICES ASSUME q.Ta = 0 PROVE shrunk = longer
    OBVIOUS
  <2>1. SCurve_SimulateDisp(longer)
          = AccelEnd(longer).pos + AccelEnd(longer).vel * longer.Tv + PlannedDecel(longer)
    <3> HIDE DEF longer
    <3> QED BY <1>6, RegularFacts
  <2>2. SCurve_SimulateDisp(longer) = x + V * longer.Tv + dd
    BY <1>6, <2>1 DEF V, x
  <2>3. SCurve_SimulateDisp(longer) \in Int
    <3>1. longer.Tv \in Nat
      BY <1>6 DEF Regular
    <3> HIDE DEF longer
    <3>2. V * longer.Tv \in Int
      BY <1>3, <3>1
    <3> QED BY <1>3, <2>2, <3>2
  <2>4. longer.Tj = 1 \/ SCurve_SimulateDisp(longer) <= d
    <3>1. longer.Tj = q.Tj
      BY <1>5 DEF SameShape
    <3>2. sim <= d => x + V * longer.Tv + dd <= d
      BY <1>6, <1>8 DEF Fits, V, x
    <3> QED BY <2>2, <3>1, <3>2 DEF sim
  <2> HIDE DEF longer
  <2> QED BY <1>7, <2>3, <2>4, ShrinkNothing DEF shrunk
<1>10. Corrected(q, d) = longer
  BY <1>1, <1>9
<1> HIDE DEF longer
<1> QED BY <1>5, <1>6, <1>8, <1>10 DEF sim

-----------------------------------------------------------------------------
\* What SCurve_Plan returns for a displacement disp # 0: the times fit each other, the
\* deceleration distance is that of the profile, and a displacement that is not
\* shorter than the shortest profile is not passed.
WellPlanned(q, disp, mv, jerk) ==
  /\ q \in PlanFields /\ Regular(q)
  /\ q.direction = IF disp < 0 THEN -1 ELSE 1
  /\ q.max_vel = mv /\ q.jerk = jerk /\ q.decel_dist = PlannedDecel(q)
  /\ Abs(disp) >= 2 * AtMost(jerk, mv) => Fits(q, Abs(disp))

\* The fields of base before the branch of SCurve_Plan is chosen.
PlanBase(b, disp, mv, jerk) ==
  /\ b \in PlanFields /\ Regular(b) /\ ShortBase(b)
  /\ b.direction = IF disp < 0 THEN -1 ELSE 1
  /\ b.max_vel = mv /\ b.jerk = jerk

LEMMA FullProfile ==
  ASSUME NEW b, NEW disp \in Int \ {0}, NEW mv, NEW jerk, PlanBase(b, disp, mv, jerk),
         NEW ta \in Nat \ {0}, NEW acc, NEW dec,
         acc = SimAccelPhase(b.Tj, ta, b.max_acc, jerk, mv),
         dec = SimDecelDist(acc.vel, b.Tj, ta, b.max_acc, jerk),
         b.decel_dist = dec, Abs(disp) >= acc.pos + dec
  PROVE  WellPlanned(Corrected([b EXCEPT !.Ta = ta, !.Td = ta,
                                         !.Tv = (Abs(disp) - acc.pos - dec) \div acc.vel],
                               Abs(disp)), disp, mv, jerk)
<1> DEFINE d == Abs(disp)
           z == [b EXCEPT !.Ta = ta, !.Td = ta, !.Tv = 0]
           n == (d - acc.pos - dec) \div acc.vel
           q == [b EXCEPT !.Ta = ta, !.Td = ta, !.Tv = n]
           r == Corrected(q, d)
<1>0. b \in PlanFields /\ Regular(b) /\ b.max_vel = mv /\ b.jerk = jerk /\ b.Tj2 = b.Tj
  BY DEF PlanBase, Regular
<1>1. Regular(z) /\ AccelEnd(z) = acc /\ PlannedDecel(z) = dec
  <2>1. /\ z.max_vel = b.max_vel /\ z.jerk = b.jerk /\ z.Tj = b.Tj /\ z.Tj2 = b.Tj2
        /\ z.max_acc = b.max_acc /\ z.Ta = ta /\ z.Td = ta /\ z.Tv = 0
    BY <1>0 DEF PlanFields
  <2> HIDE DEF z
  <2>2. Regular(z)
    BY <1>0, <2>1 DEF Regular
  <2>3. AccelEnd(z) = acc
    BY <1>0, <2>1 DEF AccelEnd
  <2> QED BY <1>0, <2>1, <2>2, <2>3 DEF PlannedDecel
<1>2. /\ acc.pos \in Int /\ acc.vel \in Nat \ {0} /\ dec \in Nat
  <2> HIDE DEF z
  <2>1. /\ AccelEnd(z) \in SimState /\ AccelEnd(z).vel \in 1..z.max_vel /\ PlannedDecel(z) \in Nat
    BY <1>1, RegularFacts
  <2> QED BY <1>1, <2>1 DEF SimState
<1>3. d \in Nat
  BY DEF Abs
<1>4. n \in Nat /\ acc.vel * n <= d - acc.pos - dec
  <2> DEFINE y == d - acc.pos - dec
             w == acc.vel
  <2>1. y \in Nat /\ w \in Nat \ {0} /\ n = y \div w
    BY <1>2, <1>3
  <2> HIDE DEF y, w, n
  <2>2. y = w * (y \div w) + (y % w) /\ (y % w) \in Nat /\ y \div w \in Nat /\ w * (y \div w) \in Int
    BY <2>1
  <2>3. n \in Nat /\ w * n <= y
    BY <2>1, <2>2
  <2> QED BY <2>3 DEF y, w
<1> HIDE DEF n
<1>5. /\ q \in PlanFields /\ q.direction = b.direction /\ q.decel_dist = dec
      /\ q.max_vel = b.max_vel /\ q.jerk = b.jerk /\ q.Tj = b.Tj /\ q.Tj2 = b.Tj2
      /\ q.max_acc = b.max_acc /\ q.Ta = ta /\ q.Td = ta /\ q.Tv = n
  BY <1>0, <1>4 DEF PlanFields
<1> HIDE DEF q, z
<1>6. Regular(q) /\ AccelEnd(q) = acc /\ PlannedDecel(q) = dec
  <2>2. Regular(q)
    BY <1>0, <1>4, <1>5 DEF Regular
  <2>3. AccelEnd(q) = acc
    BY <1>0, <1>5 DEF AccelEnd
  <2> QED BY <1>0, <1>5, <2>2, <2>3 DEF PlannedDecel
<1>7. SCurve_SimulateDisp(q) = acc.pos + acc.vel * q.Tv + dec
  <2>1. SCurve_SimulateDisp(q) = AccelEnd(q).pos + AccelEnd(q).vel * q.Tv + PlannedDecel(q)
    BY <1>6, RegularFacts
  <2> QED BY <1>6, <2>1
<1>8. SCurve_SimulateDisp(q) <= d
  <2>1. acc.vel * q.Tv \in Int /\ acc.vel * q.Tv <= d - acc.pos - dec
    BY <1>2, <1>4, <1>5
  <2> HIDE DEF d
  <2> QED BY <1>2, <1>3, <1>7, <2>1
<1> HIDE DEF d
<1>9. SameShape(r, q) /\ Regular(r) /\ (SCurve_SimulateDisp(q) <= d => Fits(r, d))
  <2>1. q.Ta # 0
    BY <1>5
  <2> QED BY <1>3, <1>5, <1>6, <2>1, CorrectedFacts
<1> HIDE DEF r
<1>10. PlannedDecel(r) = PlannedDecel(q)
  BY <1>9 DEF SameShape, PlannedDecel, AccelEnd
<1>11. WellPlanned(r, disp, mv, jerk)
  <2>1. r \in PlanFields /\ r.direction = b.direction /\ r.max_vel = mv /\ r.jerk = jerk
    BY <1>0, <1>5, <1>9 DEF SameShape
  <2>2. r.decel_dist = PlannedDecel(r)
    BY <1>5, <1>6, <1>9, <1>10 DEF SameShape
  <2> QED BY <1>8, <1>9, <2>1, <2>2 DEF WellPlanned, PlanBase, d
<1> QED BY <1>11 DEF r, q, n, d

LEMMA ShortProfile ==
  ASSUME NEW b, NEW disp \in Int \ {0}, NEW mv, NEW jerk, PlanBase(b, disp, mv, jerk),
         NEW t, t = ShortTj(b, Abs(disp))
  PROVE  LET tri == WithTj(b, t)
             peak == SimAccelPhase(tri.Tj, 0, tri.max_acc, jerk, mv).vel
             short == [tri EXCEPT !.decel_dist =
                         SimDecelDist(peak, tri.Tj2, 0, tri.max_acc, jerk)]
         IN  WellPlanned(Corrected(short, Abs(disp)), disp, mv, jerk)
<1> DEFINE d == Abs(disp)
           tri == WithTj(b, t)
           peak == SimAccelPhase(tri.Tj, 0, tri.max_acc, jerk, mv).vel
           dec == SimDecelDist(peak, tri.Tj2, 0, tri.max_acc, jerk)
           q == [tri EXCEPT !.decel_dist = dec]
           r == Corrected(q, d)
<1>1. ShortBase(b) /\ b.max_vel = mv /\ b.jerk = jerk
  BY DEF PlanBase
<1>2. d \in Nat \ {0}
  BY DEF Abs
<1>3. t \in Nat \ {0} /\ (t = 1 \/ SCurve_SimulateDisp(WithTj(b, t)) <= d)
  BY <1>1, <1>2, ShortTjFacts
<1>4. /\ tri \in PlanFields /\ Regular(tri) /\ tri.Tj = t /\ tri.Ta = 0 /\ tri.Td = 0 /\ tri.Tv = 0
      /\ tri.jerk = jerk /\ tri.max_vel = mv /\ tri.direction = b.direction
  BY <1>1, <1>3, WithTjFacts
<1> HIDE DEF tri, d
<1>5. AccelEnd(tri).vel = peak /\ PlannedDecel(tri) = dec
  <2>1. AccelEnd(tri).vel = peak
    BY <1>4 DEF AccelEnd
  <2> HIDE DEF peak
  <2> QED BY <1>4, <2>1 DEF PlannedDecel
<1> HIDE DEF dec
<1>6. dec \in Nat
  <2>1. PlannedDecel(tri) \in Nat
    BY <1>4, RegularFacts
  <2> QED BY <1>5, <2>1
<1>7. /\ q \in PlanFields /\ q.direction = tri.direction /\ q.decel_dist = dec
      /\ q.max_vel = tri.max_vel /\ q.jerk = tri.jerk /\ q.Tj = tri.Tj /\ q.Tj2 = tri.Tj2
      /\ q.max_acc = tri.max_acc /\ q.Ta = tri.Ta /\ q.Td = tri.Td /\ q.Tv = tri.Tv
  BY <1>4, <1>6 DEF PlanFields
<1> HIDE DEF q
<1>8. /\ Regular(q) /\ AccelEnd(q) = AccelEnd(tri) /\ PlannedDecel(q) = dec
      /\ SCurve_SimulateDisp(q) = SCurve_SimulateDisp(tri)
  <2>1. Regular(q)
    BY <1>4, <1>7 DEF Regular
  <2>2. AccelEnd(q) = AccelEnd(tri)
    BY <1>7 DEF AccelEnd
  <2>3. PlannedDecel(q) = dec
    BY <1>5, <1>7, <2>2 DEF PlannedDecel
  <2>4. SCurve_SimulateDisp(q) = SCurve_SimulateDisp(tri)
    BY <1>7 DEF SCurve_SimulateDisp
  <2> QED BY <2>1, <2>2, <2>3, <2>4
<1>9. d >= 2 * AtMost(jerk, mv) => SCurve_SimulateDisp(q) <= d
  <2> SUFFICES ASSUME d >= 2 * AtMost(jerk, mv), t = 1 PROVE SCurve_SimulateDisp(q) <= d
    BY <1>3, <1>8 DEF tri
  <2> DEFINE a == AccelEnd(tri)
  <2>1. a.pos = 2 * AtMost(jerk, mv) /\ PlannedDecel(tri) = 0
    BY <1>4, ShortestFacts
  <2>2. SCurve_SimulateDisp(tri) = a.pos + a.vel * tri.Tv + PlannedDecel(tri) /\ a \in SimState
    BY <1>4, RegularFacts
  <2> HIDE DEF a
  <2>3. a.vel * tri.Tv = 0 /\ a.pos \in Int
    BY <1>4, <2>2 DEF SimState
  <2> QED BY <1>8, <2>1, <2>2, <2>3
<1>10. SameShape(r, q) /\ Regular(r) /\ (SCurve_SimulateDisp(q) <= d => Fits(r, d))
  <2>1. q.Ta # 0 \/ q.Tj = 1 \/ SCurve_SimulateDisp(q) <= d
    BY <1>3, <1>4, <1>7, <1>8 DEF tri
  <2>2. d \in Nat
    BY <1>2
  <2> QED BY <1>7, <1>8, <2>1, <2>2, CorrectedFacts
<1> HIDE DEF r
<1>11. PlannedDecel(r) = PlannedDecel(q)
  BY <1>10 DEF SameShape, PlannedDecel, AccelEnd
<1>12. WellPlanned(r, disp, mv, jerk)
  <2>1. r \in PlanFields /\ r.direction = b.direction /\ r.max_vel = mv /\ r.jerk = jerk
    BY <1>4, <1>7, <1>10 DEF SameShape
  <2>2. r.decel_dist = PlannedDecel(r)
    BY <1>7, <1>8, <1>10, <1>11 DEF SameShape
  <2> QED BY <1>9, <1>10, <2>1, <2>2 DEF WellPlanned, PlanBase, d
<1> QED BY <1>12 DEF r, q, dec, peak, tri, d

LEMMA ProfileFacts ==
  ASSUME NEW disp \in Int \ {0}, NEW mv \in Nat \ {0}, NEW ma \in Nat \ {0},
         NEW jerk \in Nat \ {0}
  PROVE  WellPlanned(Profile(disp, mv, ma, jerk), disp, mv, jerk)
<1> DEFINE tj   == JerkTime(mv, ma, jerk)
           amax == tj * jerk
           ta   == AtLeast(mv \div amax - tj, 0)
           accel == SimAccelPhase(tj, ta, amax, jerk, mv)
           decel == SimDecelDist(accel.vel, tj, ta, amax, jerk)
           base == [direction |-> IF disp < 0 THEN -1 ELSE 1,
                    max_vel |-> mv, max_acc |-> amax, jerk |-> jerk,
                    Tj |-> tj, Ta |-> 0, Tv |-> 0, Td |-> 0, Tj2 |-> tj,
                    decel_dist |-> decel, v_at_dec_start |-> 0]
           z == [max_vel |-> mv, max_acc |-> amax, jerk |-> jerk,
                 Tj |-> tj, Ta |-> ta, Tv |-> 0, Td |-> ta, Tj2 |-> tj]
           d == Abs(disp)
           full == [base EXCEPT !.Ta = ta, !.Td = ta,
                                !.Tv = (d - accel.pos - decel) \div accel.vel]
           tri == WithTj(base, ShortTj(base, d))
           peak == SimAccelPhase(tri.Tj, 0, tri.max_acc, jerk, mv).vel
           short == [tri EXCEPT !.decel_dist =
                       SimDecelDist(peak, tri.Tj2, 0, tri.max_acc, jerk)]
<1>1. Profile(disp, mv, ma, jerk)
        = Corrected(IF d >= accel.pos + decel /\ ta > 0 THEN full ELSE short, d)
  BY DEF Profile
<1>2. tj \in Nat \ {0}
  BY JerkTimeType
<1> HIDE DEF tj
<1>3. amax \in Nat \ {0}
  BY <1>2
<1>4. ta \in Nat
  <2>1. amax \in Nat \ {0} /\ tj \in Nat
    BY <1>2, <1>3
  <2> HIDE DEF amax
  <2>2. mv \div amax \in Int
    BY <2>1
  <2> QED BY <2>1, <2>2 DEF AtLeast
<1>a. amax = tj * jerk
  OBVIOUS
<1> HIDE DEF amax, ta
<1>5. accel.pos \in Int /\ decel \in Nat
  <2>1. Regular(z)
    BY <1>2, <1>3, <1>4, <1>a DEF Regular
  <2>2. AccelEnd(z) = accel /\ PlannedDecel(z) = decel
    BY DEF AccelEnd, PlannedDecel
  <2> HIDE DEF accel, decel, z
  <2>3. AccelEnd(z) \in SimState /\ PlannedDecel(z) \in Nat
    BY <2>1, RegularFacts
  <2> QED BY <2>2, <2>3 DEF SimState
<1> HIDE DEF decel
<1>6. PlanBase(base, disp, mv, jerk) /\ base.Tj = tj /\ base.max_acc = amax /\ base.decel_dist = decel
  <2>1. base \in PlanFields
    BY <1>2, <1>3, <1>5 DEF PlanFields
  <2>2. Regular(base)
    BY <1>2, <1>3, <1>a DEF Regular
  <2>3. ShortBase(base)
    BY <2>1 DEF ShortBase
  <2> QED BY <2>1, <2>2, <2>3 DEF PlanBase
<1> HIDE DEF base, accel, d
<1>7. CASE d >= accel.pos + decel /\ ta > 0
  <2>1. ta \in Nat \ {0}
    BY <1>4, <1>7
  <2>2. WellPlanned(Corrected(full, d), disp, mv, jerk)
    BY <1>6, <1>7, <2>1, FullProfile DEF accel, decel, d
  <2> HIDE DEF full
  <2> QED BY <1>1, <1>7, <2>2
<1>8. CASE ~(d >= accel.pos + decel /\ ta > 0)
  <2>1. WellPlanned(Corrected(short, d), disp, mv, jerk)
    BY <1>6, ShortProfile DEF d
  <2> HIDE DEF short
  <2> QED BY <1>1, <1>8, <2>1
<1> QED BY <1>7, <1>8

-----------------------------------------------------------------------------
\* A planner that is not done has a direction and positive limits, and the sign of
\* its acceleration fits its segment.
IInv ==
  /\ TypeOK
  /\ segment # "DONE" => p \in MovingFields
  /\ segment \in Accelerating \cup {"CONST_VEL"} => current_acc >= 0
  /\ segment \in Decelerating => current_acc <= 0

USE DEF Segments, Accelerating, Decelerating

\* The body of SCurve_Step after its switch keeps the types, whatever natural
\* velocity and integer acceleration the segment computed.
LEMMA IntegrateTypes ==
  ASSUME TypeOK, NEW v \in 0..MaxSpeed, NEW a \in Int, NEW s \in Segments,
         NEW e \in Nat, Integrate(v, a, s, e)
  PROVE  /\ TypeOK'
         /\ segment' \in {s, "DONE"}
         /\ current_acc' \in {a, 0}
         /\ current_vel' \in {v, 0}
         /\ p' \in {p, [p EXCEPT !.v_at_dec_start = v]}
  BY ConstantAssumption DEF TypeOK, Integrate, PlanFields, Abs

LEMMA IntegrateInv ==
  ASSUME IInv, segment # "DONE", NEW v \in 0..MaxSpeed, NEW a \in Int,
         NEW s \in Segments, NEW e \in Nat, Integrate(v, a, s, e),
         s \in Accelerating \cup {"CONST_VEL"} => a >= 0,
         s \in Decelerating => a <= 0
  PROVE  IInv'
<1>1. /\ TypeOK'
      /\ segment' \in {s, "DONE"}
      /\ current_acc' \in {a, 0}
      /\ p' \in {p, [p EXCEPT !.v_at_dec_start = v]}
  BY IntegrateTypes DEF IInv
<1>2. segment' # "DONE" => p' \in MovingFields
  <2>1. p \in MovingFields
    BY DEF IInv
  <2>2. v \in Nat
    BY ConstantAssumption
  <2>3. [p EXCEPT !.v_at_dec_start = v] \in MovingFields
    BY <2>1, <2>2 DEF MovingFields, PlanFields
  <2> QED
    BY <1>1, <2>1, <2>3
<1>3. QED
  BY <1>1, <1>2 DEF IInv

\* What every segment may rely on.
LEMMA MovingFacts ==
  ASSUME IInv, segment # "DONE"
  PROVE  /\ current_vel \in 0..MaxSpeed /\ current_acc \in Int
         /\ seg_elapsed + 1 \in Nat /\ MaxSpeed \in Nat
         /\ p.max_vel \in 1..MaxSpeed /\ p.max_acc \in Nat \ {0} /\ p.jerk \in Nat \ {0}
         /\ segment \in Segments
  BY ConstantAssumption DEF IInv, TypeOK, MovingFields, PlanFields

LEMMA StepInv == IInv /\ Step => IInv'
<1> SUFFICES ASSUME IInv, Step PROVE IInv'
  OBVIOUS
<1>1. CASE AccJerkUp
  <2> DEFINE a == AtMost(current_acc + p.jerk, p.max_acc)
             v == AtMost(current_vel + a, p.max_vel)
             s == IF p.Ta > 0 THEN "ACC_CONST"
                  ELSE IF v >= p.max_vel THEN "CONST_VEL" ELSE "ACC_JERK_DOWN"
  <2>1. segment = "ACC_JERK_UP" /\ current_acc >= 0
    BY <1>1 DEF AccJerkUp, IInv
  <2>2. v \in 0..MaxSpeed /\ a \in Int /\ a >= 0 /\ s \in Segments
    BY <2>1, MovingFacts DEF AtMost
  <2>3. Integrate(v, a, s, 0) \/ Integrate(v, a, segment, seg_elapsed + 1)
    BY <1>1 DEF AccJerkUp, Timed
  <2>4. s \notin Decelerating
    OBVIOUS
  <2> HIDE DEF a, v, s
  <2> QED
    BY <2>1, <2>2, <2>3, <2>4, IntegrateInv, MovingFacts
<1>2. CASE AccConst
  <2> DEFINE v == AtMost(current_vel + p.max_acc, p.max_vel)
  <2>1. segment = "ACC_CONST" /\ current_acc >= 0
    BY <1>2 DEF AccConst, IInv
  <2>2. v \in 0..MaxSpeed
    BY <2>1, MovingFacts DEF AtMost
  <2>3. \/ Integrate(v, current_acc, "ACC_JERK_DOWN", 0)
        \/ Integrate(v, current_acc, segment, seg_elapsed + 1)
    BY <1>2 DEF AccConst, Timed
  <2> HIDE DEF v
  <2> QED
    BY <2>1, <2>2, <2>3, IntegrateInv, MovingFacts
<1>3. CASE AccJerkDown
  <2> DEFINE a == AtLeast(current_acc - p.jerk, 0)
             v == AtMost(current_vel + a, p.max_vel)
             s == IF p.Tv > 0 THEN "CONST_VEL" ELSE "DEC_JERK_UP"
  <2>1. segment = "ACC_JERK_DOWN" /\ current_acc >= 0
    BY <1>3 DEF AccJerkDown, IInv
  <2>2. v \in 0..MaxSpeed /\ a \in Int /\ a >= 0 /\ s \in Segments
    BY <2>1, MovingFacts DEF AtMost, AtLeast
  <2>3. Integrate(v, 0, s, 0) \/ Integrate(v, a, segment, seg_elapsed + 1)
    BY <1>3 DEF AccJerkDown
  <2> HIDE DEF a, v, s
  <2> QED
    BY <2>1, <2>2, <2>3, IntegrateInv, MovingFacts
<1>4. CASE ConstVel
  <2>1. segment = "CONST_VEL"
    BY <1>4 DEF ConstVel
  <2>2. \/ Integrate(current_vel, 0, "DEC_JERK_UP", 0)
        \/ Integrate(current_vel, 0, segment, seg_elapsed + 1)
    BY <1>4 DEF ConstVel
  <2> QED
    BY <2>1, <2>2, IntegrateInv, MovingFacts
<1>5. CASE DecJerkUp
  <2> DEFINE a == AtLeast(current_acc - p.jerk, -p.max_acc)
             v == AtLeast(current_vel + a, 0)
             s == IF p.Td > 0 THEN "DEC_CONST" ELSE "DEC_JERK_DOWN"
  <2>1. segment = "DEC_JERK_UP" /\ current_acc <= 0
    BY <1>5 DEF DecJerkUp, IInv
  <2>2. v \in 0..MaxSpeed /\ a \in Int /\ a <= 0 /\ s \in Segments
    BY <2>1, MovingFacts DEF AtLeast
  <2>3. Integrate(v, a, s, 0) \/ Integrate(v, a, segment, seg_elapsed + 1)
    BY <1>5 DEF DecJerkUp, Timed
  <2>4. s \in Decelerating
    OBVIOUS
  <2> HIDE DEF a, v, s
  <2> QED
    BY <2>1, <2>2, <2>3, <2>4, IntegrateInv, MovingFacts
<1>6. CASE DecConst
  <2> DEFINE v == AtLeast(current_vel - p.max_acc, 0)
  <2>1. segment = "DEC_CONST" /\ current_acc <= 0
    BY <1>6 DEF DecConst, IInv
  <2>2. v \in 0..MaxSpeed
    BY <2>1, MovingFacts DEF AtLeast
  <2>3. \/ Integrate(v, current_acc, "DEC_JERK_DOWN", 0)
        \/ Integrate(v, current_acc, segment, seg_elapsed + 1)
    BY <1>6 DEF DecConst, Timed
  <2> HIDE DEF v
  <2> QED
    BY <2>1, <2>2, <2>3, IntegrateInv, MovingFacts
<1>7. CASE DecJerkDown
  <2> DEFINE a == AtMost(current_acc + p.jerk, 0)
             v == AtLeast(current_vel + a, 0)
  <2>1. segment = "DEC_JERK_DOWN" /\ current_acc <= 0
    BY <1>7 DEF DecJerkDown, IInv
  <2>2. v \in 0..MaxSpeed /\ a \in Int /\ a <= 0 /\ 0 \in 0..MaxSpeed
    BY <2>1, MovingFacts DEF AtLeast, AtMost
  <2>3. Integrate(0, 0, "DONE", 0) \/ Integrate(v, a, segment, seg_elapsed + 1)
    BY <1>7 DEF DecJerkDown
  <2> HIDE DEF a, v
  <2> QED
    BY <2>1, <2>2, <2>3, IntegrateInv, MovingFacts
<1> QED
  BY <1>1, <1>2, <1>3, <1>4, <1>5, <1>6, <1>7 DEF Step

\* The fields of a plan are those of a moving planner.
LEMMA PlannedMoves ==
  ASSUME NEW q, NEW disp \in Int, NEW l \in LimitSet, WellPlanned(q, disp, l.max_vel, l.jerk)
  PROVE  q \in MovingFields
<1>1. q \in PlanFields /\ Regular(q) /\ q.direction # 0 /\ q.max_vel = l.max_vel
  BY DEF WellPlanned
<1>2. q.max_vel \in 1..MaxSpeed
  BY <1>1 DEF LimitSet
<1>3. q.max_acc > 0 /\ q.jerk > 0
  <2>1. q.Tj \in Nat \ {0} /\ q.jerk \in Nat \ {0} /\ q.max_acc = q.Tj * q.jerk
    BY <1>1 DEF Regular
  <2> QED
    BY <2>1
<1> QED
  BY <1>1, <1>2, <1>3 DEF MovingFields

\* What SCurve_Plan hands to a planner, for every motion: all fields are natural
\* numbers, the times and limits fit each other, decel_dist is what the profile
\* takes to come to rest, and the profile is not longer than the displacement,
\* unless that is shorter than the shortest profile there is.
THEOREM PlansFit ==
  ASSUME NEW plan \in Plans
  PROVE  /\ plan.disp \in Int /\ plan.fields \in PlanFields
         /\ plan.disp # 0 =>
              /\ plan.fields \in MovingFields
              /\ WellPlanned(plan.fields, plan.disp, plan.fields.max_vel, plan.fields.jerk)
<1>1. PICK m \in Motions :
        plan = [disp |-> m[1],
                fields |-> IF m[1] = 0 THEN NoProfile(m[2].max_vel, m[2].max_acc, m[2].jerk)
                           ELSE Profile(m[1], m[2].max_vel, m[2].max_acc, m[2].jerk)]
  BY DEF Plans
<1>2. m[1] \in Int /\ m[2] \in LimitSet
  BY ConstantAssumption
<1>3. plan.disp = m[1]
  BY <1>1
<1>4. CASE m[1] = 0
  <2>1. plan.fields \in PlanFields
    BY <1>1, <1>2, <1>4, ConstantAssumption DEF NoProfile, PlanFields, LimitSet
  <2> QED
    BY <1>2, <1>3, <1>4, <2>1
<1>5. CASE m[1] # 0
  <2> DEFINE l == m[2]
             q == plan.fields
  <2>1. l \in LimitSet /\ q = Profile(m[1], l.max_vel, l.max_acc, l.jerk)
    BY <1>1, <1>2, <1>5
  <2> HIDE DEF l, q
  <2>2. l.max_vel \in Nat \ {0} /\ l.max_acc \in Nat \ {0} /\ l.jerk \in Nat \ {0}
    BY <2>1, ConstantAssumption DEF LimitSet
  <2>3. WellPlanned(q, m[1], l.max_vel, l.jerk)
    BY <1>2, <1>5, <2>1, <2>2, ProfileFacts
  <2>4. q \in MovingFields
    BY <1>2, <2>1, <2>3, PlannedMoves
  <2>5. q.max_vel = l.max_vel /\ q.jerk = l.jerk /\ q \in PlanFields
    BY <2>3 DEF WellPlanned
  <2>6. WellPlanned(q, m[1], q.max_vel, q.jerk)
    BY <2>3, <2>5
  <2> QED
    BY <1>2, <1>3, <2>4, <2>5, <2>6 DEF q
<1> QED
  BY <1>4, <1>5

LEMMA PlanInv ==
  ASSUME IInv, NEW plan \in Plans, Plan(plan)
  PROVE  IInv'
<1>1. /\ plan.disp \in Int /\ plan.fields \in PlanFields
      /\ plan.disp # 0 => plan.fields \in MovingFields
  BY PlansFit
<1>2. TypeOK'
  BY <1>1, ConstantAssumption DEF Plan, TypeOK
<1>3. segment' # "DONE" => p' \in MovingFields
  BY <1>1 DEF Plan
<1>4. segment' \in {"DONE", "ACC_JERK_UP"} /\ current_acc' = 0
  BY DEF Plan
<1> QED
  BY <1>2, <1>3, <1>4 DEF IInv

LEMMA StopInv ==
  ASSUME IInv, NEW q, StopFrom(q), q \in MovingFields
  PROVE  IInv'
<1>1. CASE segment \in Decelerating
  BY <1>1 DEF StopFrom, IInv, TypeOK, MovingFields
<1>2. CASE segment \in Accelerating \cup {"CONST_VEL"} /\ current_vel = 0
  BY <1>2 DEF StopFrom, IInv, TypeOK, MovingFields
<1>3. CASE segment \in Accelerating \cup {"CONST_VEL"} /\ current_vel > 0
  <2> DEFINE ma == q.max_acc
             jk == q.jerk
             dist == StopDist(current_vel, ma, jk)
             td == StopTd(current_vel, ma, jk)
             tj == StopTj2(ma, jk)
  <2>1. q \in PlanFields /\ jk \in Nat \ {0} /\ ma \in Nat \ {0} /\ q.direction \in Int
    BY DEF MovingFields, PlanFields
  <2>4. current_pos \in Int /\ current_vel \in 0..MaxSpeed /\ current_vel \in Nat
    BY ConstantAssumption DEF IInv, TypeOK
  <2>2. dist \in Nat /\ td \in Nat /\ tj \in Nat
    <3> HIDE DEF ma, jk
    <3> QED
      BY <2>1, <2>4, StopFields
  <2>5. /\ target_pos' = current_pos + q.direction * dist
        /\ p' = [q EXCEPT !.Tj2 = tj, !.Td = td, !.decel_dist = dist,
                          !.v_at_dec_start = current_vel]
        /\ start_pos' = current_pos /\ segment' = "DEC_JERK_UP"
        /\ seg_elapsed' = 0 /\ current_acc' = 0
        /\ UNCHANGED <<current_pos, current_vel, limits>>
    BY <1>3 DEF StopFrom
  <2> HIDE DEF dist, td, tj
  <2>6. p' \in MovingFields /\ p'.max_acc = ma /\ p'.jerk = jk
    BY <2>1, <2>2, <2>4, <2>5 DEF MovingFields, PlanFields
  <2>7. target_pos' \in Int
    BY <2>1, <2>2, <2>4, <2>5
  <2> QED
    BY <2>4, <2>5, <2>6, <2>7 DEF IInv, TypeOK, MovingFields
<1> QED
  BY <1>1, <1>2, <1>3 DEF StopFrom

LEMMA InitInv == Init => IInv
<1> SUFFICES ASSUME Init PROVE IInv
  OBVIOUS
<1>1. p \in PlanFields
  BY DEF Init, NoProfile, PlanFields
<1>2. TypeOK
  BY <1>1, ConstantAssumption DEF Init, TypeOK
<1> QED
  BY <1>2 DEF Init, IInv

LEMMA RetunedFields ==
  ASSUME IInv, segment # "DONE", NEW r \in StopLimits, NEW mv \in {r.max_vel, p.max_vel}
  PROVE  [p EXCEPT !.max_vel = mv, !.max_acc = r.max_acc, !.jerk = r.jerk] \in MovingFields
<1> DEFINE q == [p EXCEPT !.max_vel = mv, !.max_acc = r.max_acc, !.jerk = r.jerk]
<1>1. r \in LimitSet /\ MaxSpeed \in Nat
  BY ConstantAssumption
<1>2. p \in MovingFields
  BY DEF IInv
<1>3. /\ r.max_vel \in 1..MaxSpeed /\ r.max_acc \in Nat \ {0} /\ r.jerk \in Nat \ {0}
  BY <1>1 DEF LimitSet
<1>4. p \in PlanFields /\ p.direction # 0 /\ p.max_vel \in 1..MaxSpeed
  BY <1>2 DEF MovingFields, PlanFields
<1>8. mv \in Nat /\ mv \in 1..MaxSpeed /\ r.max_acc \in Nat /\ r.jerk \in Nat
  BY <1>1, <1>3, <1>4
<1>5. /\ q \in PlanFields /\ q.direction = p.direction
      /\ q.max_vel = mv /\ q.max_acc = r.max_acc /\ q.jerk = r.jerk
  BY <1>4, <1>8 DEF PlanFields
<1> HIDE DEF q
<1>6. q \in MovingFields
  BY <1>3, <1>4, <1>5, <1>8 DEF MovingFields
<1> QED
  BY <1>6 DEF q

LEMMA NextInv == IInv /\ [Next]_vars => IInv'
<1> SUFFICES ASSUME IInv, [Next]_vars PROVE IInv'
  OBVIOUS
<1>1. CASE \E plan \in Plans : Plan(plan)
  BY <1>1, PlanInv
<1>2. CASE Step
  BY <1>2, StepInv
<1>3. CASE Stop
  <2>1. segment # "DONE"
    BY <1>3 DEF Stop, StopFrom
  <2> QED
    BY <1>3, <2>1, StopInv DEF Stop, IInv
<1>4. CASE \E r \in StopLimits : StopOne(r)
  <2>1. PICK r \in StopLimits : \E mv \in {r.max_vel, p.max_vel} :
          /\ current_vel > 0
          /\ StopFrom([p EXCEPT !.max_vel = mv, !.max_acc = r.max_acc, !.jerk = r.jerk])
    BY <1>4 DEF StopOne
  <2>2. segment # "DONE"
    BY <2>1 DEF StopFrom
  <2> QED
    BY <2>1, <2>2, RetunedFields, StopInv
<1>5. CASE UNCHANGED vars
  BY <1>5 DEF vars, IInv, TypeOK
<1> QED
  BY <1>1, <1>2, <1>3, <1>4, <1>5 DEF Next

\* The inductive invariant holds in every reachable state.
THEOREM Invariance == Spec => []IInv
  BY InitInv, NextInv, PTL DEF Spec

\* Every field of the planner keeps its type, and the velocity stays between 0
\* and the fastest motion ever planned, whatever stops and replans interrupt.
THEOREM TypeCorrect == Spec => []TypeOK
<1>1. IInv => TypeOK
  BY DEF IInv
<1> QED
  BY <1>1, Invariance, PTL

-----------------------------------------------------------------------------
\* The velocity SCurve_Step integrates is bounded by the speed before the
\* cycle or by the limit in force.
LEMMA IntegrateIncrement ==
  ASSUME IInv, segment # "DONE", NEW v \in Nat, NEW a \in Int, NEW s, NEW e,
         Integrate(v, a, s, e),
         v <= current_vel \/ v <= p.max_vel
  PROVE  LET inc == (current_pos' - current_pos) * p.direction
         IN  -2 <= inc /\ inc <= AtLeast(current_vel, p.max_vel) + 2
<1>1. /\ p.direction \in {-1, 1} /\ p.max_vel \in Nat
      /\ current_pos \in Int /\ target_pos \in Int /\ current_vel \in Nat
  BY ConstantAssumption DEF IInv, TypeOK, MovingFields, PlanFields
<1>2. v <= AtLeast(current_vel, p.max_vel)
  BY <1>1 DEF AtLeast
<1>3. AtLeast(current_vel, p.max_vel) \in Nat
  BY <1>1 DEF AtLeast
<1> DEFINE dir == p.direction
           cap == AtLeast(current_vel, p.max_vel)
           pos == current_pos + v * dir
<1>4. \/ current_pos' = pos
      \/ current_pos' = target_pos /\ Abs(target_pos - pos) <= 2
  BY DEF Integrate
<1>5. cap \in Nat /\ v <= cap
  BY <1>2, <1>3
<1>6. dir = 1 \/ dir = -1
  BY <1>1
<1>7. -2 <= (current_pos' - current_pos) * dir /\ (current_pos' - current_pos) * dir <= cap + 2
  <2> HIDE DEF dir, cap
  <2>1. CASE dir = 1
    BY <1>1, <1>4, <1>5, <2>1 DEF Abs
  <2>2. CASE dir = -1
    BY <1>1, <1>4, <1>5, <2>2 DEF Abs
  <2> QED
    BY <1>6, <2>1, <2>2
<1> QED
  BY <1>7

LEMMA StepIncrements ==
  ASSUME IInv, Step
  PROVE  LET inc == (current_pos' - current_pos) * p.direction
         IN  -2 <= inc /\ inc <= AtLeast(current_vel, p.max_vel) + 2
<1>1. segment # "DONE"
  BY DEF Step, AccJerkUp, AccConst, AccJerkDown, ConstVel, DecJerkUp, DecConst, DecJerkDown
<1>2. \E v \in Nat, a \in Int : \E s, e :
         Integrate(v, a, s, e) /\ (v <= current_vel \/ v <= p.max_vel)
  <2>1. /\ current_vel \in Nat /\ current_acc \in Int
        /\ p.max_vel \in Nat /\ p.max_acc \in Nat /\ p.jerk \in Nat
    BY <1>1, MovingFacts
  <2>2. CASE AccJerkUp
    <3> DEFINE a == AtMost(current_acc + p.jerk, p.max_acc)
               v == AtMost(current_vel + a, p.max_vel)
    <3>1. a \in Int /\ v \in Nat /\ v <= p.max_vel
      BY <2>1, <2>2 DEF AccJerkUp, IInv, AtMost
    <3>2. \E s, e : Integrate(v, a, s, e)
      BY <2>2 DEF AccJerkUp, Timed
    <3> HIDE DEF a, v
    <3> QED
      BY <3>1, <3>2
  <2>3. CASE AccConst
    <3> DEFINE v == AtMost(current_vel + p.max_acc, p.max_vel)
    <3>1. v \in Nat /\ v <= p.max_vel
      BY <2>1 DEF AtMost
    <3>2. \E s, e : Integrate(v, current_acc, s, e)
      BY <2>3 DEF AccConst, Timed
    <3> HIDE DEF v
    <3> QED
      BY <2>1, <3>1, <3>2
  <2>4. CASE AccJerkDown
    <3> DEFINE a == AtLeast(current_acc - p.jerk, 0)
               v == AtMost(current_vel + a, p.max_vel)
    <3>1. a \in Int /\ v \in Nat /\ v <= p.max_vel
      BY <2>1 DEF AtLeast, AtMost
    <3>2. \E b \in {0, a} : \E s, e : Integrate(v, b, s, e)
      BY <2>4 DEF AccJerkDown
    <3> HIDE DEF a, v
    <3> QED
      BY <3>1, <3>2
  <2>5. CASE ConstVel
    BY <2>1, <2>5 DEF ConstVel
  <2>6. CASE DecJerkUp
    <3> DEFINE a == AtLeast(current_acc - p.jerk, -p.max_acc)
               v == AtLeast(current_vel + a, 0)
    <3>1. a \in Int /\ v \in Nat /\ v <= current_vel
      BY <2>1, <2>6 DEF DecJerkUp, IInv, AtLeast
    <3>2. \E s, e : Integrate(v, a, s, e)
      BY <2>6 DEF DecJerkUp, Timed
    <3> HIDE DEF a, v
    <3> QED
      BY <3>1, <3>2
  <2>7. CASE DecConst
    <3> DEFINE v == AtLeast(current_vel - p.max_acc, 0)
    <3>1. v \in Nat /\ v <= current_vel
      BY <2>1 DEF AtLeast
    <3>2. \E s, e : Integrate(v, current_acc, s, e)
      BY <2>7 DEF DecConst, Timed
    <3> HIDE DEF v
    <3> QED
      BY <2>1, <3>1, <3>2
  <2>8. CASE DecJerkDown
    <3> DEFINE a == AtMost(current_acc + p.jerk, 0)
               v == AtLeast(current_vel + a, 0)
    <3>1. a \in Int /\ v \in Nat /\ v <= current_vel
      BY <2>1 DEF AtMost, AtLeast
    <3>2. \/ Integrate(0, 0, "DONE", 0)
          \/ \E s, e : Integrate(v, a, s, e)
      BY <2>8 DEF DecJerkDown
    <3> HIDE DEF a, v
    <3> QED
      BY <2>1, <3>1, <3>2
  <2> QED
    BY <2>2, <2>3, <2>4, <2>5, <2>6, <2>7, <2>8 DEF Step
<1> QED
  BY <1>1, <1>2, IntegrateIncrement

\* A control cycle moves the commanded position at most two counts back and
\* two counts further than the speed in force, for every plan and every stop:
\* the planner itself never makes the jump the drive answers with 0x6320.
THEOREM NoJump == Spec => StepIncrement
<1>1. IInv /\ [Next]_vars
        => [Step => LET inc == (current_pos' - current_pos) * p.direction
                    IN  -2 <= inc /\ inc <= AtLeast(current_vel, p.max_vel) + 2]_vars
  BY StepIncrements
<1> QED
  BY <1>1, Invariance, PTL DEF Spec, StepIncrement

LEMMA DecelStep ==
  ASSUME IInv, [Next]_vars, ~(\E plan \in Plans : Plan(plan)), segment \in Decelerating
  PROVE  current_vel' <= current_vel /\ segment' \in Decelerating \cup {"DONE"}
<1>1. /\ current_vel \in Nat /\ current_acc \in Int /\ current_acc <= 0
      /\ p.max_acc \in Nat /\ p.jerk \in Nat
  BY MovingFacts DEF IInv
<1>2. CASE DecJerkUp
  BY <1>1, <1>2 DEF DecJerkUp, Timed, Integrate, AtLeast
<1>3. CASE DecConst
  BY <1>1, <1>3 DEF DecConst, Timed, Integrate, AtLeast
<1>4. CASE DecJerkDown
  BY <1>1, <1>4 DEF DecJerkDown, Integrate, AtLeast, AtMost
<1>5. ~(AccJerkUp \/ AccConst \/ AccJerkDown \/ ConstVel)
  BY DEF AccJerkUp, AccConst, AccJerkDown, ConstVel, Decelerating
<1>6. ASSUME NEW q, StopFrom(q)
      PROVE  current_vel' <= current_vel /\ segment' \in Decelerating
  BY <1>1, <1>6 DEF StopFrom, Decelerating, Accelerating
<1>8. CASE Stop \/ \E r \in StopLimits : StopOne(r)
  BY <1>6, <1>8 DEF Stop, StopOne
<1>7. CASE UNCHANGED vars
  BY <1>1, <1>7 DEF vars
<1> QED
  BY <1>2, <1>3, <1>4, <1>5, <1>7, <1>8 DEF Next, Step

\* From the first cycle of a deceleration to DONE the velocity only falls,
\* even when further stops change the limits under it.
THEOREM NeverTurnsRound == Spec => DecelOnly
<1>1. IInv /\ [Next]_vars
        => [~(\E plan \in Plans : Plan(plan)) /\ segment \in Decelerating
              => /\ current_vel' <= current_vel
                 /\ segment' \in Decelerating \cup {"DONE"}]_vars
  BY DecelStep
<1> QED
  BY <1>1, Invariance, PTL DEF Spec, DecelOnly

-----------------------------------------------------------------------------
\* A cycle of an acceleration, as SCurve_Step computes it.
LEMMA Rise1Next ==
  ASSUME NEW t \in Nat \ {0}, NEW J \in Nat \ {0}, NEW M \in Nat \ {0}, NEW n \in Nat, n < t
  PROVE  LET u == Rise1(t, J, M, n)
             r == Rise1(t, J, M, n + 1)
         IN  /\ r.acc = AtMost(u.acc + J, t * J)
             /\ r.vel = AtMost(u.vel + r.acc, M) /\ r.pos = u.pos + r.vel
<1> DEFINE u == Rise1(t, J, M, n)
           r == Rise1(t, J, M, n + 1)
           A == t * J
<1>0. A \in Nat /\ A \in Int /\ n \in 0..t
  OBVIOUS
<1>1. r = SimCycle(u, J, 0, A, M)
  BY <1>0, RestState, RampNext DEF Rise1
<1>2. u \in SimState /\ u.acc = n * J /\ u.vel \in 0..M
  BY <1>0, Rise1Facts
<1>3. u.acc \in Nat /\ u.vel \in Nat
  BY <1>2
<1> HIDE DEF u, r, A
<1>4. /\ Clamp(u.acc + J, 0, A) = AtMost(u.acc + J, A) /\ AtMost(u.acc + J, A) \in Nat
  BY <1>0, <1>3 DEF Clamp, AtLeast, AtMost
<1> DEFINE a == AtMost(u.acc + J, A)
<1>5. Clamp(u.vel + a, 0, M) = AtMost(u.vel + a, M)
  <2> HIDE DEF a
  <2> QED BY <1>3, <1>4 DEF Clamp, AtLeast, AtMost, a
<1>6. r = [acc |-> a, vel |-> AtMost(u.vel + a, M), pos |-> u.pos + AtMost(u.vel + a, M)]
  BY <1>1, <1>4, <1>5 DEF SimCycle
<1> HIDE DEF a
<1>7. r.acc = a /\ r.vel = AtMost(u.vel + a, M) /\ r.pos = u.pos + AtMost(u.vel + a, M)
  BY <1>6
<1> QED BY <1>7 DEF a, u, r, A

LEMMA Rise2Next ==
  ASSUME NEW t \in Nat \ {0}, NEW J \in Nat \ {0}, NEW M \in Nat \ {0}, NEW n \in Nat
  PROVE  LET u == Rise2(t, J, M, n)
             r == Rise2(t, J, M, n + 1)
         IN  /\ Rise2(t, J, M, 0) = Rise1(t, J, M, t)
             /\ r.acc = u.acc /\ r.vel = AtMost(u.vel + t * J, M) /\ r.pos = u.pos + r.vel
<1> DEFINE s == Rise1(t, J, M, t)
           u == Rise2(t, J, M, n)
           r == Rise2(t, J, M, n + 1)
           A == t * J
<1>0. A \in Nat /\ A \in Int /\ t \in 0..t
  OBVIOUS
<1>1. s \in SimState
  BY <1>0, Rise1Facts
<1>2. Rise2(t, J, M, 0) = s
  BY <1>0, <1>1, RampZero DEF Rise2
<1>3. r = SimCycle(u, 0, 0, A, M)
  BY <1>0, <1>1, RampNext DEF Rise2
<1>4. u \in SimState /\ u.acc = A /\ u.vel \in 1..M
  BY Rise2Facts
<1> HIDE DEF u, r, A, s
<1>5. Clamp(u.acc + 0, 0, A) = A /\ Clamp(u.vel + A, 0, M) = AtMost(u.vel + A, M)
  BY <1>0, <1>4 DEF Clamp, AtLeast, AtMost
<1>6. r = [acc |-> A, vel |-> AtMost(u.vel + A, M), pos |-> u.pos + AtMost(u.vel + A, M)]
  BY <1>3, <1>5 DEF SimCycle
<1>7. r.acc = A /\ r.vel = AtMost(u.vel + A, M) /\ r.pos = u.pos + AtMost(u.vel + A, M)
  BY <1>6
<1> QED BY <1>2, <1>4, <1>7 DEF u, r, A, s

LEMMA Rise3Next ==
  ASSUME NEW t \in Nat \ {0}, NEW ta \in Nat, NEW J \in Nat \ {0}, NEW M \in Nat \ {0},
         NEW n \in Nat, n < t
  PROVE  LET u == Rise3(t, ta, J, M, n)
             r == Rise3(t, ta, J, M, n + 1)
         IN  /\ Rise3(t, ta, J, M, 0) = Rise2(t, J, M, ta)
             /\ r.acc = AtLeast(u.acc - J, 0) /\ (r.acc = 0 => n + 1 = t)
             /\ r.vel = AtMost(u.vel + r.acc, M) /\ r.pos = u.pos + r.vel
<1> DEFINE s == Rise2(t, J, M, ta)
           u == Rise3(t, ta, J, M, n)
           r == Rise3(t, ta, J, M, n + 1)
           A == t * J
<1>0. A \in Nat /\ A \in Int /\ n \in 0..t /\ n + 1 \in 0..t /\ -J \in Int /\ M \in Int
  OBVIOUS
<1>1. s \in SimState
  BY Rise2Facts
<1>2. Rise3(t, ta, J, M, 0) = s
  BY <1>0, <1>1, RampZero DEF Rise3
<1>3. r = SimCycle(u, -J, 0, A, M)
  BY <1>0, <1>1, RampNext DEF Rise3
<1>4. u \in SimState /\ u.acc = (t - n) * J /\ u.vel \in 1..M
  BY <1>0, Rise3Facts
<1>5. r.acc = (t - (n + 1)) * J
  <2>1. \A m \in 0..t : Rise3(t, ta, J, M, m).acc = (t - m) * J
    BY Rise3Facts
  <2> QED BY <1>0, <2>1
<1>6. u.acc \in Nat /\ u.acc <= A
  <2>1. (t - n) * J \in Nat /\ (t - n) * J + n * J = t * J /\ n * J \in Nat
    <3>1. t - n \in Nat
      BY <1>0
    <3>2. (t - n) * J \in Nat /\ n * J \in Nat /\ (t - n) * J + n * J = t * J
      BY <3>1
    <3> QED BY <3>2
  <2> HIDE DEF u
  <2> QED BY <1>0, <1>4, <2>1
<1>7. r.acc = 0 => n + 1 = t
  <2> SUFFICES ASSUME n + 1 # t PROVE (t - (n + 1)) * J # 0
    BY <1>5
  <2> DEFINE m == t - (n + 1)
  <2>1. m \in Nat \ {0}
    BY <1>0
  <2> HIDE DEF m
  <2>2. m * J # 0
    BY <2>1
  <2> QED BY <2>2 DEF m
<1> HIDE DEF u, r, A, s
<1>8. /\ Clamp(u.acc + (-J), 0, A) = AtLeast(u.acc - J, 0) /\ AtLeast(u.acc - J, 0) \in Nat
  BY <1>0, <1>6 DEF Clamp, AtLeast, AtMost
<1> DEFINE a == AtLeast(u.acc - J, 0)
<1>9. Clamp(u.vel + a, 0, M) = AtMost(u.vel + a, M)
  <2> HIDE DEF a
  <2> QED BY <1>4, <1>8 DEF Clamp, AtLeast, AtMost, a
<1>10. r = [acc |-> a, vel |-> AtMost(u.vel + a, M), pos |-> u.pos + AtMost(u.vel + a, M)]
  BY <1>3, <1>8, <1>9 DEF SimCycle
<1> HIDE DEF a
<1>11. r.acc = a /\ r.vel = AtMost(u.vel + a, M) /\ r.pos = u.pos + AtMost(u.vel + a, M)
  BY <1>10
<1> QED BY <1>2, <1>7, <1>11 DEF a, u, r, A, s

\* An acceleration that ends begins with what the constant one has reached.
LEMMA Rise3Begins ==
  ASSUME NEW t \in Nat \ {0}, NEW ta \in Nat, NEW J \in Nat \ {0}, NEW M \in Nat \ {0}
  PROVE  Rise3(t, ta, J, M, 0) = Rise2(t, J, M, ta)
<1>1. 0 \in Nat /\ 0 < t
  OBVIOUS
<1> QED BY <1>1, Rise3Next

-----------------------------------------------------------------------------
\* The distance covered in the sense of the motion.
Travel == current_pos * (IF p.direction > 0 THEN 1 ELSE -1)

\* The motion stands where the simulated acceleration has come to.
At(u) == current_vel = u.vel /\ current_acc = u.acc /\ Travel = u.pos

\* The displacement is not shorter than the shortest profile.
Far == Abs(target_pos) >= 2 * AtMost(p.jerk, p.max_vel)

\* The fields are those of the plan for the target.
Planned ==
  start_pos = 0 /\ target_pos # 0 /\ WellPlanned(p, target_pos, p.max_vel, p.jerk)

\* Until it decelerates, the planner follows the simulation of its plan.
Rising ==
  /\ segment = "ACC_JERK_UP" =>
       seg_elapsed < p.Tj /\ At(Rise1(p.Tj, p.jerk, p.max_vel, seg_elapsed))
  /\ segment = "ACC_CONST" =>
       seg_elapsed < p.Ta /\ At(Rise2(p.Tj, p.jerk, p.max_vel, seg_elapsed))
  /\ segment = "ACC_JERK_DOWN" =>
       seg_elapsed < p.Tj /\ At(Rise3(p.Tj, p.Ta, p.jerk, p.max_vel, seg_elapsed))
  /\ segment = "CONST_VEL" =>
       /\ current_vel = AccelEnd(p).vel /\ Travel >= current_vel
       /\ Far => Remaining > p.decel_dist

\* The deceleration began with the distance x to go: after a plan about the one
\* planned, after a stop the one announced.
Began(x) ==
  \/ /\ Planned /\ p.v_at_dec_start = AccelEnd(p).vel
     /\ Far => -p.max_vel < x - p.decel_dist /\ x - p.decel_dist < p.max_vel
  \/ /\ start_pos # 0
     /\ p.Tj2 = StopTj2(p.max_acc, p.jerk)
     /\ p.Td = StopTd(p.v_at_dec_start, p.max_acc, p.jerk)
     /\ x = StopDist(p.v_at_dec_start, p.max_acc, p.jerk)

\* The deceleration stands at the state u of its simulation.
Fallen(u) == current_vel = u.vel /\ current_acc = u.acc /\ Began(Remaining + u.pos)

\* Decelerating, the planner follows the simulation from the speed at its start.
Sinking ==
  /\ segment = "DEC_JERK_UP" =>
       /\ seg_elapsed < p.Tj2
       /\ Fallen(Fall1(p.v_at_dec_start, p.max_acc, p.jerk, seg_elapsed))
  /\ segment = "DEC_CONST" =>
       /\ seg_elapsed < p.Td
       /\ Fallen(Fall2(p.v_at_dec_start, p.Tj2, p.max_acc, p.jerk, seg_elapsed))
  /\ segment = "DEC_JERK_DOWN" =>
       /\ seg_elapsed < p.Tj2
       /\ Fallen(Fall3(p.v_at_dec_start, p.Tj2, p.Td, p.max_acc, p.jerk, seg_elapsed))

\* The planner is where the simulation of its plan, or of its stop, has come to.
Simulated ==
  /\ segment \in Accelerating \cup {"CONST_VEL"} => Planned
  /\ Rising /\ Sinking
  /\ segment = "DONE" /\ start_pos # 0 => Remaining \in 0..(3 * p.max_acc)

\* No stop arrives with other limits while the planner decelerates.
KeepsLimits == segment \in Decelerating /\ segment' \in Decelerating => p' = p

\* A cycle that lands on the target, and one that does not.
Lands ==
  /\ segment' = "DONE" /\ current_pos' = target_pos
  /\ target_pos' = target_pos /\ start_pos' = start_pos

Moves(v, a, s, e) ==
  /\ segment' = s /\ seg_elapsed' = e /\ current_vel' = v /\ current_acc' = a
  /\ current_pos' = current_pos + v * p.direction
  /\ target_pos' = target_pos /\ start_pos' = start_pos

\* The fields only change where a deceleration begins.
Keeps(v, s) ==
  p' = IF s = "DEC_JERK_UP" /\ segment # s THEN [p EXCEPT !.v_at_dec_start = v] ELSE p

LEMMA IntegrateCases ==
  ASSUME NEW v, NEW a, NEW s, NEW e, Integrate(v, a, s, e)
  PROVE  (Lands \/ Moves(v, a, s, e)) /\ Keeps(v, s)
BY DEF Integrate, Lands, Moves, Keeps

\* What does not change when a deceleration notes its first velocity.
LEMMA NotedVelocity ==
  ASSUME IInv, NEW v \in Nat, NEW s, Keeps(v, s)
  PROVE  /\ p'.direction = p.direction /\ p'.max_vel = p.max_vel /\ p'.max_acc = p.max_acc
         /\ p'.jerk = p.jerk /\ p'.Tj = p.Tj /\ p'.Ta = p.Ta /\ p'.Tv = p.Tv /\ p'.Td = p.Td
         /\ p'.Tj2 = p.Tj2 /\ p'.decel_dist = p.decel_dist /\ p' \in PlanFields
         /\ s = "DEC_JERK_UP" /\ segment # s => p'.v_at_dec_start = v
<1>1. p \in PlanFields
  BY DEF IInv, TypeOK
<1> QED BY <1>1 DEF Keeps, PlanFields

LEMMA NotedPlan ==
  ASSUME IInv, NEW v \in Nat, NEW s, Keeps(v, s), Planned,
         target_pos' = target_pos, start_pos' = start_pos
  PROVE  /\ Planned' /\ AccelEnd(p)' = AccelEnd(p) /\ Far' = Far
<1>1. /\ p'.direction = p.direction /\ p'.max_vel = p.max_vel /\ p'.max_acc = p.max_acc
      /\ p'.jerk = p.jerk /\ p'.Tj = p.Tj /\ p'.Ta = p.Ta /\ p'.Tv = p.Tv /\ p'.Td = p.Td
      /\ p'.Tj2 = p.Tj2 /\ p'.decel_dist = p.decel_dist /\ p' \in PlanFields
  BY NotedVelocity
<1>2. AccelEnd(p)' = AccelEnd(p)
  BY <1>1 DEF AccelEnd
<1>3. PlannedDecel(p)' = PlannedDecel(p)
  BY <1>1, <1>2 DEF PlannedDecel
<1>4. Regular(p) => Regular(p)'
  BY <1>1 DEF Regular
<1>5. Far' = Far
  BY <1>1 DEF Far
<1>6. Fits(p, Abs(target_pos)) => Fits(p, Abs(target_pos))'
  BY <1>1, <1>2, <1>3 DEF Fits
<1>7. Planned'
  BY <1>1, <1>3, <1>4, <1>6 DEF Planned, WellPlanned
<1> QED BY <1>2, <1>5, <1>7

\* Types of a planner that moves, and the way left of one that follows its plan.
LEMMA MovingTypes ==
  ASSUME IInv, segment # "DONE"
  PROVE  /\ current_pos \in Int /\ target_pos \in Int /\ start_pos \in Int
         /\ p.direction \in {-1, 1} /\ current_vel \in Nat /\ current_acc \in Int
         /\ seg_elapsed \in Nat /\ Travel \in Int /\ Remaining \in Int
<1>1. /\ current_pos \in Int /\ target_pos \in Int /\ start_pos \in Int
      /\ p.direction \in {-1, 1} /\ current_vel \in Nat /\ current_acc \in Int
      /\ seg_elapsed \in Nat
  BY ConstantAssumption DEF IInv, TypeOK, MovingFields, PlanFields
<1>2. Travel \in Int /\ Remaining \in Int
  BY <1>1 DEF Travel, Remaining
<1> QED BY <1>1, <1>2

LEMMA PlannedWay ==
  ASSUME IInv, segment # "DONE", Planned
  PROVE  Remaining = Abs(target_pos) - Travel
<1>1. target_pos \in Int /\ target_pos # 0 /\ current_pos \in Int
      /\ p.direction = IF target_pos < 0 THEN -1 ELSE 1
  BY MovingTypes DEF Planned, WellPlanned
<1> QED BY <1>1 DEF Remaining, Travel, Abs

LEMMA MovesBy ==
  ASSUME IInv, segment # "DONE", NEW v \in Nat, NEW a, NEW s, NEW e,
         Moves(v, a, s, e), p'.direction = p.direction
  PROVE  Travel' = Travel + v /\ Remaining' = Remaining - v
<1>1. current_pos \in Int /\ target_pos \in Int /\ p.direction \in {-1, 1}
  BY MovingTypes
<1>2. current_pos' = current_pos + v * p.direction /\ target_pos' = target_pos
  BY DEF Moves
<1>3. CASE p.direction = 1
  BY <1>1, <1>2, <1>3 DEF Travel, Remaining
<1>4. CASE p.direction = -1
  BY <1>1, <1>2, <1>4 DEF Travel, Remaining
<1> QED BY <1>1, <1>3, <1>4

\* A planner that lands is on its target.
LEMMA LandsSimulated ==
  ASSUME IInv, segment # "DONE", NEW v \in Nat, NEW s, Keeps(v, s), Lands
  PROVE  Simulated'
<1>1. p'.max_acc \in Nat
  BY NotedVelocity DEF PlanFields
<1>2. target_pos \in Int
  BY MovingTypes
<1>3. Remaining' = 0
  BY <1>2 DEF Lands, Remaining
<1>4. 0 \in 0..(3 * p'.max_acc)
  BY <1>1
<1>5. segment' = "DONE"
  BY DEF Lands
<1> QED BY <1>3, <1>4, <1>5 DEF Simulated, Rising, Sinking

\* A cycle that neither lands nor begins a deceleration.
Proceeds(v, a, s, e) ==
  /\ segment' = s /\ seg_elapsed' = e /\ current_vel' = v /\ current_acc' = a
  /\ Travel' = Travel + v /\ Remaining' = Remaining - v
  /\ start_pos' = start_pos /\ target_pos' = target_pos /\ p' = p

LEMMA StepCases ==
  ASSUME IInv, segment # "DONE", NEW v \in Nat, NEW a, NEW s, NEW e,
         Integrate(v, a, s, e), s # "DEC_JERK_UP" \/ segment = s
  PROVE  Simulated' \/ Proceeds(v, a, s, e)
<1>1. (Lands \/ Moves(v, a, s, e)) /\ Keeps(v, s)
  BY IntegrateCases
<1>2. p' = p
  BY <1>1 DEF Keeps
<1>3. CASE Lands
  BY <1>1, <1>3, LandsSimulated
<1>4. CASE Moves(v, a, s, e)
  <2>1. Travel' = Travel + v /\ Remaining' = Remaining - v
    BY <1>2, <1>4, MovesBy
  <2> QED BY <1>2, <1>4, <2>1 DEF Moves, Proceeds
<1> QED BY <1>1, <1>3, <1>4

LEMMA PlannedTypes ==
  ASSUME Planned
  PROVE  /\ p.Tj \in Nat \ {0} /\ p.jerk \in Nat \ {0} /\ p.max_vel \in Nat \ {0}
         /\ p.Ta \in Nat /\ p.Tv \in Nat /\ p.Td = p.Ta /\ p.Tj2 = p.Tj
         /\ p.max_acc = p.Tj * p.jerk /\ p.max_acc \in Nat \ {0}
         /\ p.decel_dist = PlannedDecel(p) /\ p.decel_dist \in Nat
         /\ AccelEnd(p).vel \in 1..p.max_vel
<1>1. Regular(p) /\ p.decel_dist = PlannedDecel(p) /\ p \in PlanFields
  BY DEF Planned, WellPlanned
<1>2. /\ p.Tj \in Nat \ {0} /\ p.jerk \in Nat \ {0} /\ p.max_vel \in Nat \ {0}
      /\ p.Ta \in Nat /\ p.Tv \in Nat /\ p.Td = p.Ta /\ p.Tj2 = p.Tj
      /\ p.max_acc = p.Tj * p.jerk
  BY <1>1 DEF Regular
<1>3. p.Tj * p.jerk \in Nat \ {0}
  BY <1>2
<1>4. AccelEnd(p).vel \in 1..p.max_vel
  BY <1>1, RegularFacts
<1> QED BY <1>1, <1>2, <1>3, <1>4 DEF PlanFields

\* What the distance to go is worth at the end of the acceleration.
LEMMA AccelEnds ==
  ASSUME Planned
  PROVE  LET c == AccelEnd(p)
         IN  /\ c = Rise3(p.Tj, p.Ta, p.jerk, p.max_vel, p.Tj)
             /\ c \in SimState /\ c.acc = 0 /\ c.vel \in 1..p.max_vel /\ c.pos >= c.vel
             /\ Far => /\ c.pos + c.vel * p.Tv + p.decel_dist <= Abs(target_pos)
                       /\ p.Tv = 0 => Abs(target_pos) < c.pos + p.decel_dist + p.max_vel
<1>1. /\ p.Tj \in Nat \ {0} /\ p.jerk \in Nat \ {0} /\ p.max_vel \in Nat \ {0}
      /\ p.Ta \in Nat /\ p.max_acc = p.Tj * p.jerk /\ p.decel_dist = PlannedDecel(p)
  BY PlannedTypes
<1>2. Accelerated(SimAccelPhase(p.Tj, p.Ta, p.Tj * p.jerk, p.jerk, p.max_vel),
                  p.Tj, p.Ta, p.jerk, p.max_vel)
  BY <1>1, AccelFacts
<1>3. AccelEnd(p) = SimAccelPhase(p.Tj, p.Ta, p.Tj * p.jerk, p.jerk, p.max_vel)
  BY <1>1 DEF AccelEnd
<1>4. Accelerated(AccelEnd(p), p.Tj, p.Ta, p.jerk, p.max_vel)
  BY <1>2, <1>3
<1>5. Far => Fits(p, Abs(target_pos))
  BY DEF Planned, WellPlanned, Far
<1> QED BY <1>1, <1>4, <1>5 DEF Accelerated, Fits

LEMMA JerkUpSimulated ==
  ASSUME IInv, Simulated, AccJerkUp
  PROVE  Simulated'
<1> DEFINE t == p.Tj
           J == p.jerk
           M == p.max_vel
           n == seg_elapsed
           u == Rise1(t, J, M, n)
           r == Rise1(t, J, M, n + 1)
           a == AtMost(current_acc + J, p.max_acc)
           v == AtMost(current_vel + a, M)
           s == IF p.Ta > 0 THEN "ACC_CONST" ELSE IF v >= M THEN "CONST_VEL" ELSE "ACC_JERK_DOWN"
<1>1. segment = "ACC_JERK_UP" /\ Planned /\ n < t /\ At(u)
  BY DEF AccJerkUp, Simulated, Rising
<1>2. /\ t \in Nat \ {0} /\ J \in Nat \ {0} /\ M \in Nat \ {0} /\ n \in Nat /\ p.Ta \in Nat
      /\ p.max_acc = t * J
  BY <1>1, PlannedTypes, MovingTypes
<1>3. IF n + 1 >= t THEN Integrate(v, a, s, 0) ELSE Integrate(v, a, "ACC_JERK_UP", n + 1)
  BY <1>1 DEF AccJerkUp, Timed
<1> HIDE DEF t, J, M, n
<1>4. /\ r.acc = AtMost(u.acc + J, t * J)
      /\ r.vel = AtMost(u.vel + r.acc, M) /\ r.pos = u.pos + r.vel
  BY <1>1, <1>2, Rise1Next
<1>5. current_vel = u.vel /\ current_acc = u.acc /\ Travel = u.pos
  BY <1>1 DEF At
<1>6. r.acc = a /\ r.vel = v /\ r.pos = Travel + v
  BY <1>2, <1>4, <1>5
<1>7. n + 1 \in 0..t
  BY <1>1, <1>2
<1>8. r \in SimState /\ r.vel \in 0..M /\ r.pos >= r.vel
  BY <1>2, <1>7, Rise1Facts
<1>9. v \in Nat
  BY <1>2, <1>6, <1>8
<1> HIDE DEF u, a, v
<1>10. CASE n + 1 < t
  <2>1. Simulated' \/ Proceeds(v, a, "ACC_JERK_UP", n + 1)
    BY <1>1, <1>2, <1>3, <1>9, <1>10, StepCases
  <2>2. ASSUME Proceeds(v, a, "ACC_JERK_UP", n + 1) PROVE Simulated'
    <3>1. /\ segment' = "ACC_JERK_UP" /\ seg_elapsed' = n + 1 /\ current_vel' = r.vel
          /\ current_acc' = r.acc /\ Travel' = r.pos /\ p' = p
          /\ start_pos' = start_pos /\ target_pos' = target_pos
      BY <1>6, <2>2 DEF Proceeds
    <3>2. Planned'
      BY <1>1, <3>1 DEF Planned
    <3>3. seg_elapsed' < p'.Tj /\ At(Rise1(p.Tj, p.jerk, p.max_vel, seg_elapsed))'
      BY <1>10, <3>1 DEF At, t, J, M
    <3> QED BY <3>1, <3>2, <3>3 DEF Simulated, Rising, Sinking
  <2> QED BY <2>1, <2>2
<1>11. CASE ~(n + 1 < t)
  <2>0. n + 1 = t /\ n + 1 >= t
    BY <1>1, <1>2, <1>11
  <2>1. Simulated' \/ Proceeds(v, a, s, 0)
    BY <1>1, <1>3, <1>9, <2>0, StepCases
  <2>2. ASSUME Proceeds(v, a, s, 0) PROVE Simulated'
    <3>1. /\ segment' = s /\ seg_elapsed' = 0 /\ current_vel' = r.vel
          /\ current_acc' = r.acc /\ Travel' = r.pos /\ p' = p
          /\ Remaining' = Remaining - v
          /\ start_pos' = start_pos /\ target_pos' = target_pos
      BY <1>6, <2>2 DEF Proceeds
    <3>2. Planned' /\ Far' = Far
      BY <1>1, <3>1 DEF Planned, Far
    <3>3. Rise2(t, J, M, 0) = r
      <4>1. Rise2(t, J, M, 0) = Rise1(t, J, M, t)
        BY <1>2, Rise2Next
      <4> QED BY <2>0, <4>1
    <3> HIDE DEF r
    <3>4. CASE p.Ta > 0
      <4>1. segment' = "ACC_CONST"
        BY <3>1, <3>4
      <4>2. seg_elapsed' < p'.Ta /\ At(Rise2(p.Tj, p.jerk, p.max_vel, seg_elapsed))'
        BY <1>2, <3>1, <3>3, <3>4 DEF At, t, J, M
      <4> QED BY <3>2, <4>1, <4>2 DEF Simulated, Rising, Sinking
    <3>5. CASE p.Ta = 0 /\ v >= M
      <4>1. segment' = "CONST_VEL"
        BY <3>1, <3>5
      <4>2. v = M
        BY <1>2, <1>6, <1>8, <3>5
      <4>3. AccelEnd(p) = SimAccelPhase(t, 0, t * J, J, M)
        BY <1>2, <3>5 DEF AccelEnd, t, J, M
      <4>4. AccelEnd(p).vel = M /\ AccelEnd(p).pos = r.pos + t * M
        <5>1. Rise1(t, J, M, t) = r
          BY <2>0 DEF r
        <5>2. Rise1(t, J, M, t).vel = M
          BY <1>6, <4>2, <5>1
        <5>3. LET c == SimAccelPhase(t, 0, t * J, J, M)
              IN  c.vel = M /\ c.pos = Rise1(t, J, M, t).pos + t * M
          BY <1>2, <5>2, SaturatedRise
        <5> QED BY <4>3, <5>1, <5>3
      <4>5. Far => Remaining' > p.decel_dist
        <5> SUFFICES ASSUME Far PROVE Remaining' > p.decel_dist
          OBVIOUS
        <5>1. AccelEnd(p).pos + AccelEnd(p).vel * p.Tv + p.decel_dist <= Abs(target_pos)
          BY <1>1, AccelEnds
        <5>2. Remaining' = Abs(target_pos) - r.pos
          <6>1. Remaining = Abs(target_pos) - Travel /\ Travel \in Int /\ Abs(target_pos) \in Int
            BY <1>1, PlannedWay, MovingTypes DEF Abs
          <6> QED BY <1>6, <1>9, <3>1, <6>1
        <5>3. t * M \in Nat \ {0} /\ M * p.Tv \in Nat /\ p.Tv \in Nat /\ p.decel_dist \in Nat
          <6>1. p.Tv \in Nat /\ p.decel_dist \in Nat
            BY <1>1, PlannedTypes
          <6> QED BY <1>2, <6>1
        <5>4. r.pos \in Int /\ Abs(target_pos) \in Int
          <6>1. target_pos \in Int
            BY <1>1, MovingTypes
          <6> QED BY <1>8, <6>1 DEF SimState, Abs
        <5> DEFINE x == t * M
                   y == M * p.Tv
                   d == Abs(target_pos)
        <5>5. r.pos + x + y + p.decel_dist <= d
          BY <4>4, <5>1
        <5>6. x \in Nat \ {0} /\ y \in Nat /\ d \in Int
          BY <5>3, <5>4
        <5> HIDE DEF x, y, d
        <5> QED BY <5>2, <5>3, <5>4, <5>5, <5>6 DEF d
      <4>6. /\ current_vel' = AccelEnd(p)'.vel /\ Travel' >= current_vel'
            /\ (Far => Remaining > p.decel_dist)'
        BY <1>2, <1>6, <1>8, <3>1, <3>2, <4>2, <4>4, <4>5
      <4> QED BY <3>2, <4>1, <4>6 DEF Simulated, Rising, Sinking
    <3>6. CASE p.Ta = 0 /\ ~(v >= M)
      <4>1. segment' = "ACC_JERK_DOWN"
        BY <3>1, <3>6
      <4>2. Rise3(t, 0, J, M, 0) = r
        <5>1. 0 \in Nat /\ 0 < t
          BY <1>2
        <5>2. Rise3(t, 0, J, M, 0) = Rise2(t, J, M, 0)
          BY <1>2, <5>1, Rise3Next
        <5> QED BY <3>3, <5>2
      <4>3. seg_elapsed' < p'.Tj /\ At(Rise3(p.Tj, p.Ta, p.jerk, p.max_vel, seg_elapsed))'
        BY <1>2, <3>1, <3>6, <4>2 DEF At, t, J, M
      <4> QED BY <3>2, <4>1, <4>3 DEF Simulated, Rising, Sinking
    <3>7. p.Ta > 0 \/ p.Ta = 0
      BY <1>2
    <3> QED BY <3>4, <3>5, <3>6, <3>7
  <2> QED BY <2>1, <2>2
<1> QED BY <1>10, <1>11

\* A planned deceleration begins near the distance SCurve_Plan found.
LEMMA DecelBegins ==
  ASSUME IInv, Planned, segment \in Accelerating \cup {"CONST_VEL"},
         NEW v, v = AccelEnd(p).vel, Integrate(v, 0, "DEC_JERK_UP", 0),
         Far => /\ -p.max_vel < Remaining - v - p.decel_dist
                /\ Remaining - v - p.decel_dist < p.max_vel
  PROVE  Simulated'
<1>0. v \in Nat
  BY PlannedTypes
<1>1. (Lands \/ Moves(v, 0, "DEC_JERK_UP", 0)) /\ Keeps(v, "DEC_JERK_UP")
  BY IntegrateCases
<1>2. CASE Lands
  BY <1>0, <1>1, <1>2, LandsSimulated
<1>3. CASE Moves(v, 0, "DEC_JERK_UP", 0)
  <2>1. /\ p'.direction = p.direction /\ p'.max_vel = p.max_vel /\ p'.max_acc = p.max_acc
        /\ p'.jerk = p.jerk /\ p'.Tj2 = p.Tj2 /\ p'.decel_dist = p.decel_dist
        /\ p'.v_at_dec_start = v
    BY <1>0, <1>1, NotedVelocity
  <2>2. /\ segment' = "DEC_JERK_UP" /\ seg_elapsed' = 0 /\ current_vel' = v /\ current_acc' = 0
        /\ target_pos' = target_pos /\ start_pos' = start_pos
    BY <1>3 DEF Moves
  <2>3. Planned' /\ AccelEnd(p)' = AccelEnd(p) /\ Far' = Far
    BY <1>0, <1>1, <2>2, NotedPlan
  <2>4. Remaining' = Remaining - v /\ Remaining \in Int
    BY <1>0, <1>3, <2>1, MovesBy, MovingTypes
  <2>5. Cruise(v) = [pos |-> 0, vel |-> v, acc |-> 0]
    BY DEF Cruise, Rest
  <2>6. Fall1(v, p.max_acc, p.jerk, 0) = Cruise(v)
    BY <1>0, PlannedTypes, Fall1Facts
  <2>7. p.Tj2 \in Nat \ {0}
    BY PlannedTypes
  <2> DEFINE u == Fall1(v, p.max_acc, p.jerk, 0)
  <2>8. u.vel = v /\ u.acc = 0 /\ u.pos = 0
    BY <2>5, <2>6
  <2>9. Fall1(p.v_at_dec_start, p.max_acc, p.jerk, seg_elapsed)' = u
    BY <2>1, <2>2
  <2> HIDE DEF u
  <2>10. Remaining' + u.pos = Remaining - v
    BY <1>0, <2>4, <2>8
  <2>11. (Began(Remaining + Fall1(p.v_at_dec_start, p.max_acc, p.jerk, seg_elapsed).pos))'
    BY <2>1, <2>3, <2>9, <2>10 DEF Began
  <2>12. (Fallen(Fall1(p.v_at_dec_start, p.max_acc, p.jerk, seg_elapsed)))'
    BY <2>2, <2>8, <2>9, <2>11 DEF Fallen
  <2> QED BY <2>1, <2>2, <2>7, <2>12 DEF Simulated, Rising, Sinking
<1> QED BY <1>1, <1>2, <1>3

LEMMA AccConstSimulated ==
  ASSUME IInv, Simulated, AccConst
  PROVE  Simulated'
<1> DEFINE t == p.Tj
           J == p.jerk
           M == p.max_vel
           n == seg_elapsed
           u == Rise2(t, J, M, n)
           r == Rise2(t, J, M, n + 1)
           v == AtMost(current_vel + p.max_acc, M)
<1>1. segment = "ACC_CONST" /\ Planned /\ n < p.Ta /\ At(u)
  BY DEF AccConst, Simulated, Rising
<1>2. /\ t \in Nat \ {0} /\ J \in Nat \ {0} /\ M \in Nat \ {0} /\ n \in Nat /\ p.Ta \in Nat
      /\ p.max_acc = t * J
  BY <1>1, PlannedTypes, MovingTypes
<1>3. IF n + 1 >= p.Ta THEN Integrate(v, current_acc, "ACC_JERK_DOWN", 0)
      ELSE Integrate(v, current_acc, "ACC_CONST", n + 1)
  BY <1>1 DEF AccConst, Timed
<1> HIDE DEF t, J, M, n
<1>t. t \in Nat \ {0} /\ J \in Nat \ {0} /\ M \in Nat \ {0} /\ n \in Nat /\ n + 1 \in Nat
  BY <1>2
<1>4. r.acc = u.acc /\ r.vel = AtMost(u.vel + t * J, M) /\ r.pos = u.pos + r.vel
  <2>1. /\ Rise2(t, J, M, 0) = Rise1(t, J, M, t)
        /\ Rise2(t, J, M, n + 1).acc = Rise2(t, J, M, n).acc
        /\ Rise2(t, J, M, n + 1).vel = AtMost(Rise2(t, J, M, n).vel + t * J, M)
        /\ Rise2(t, J, M, n + 1).pos = Rise2(t, J, M, n).pos + Rise2(t, J, M, n + 1).vel
    BY <1>t, Rise2Next
  <2> QED BY <2>1
<1>5. current_vel = u.vel /\ current_acc = u.acc /\ Travel = u.pos
  BY <1>1 DEF At
<1>6. r.acc = current_acc /\ r.vel = v /\ r.pos = Travel + v
  BY <1>2, <1>4, <1>5
<1>7. r.vel \in 1..M
  <2>1. \A k \in Nat : Rise2(t, J, M, k).vel \in 1..M
    BY <1>t, Rise2Facts
  <2> QED BY <1>t, <2>1
<1>8. v \in Nat
  BY <1>2, <1>6, <1>7
<1> HIDE DEF u, v
<1>9. CASE n + 1 < p.Ta
  <2>1. Simulated' \/ Proceeds(v, current_acc, "ACC_CONST", n + 1)
    BY <1>1, <1>2, <1>3, <1>8, <1>9, StepCases
  <2>2. ASSUME Proceeds(v, current_acc, "ACC_CONST", n + 1) PROVE Simulated'
    <3>1. /\ segment' = "ACC_CONST" /\ seg_elapsed' = n + 1 /\ current_vel' = r.vel
          /\ current_acc' = r.acc /\ Travel' = r.pos /\ p' = p
          /\ start_pos' = start_pos /\ target_pos' = target_pos
      BY <1>6, <2>2 DEF Proceeds
    <3>2. Planned'
      BY <1>1, <3>1 DEF Planned
    <3>3. seg_elapsed' < p'.Ta /\ At(Rise2(p.Tj, p.jerk, p.max_vel, seg_elapsed))'
      BY <1>9, <3>1 DEF At, t, J, M
    <3> QED BY <3>1, <3>2, <3>3 DEF Simulated, Rising, Sinking
  <2> QED BY <2>1, <2>2
<1>10. CASE ~(n + 1 < p.Ta)
  <2>0. n + 1 = p.Ta /\ n + 1 >= p.Ta
    BY <1>1, <1>2, <1>10
  <2>1. Simulated' \/ Proceeds(v, current_acc, "ACC_JERK_DOWN", 0)
    BY <1>1, <1>3, <1>8, <2>0, StepCases
  <2>2. ASSUME Proceeds(v, current_acc, "ACC_JERK_DOWN", 0) PROVE Simulated'
    <3>1. /\ segment' = "ACC_JERK_DOWN" /\ seg_elapsed' = 0 /\ current_vel' = r.vel
          /\ current_acc' = r.acc /\ Travel' = r.pos /\ p' = p
          /\ start_pos' = start_pos /\ target_pos' = target_pos
      BY <1>6, <2>2 DEF Proceeds
    <3>2. Planned'
      BY <1>1, <3>1 DEF Planned
    <3>3. Rise3(t, p.Ta, J, M, 0) = r
      <4>2. Rise3(t, p.Ta, J, M, 0) = Rise2(t, J, M, p.Ta)
        <5>1. p.Ta \in Nat
          BY <1>2
        <5> QED BY <1>t, <5>1, Rise3Begins
      <4> QED BY <2>0, <4>2
    <3> HIDE DEF r
    <3>4. seg_elapsed' < p'.Tj /\ At(Rise3(p.Tj, p.Ta, p.jerk, p.max_vel, seg_elapsed))'
      BY <1>2, <3>1, <3>3 DEF At, t, J, M
    <3> QED BY <3>1, <3>2, <3>4 DEF Simulated, Rising, Sinking
  <2> QED BY <2>1, <2>2
<1> QED BY <1>9, <1>10

LEMMA JerkDownSimulated ==
  ASSUME IInv, Simulated, AccJerkDown
  PROVE  Simulated'
<1> DEFINE t == p.Tj
           J == p.jerk
           M == p.max_vel
           n == seg_elapsed
           u == Rise3(t, p.Ta, J, M, n)
           r == Rise3(t, p.Ta, J, M, n + 1)
           c == AccelEnd(p)
           a == AtLeast(current_acc - J, 0)
           v == AtMost(current_vel + a, M)
           s == IF p.Tv > 0 THEN "CONST_VEL" ELSE "DEC_JERK_UP"
           d == Abs(target_pos)
<1>1. segment = "ACC_JERK_DOWN" /\ Planned /\ n < t /\ At(u)
  BY DEF AccJerkDown, Simulated, Rising
<1>2. /\ t \in Nat \ {0} /\ J \in Nat \ {0} /\ M \in Nat \ {0} /\ n \in Nat /\ p.Ta \in Nat
      /\ p.Tv \in Nat /\ p.decel_dist \in Nat
  BY <1>1, PlannedTypes, MovingTypes
<1>3. IF n + 1 >= t \/ a = 0 THEN Integrate(v, 0, s, 0)
      ELSE Integrate(v, a, "ACC_JERK_DOWN", n + 1)
  BY <1>1 DEF AccJerkDown
<1>c. /\ c = Rise3(p.Tj, p.Ta, p.jerk, p.max_vel, p.Tj)
      /\ c \in SimState /\ c.acc = 0 /\ c.vel \in 1..p.max_vel /\ c.pos >= c.vel
      /\ Far => /\ c.pos + c.vel * p.Tv + p.decel_dist <= Abs(target_pos)
                /\ p.Tv = 0 => Abs(target_pos) < c.pos + p.decel_dist + p.max_vel
  BY <1>1, AccelEnds
<1> HIDE DEF t, J, M, n
<1>4. /\ r.acc = AtLeast(u.acc - J, 0) /\ (r.acc = 0 => n + 1 = t)
      /\ r.vel = AtMost(u.vel + r.acc, M) /\ r.pos = u.pos + r.vel
  <2> DEFINE ta == p.Ta
  <2>1. /\ t \in Nat \ {0} /\ J \in Nat \ {0} /\ M \in Nat \ {0} /\ n \in Nat /\ n < t
        /\ ta \in Nat
    BY <1>1, <1>2
  <2>2. u = Rise3(t, ta, J, M, n) /\ r = Rise3(t, ta, J, M, n + 1)
    OBVIOUS
  <2> HIDE DEF ta, u, r
  <2>3. /\ Rise3(t, ta, J, M, 0) = Rise2(t, J, M, ta)
        /\ Rise3(t, ta, J, M, n + 1).acc = AtLeast(Rise3(t, ta, J, M, n).acc - J, 0)
        /\ Rise3(t, ta, J, M, n + 1).acc = 0 => n + 1 = t
        /\ Rise3(t, ta, J, M, n + 1).vel
             = AtMost(Rise3(t, ta, J, M, n).vel + Rise3(t, ta, J, M, n + 1).acc, M)
        /\ Rise3(t, ta, J, M, n + 1).pos
             = Rise3(t, ta, J, M, n).pos + Rise3(t, ta, J, M, n + 1).vel
    BY <2>1, Rise3Next
  <2> QED BY <2>2, <2>3
<1>5. current_vel = u.vel /\ current_acc = u.acc /\ Travel = u.pos
  BY <1>1 DEF At
<1>6. r.acc = a /\ r.vel = v /\ r.pos = Travel + v
  BY <1>2, <1>4, <1>5
<1>7. r.vel \in 1..M
  <2>1. n + 1 \in 0..t
    BY <1>1, <1>2
  <2> QED BY <1>2, <2>1, Rise3Facts
<1>8. v \in Nat
  BY <1>2, <1>6, <1>7
<1> HIDE DEF u, v, a
<1>9. CASE ~(n + 1 >= t \/ a = 0)
  <2>1. Simulated' \/ Proceeds(v, a, "ACC_JERK_DOWN", n + 1)
    BY <1>1, <1>3, <1>8, <1>9, StepCases
  <2>2. ASSUME Proceeds(v, a, "ACC_JERK_DOWN", n + 1) PROVE Simulated'
    <3>1. /\ segment' = "ACC_JERK_DOWN" /\ seg_elapsed' = n + 1 /\ current_vel' = r.vel
          /\ current_acc' = r.acc /\ Travel' = r.pos /\ p' = p
          /\ start_pos' = start_pos /\ target_pos' = target_pos
      BY <1>6, <2>2 DEF Proceeds
    <3>2. Planned'
      BY <1>1, <3>1 DEF Planned
    <3>3. seg_elapsed' < p'.Tj /\ At(Rise3(p.Tj, p.Ta, p.jerk, p.max_vel, seg_elapsed))'
      BY <1>2, <1>9, <3>1 DEF At, t, J, M
    <3> QED BY <3>1, <3>2, <3>3 DEF Simulated, Rising, Sinking
  <2> QED BY <2>1, <2>2
<1>10. CASE n + 1 >= t \/ a = 0
  <2>1. n + 1 = t
    BY <1>1, <1>2, <1>4, <1>6, <1>10
  <2>2. r = c
    BY <1>c, <2>1 DEF t, J, M
  <2> HIDE DEF r, c
  <2>3. Remaining = d - Travel /\ Travel \in Int /\ d \in Int
    BY <1>1, PlannedWay, MovingTypes DEF Abs
  <2>4. Remaining - v = d - c.pos /\ c.pos \in Int /\ c.vel \in 1..M /\ c.pos >= c.vel /\ v = c.vel
    BY <1>6, <1>8, <1>c, <2>2, <2>3 DEF SimState, M
  <2>5. Integrate(v, 0, s, 0)
    BY <1>3, <1>10
  <2>6. CASE p.Tv > 0
    <3>1. Simulated' \/ Proceeds(v, 0, "CONST_VEL", 0)
      BY <1>1, <1>8, <2>5, <2>6, StepCases
    <3>2. ASSUME Proceeds(v, 0, "CONST_VEL", 0) PROVE Simulated'
      <4>1. /\ segment' = "CONST_VEL" /\ current_vel' = c.vel
            /\ Travel' = c.pos /\ p' = p /\ Remaining' = d - c.pos
            /\ start_pos' = start_pos /\ target_pos' = target_pos
        BY <1>6, <2>2, <2>4, <3>2 DEF Proceeds
      <4>2. Planned' /\ Far' = Far
        BY <1>1, <4>1 DEF Planned, Far
      <4>3. Far => Remaining' > p.decel_dist
        <5> SUFFICES ASSUME Far PROVE Remaining' > p.decel_dist
          OBVIOUS
        <5>1. c.pos + c.vel * p.Tv + p.decel_dist <= d
          BY <1>c
        <5>2. c.vel * p.Tv \in Nat \ {0}
          BY <1>2, <2>4, <2>6
        <5> DEFINE y == c.vel * p.Tv
        <5>3. y \in Nat \ {0} /\ c.pos + y + p.decel_dist <= d
          BY <5>1, <5>2
        <5> HIDE DEF y, d
        <5> QED BY <1>2, <2>3, <2>4, <4>1, <5>3
      <4>4. /\ current_vel' = AccelEnd(p)'.vel /\ Travel' >= current_vel'
            /\ (Far => Remaining > p.decel_dist)'
        BY <2>4, <4>1, <4>2, <4>3 DEF c
      <4> QED BY <4>1, <4>2, <4>4 DEF Simulated, Rising, Sinking
    <3> QED BY <3>1, <3>2
  <2>7. CASE p.Tv = 0
    <3>1. Integrate(v, 0, "DEC_JERK_UP", 0)
      BY <2>5, <2>7
    <3>2. Far => /\ -p.max_vel < Remaining - v - p.decel_dist
                 /\ Remaining - v - p.decel_dist < p.max_vel
      <4> SUFFICES ASSUME Far
                   PROVE  /\ -p.max_vel < Remaining - v - p.decel_dist
                          /\ Remaining - v - p.decel_dist < p.max_vel
        OBVIOUS
      <4>1. c.pos + c.vel * p.Tv + p.decel_dist <= d /\ d < c.pos + p.decel_dist + p.max_vel
        BY <1>c, <2>7
      <4>2. c.vel * p.Tv = 0
        BY <2>4, <2>7
      <4>3. c.pos + p.decel_dist <= d
        BY <1>2, <2>4, <4>1, <4>2
      <4>4. M = p.max_vel
        BY DEF M
      <4> HIDE DEF d
      <4> QED BY <1>2, <2>3, <2>4, <4>1, <4>3, <4>4
    <3> QED BY <1>1, <2>4, <3>1, <3>2, DecelBegins DEF c
  <2>8. p.Tv > 0 \/ p.Tv = 0
    BY <1>2
  <2> QED BY <2>6, <2>7, <2>8
<1> QED BY <1>9, <1>10

LEMMA ConstVelSimulated ==
  ASSUME IInv, Simulated, ConstVel
  PROVE  Simulated'
<1>1. /\ segment = "CONST_VEL" /\ Planned
      /\ current_vel = AccelEnd(p).vel /\ Travel >= current_vel
      /\ Far => Remaining > p.decel_dist
  BY DEF ConstVel, Simulated, Rising
<1>2. /\ current_vel \in Nat /\ Remaining \in Int /\ Travel \in Int /\ seg_elapsed \in Nat
      /\ p.decel_dist \in Nat /\ p.max_vel \in Nat /\ current_vel \in 1..p.max_vel
  BY <1>1, MovingTypes, PlannedTypes
<1>3. CASE Remaining - current_vel <= p.decel_dist
  <2>1. Integrate(current_vel, 0, "DEC_JERK_UP", 0)
    BY <1>3 DEF ConstVel
  <2>2. Far => /\ -p.max_vel < Remaining - current_vel - p.decel_dist
               /\ Remaining - current_vel - p.decel_dist < p.max_vel
    BY <1>1, <1>2, <1>3
  <2> QED BY <1>1, <2>1, <2>2, DecelBegins
<1>4. CASE ~(Remaining - current_vel <= p.decel_dist)
  <2>1. Integrate(current_vel, 0, "CONST_VEL", seg_elapsed + 1)
    BY <1>1, <1>4 DEF ConstVel
  <2>2. Simulated' \/ Proceeds(current_vel, 0, "CONST_VEL", seg_elapsed + 1)
    BY <1>1, <1>2, <2>1, StepCases
  <2>3. ASSUME Proceeds(current_vel, 0, "CONST_VEL", seg_elapsed + 1) PROVE Simulated'
    <3>1. /\ segment' = "CONST_VEL" /\ current_vel' = current_vel
          /\ Travel' = Travel + current_vel /\ p' = p /\ Remaining' = Remaining - current_vel
          /\ start_pos' = start_pos /\ target_pos' = target_pos
      BY <2>3 DEF Proceeds
    <3>2. Planned' /\ Far' = Far
      BY <1>1, <3>1 DEF Planned, Far
    <3>3. /\ current_vel' = AccelEnd(p)'.vel /\ Travel' >= current_vel'
          /\ (Far => Remaining > p.decel_dist)'
      BY <1>1, <1>2, <1>4, <3>1, <3>2
    <3> QED BY <3>1, <3>2, <3>3 DEF Simulated, Rising, Sinking
  <2> QED BY <2>2, <2>3
<1> QED BY <1>3, <1>4

LEMMA DecelTypes ==
  ASSUME IInv, segment \in Decelerating
  PROVE  /\ p.v_at_dec_start \in Nat /\ p.Tj2 \in Nat /\ p.Td \in Nat
         /\ p.max_acc \in Nat \ {0} /\ p.jerk \in Nat \ {0} /\ seg_elapsed \in Nat
         /\ current_vel \in Nat /\ current_acc \in Int /\ Remaining \in Int
<1>1. p \in MovingFields
  BY DEF IInv
<1>2. /\ p.v_at_dec_start \in Nat /\ p.Tj2 \in Nat /\ p.Td \in Nat
      /\ p.max_acc \in Nat \ {0} /\ p.jerk \in Nat \ {0}
  BY <1>1 DEF MovingFields, PlanFields
<1> QED BY <1>2, MovingTypes

\* A cycle of the deceleration goes from a state u of the simulation to the next, r.
LEMMA SinksOn ==
  ASSUME NEW u, NEW r, NEW v \in Nat, NEW a, NEW s, NEW e, Proceeds(v, a, s, e),
         Fallen(u), Remaining \in Int, u.pos \in Nat,
         r.vel = v, r.acc = a, r.pos = u.pos + v
  PROVE  Fallen(r)'
<1>1. /\ current_vel' = r.vel /\ current_acc' = r.acc
      /\ start_pos' = start_pos /\ target_pos' = target_pos /\ p' = p
  BY DEF Proceeds
<1>2. Remaining' + r.pos = Remaining + u.pos
  BY DEF Proceeds
<1>3. Planned' = Planned /\ Far' = Far
  BY <1>1 DEF Planned, Far
<1>4. Began(Remaining + u.pos)
  BY DEF Fallen
<1>5. Began(Remaining + r.pos)'
  BY <1>1, <1>2, <1>3, <1>4 DEF Began
<1> QED BY <1>1, <1>5 DEF Fallen

LEMMA DecJerkUpSimulated ==
  ASSUME IInv, Simulated, DecJerkUp
  PROVE  Simulated'
<1> DEFINE w == p.v_at_dec_start
           A == p.max_acc
           J == p.jerk
           k == seg_elapsed
           n == p.Tj2
           a == AtLeast(current_acc - J, -A)
           v == AtLeast(current_vel + a, 0)
           s == IF p.Td > 0 THEN "DEC_CONST" ELSE "DEC_JERK_DOWN"
<1>1. segment = "DEC_JERK_UP" /\ k < n /\ Fallen(Fall1(w, A, J, k))
  BY DEF DecJerkUp, Simulated, Sinking
<1>2. /\ w \in Nat /\ n \in Nat /\ p.Td \in Nat /\ A \in Nat \ {0} /\ J \in Nat \ {0} /\ k \in Nat
      /\ current_vel \in Nat /\ current_acc \in Int /\ Remaining \in Int
  BY <1>1, DecelTypes
<1>3. IF k + 1 >= n THEN Integrate(v, a, s, 0) ELSE Integrate(v, a, "DEC_JERK_UP", k + 1)
  BY <1>1 DEF DecJerkUp, Timed
<1>4. PICK u : u = Fall1(w, A, J, k)
  OBVIOUS
<1>5. PICK r : r = Fall1(w, A, J, k + 1)
  OBVIOUS
<1>6. Fallen(u)
  BY <1>1, <1>4
<1> HIDE DEF w, A, J, k, n
<1>7. Follows(r, u, -J, w, A)
  BY <1>2, <1>4, <1>5, Fall1Facts
<1>8. current_vel = u.vel /\ current_acc = u.acc
  BY <1>6 DEF Fallen
<1>9. /\ r.acc = Clamp(u.acc + (-J), -A, 0) /\ u.acc \in (-A)..0 /\ r.acc \in (-A)..0
      /\ r.vel = AtLeast(u.vel + r.acc, 0) /\ r.vel \in 0..u.vel
      /\ r.pos = u.pos + r.vel /\ u.pos \in Nat /\ u.vel \in 0..w
  BY <1>7 DEF Follows, Falling
<1>10. r.acc = a
  BY <1>2, <1>8, <1>9 DEF Clamp, AtLeast, AtMost
<1>11. r.vel = v /\ v \in Nat
  BY <1>2, <1>8, <1>9, <1>10
<1> HIDE DEF a, v
<1>12. CASE k + 1 < n
  <2>1. Simulated' \/ Proceeds(v, a, "DEC_JERK_UP", k + 1)
    BY <1>1, <1>2, <1>3, <1>11, <1>12, StepCases
  <2>2. ASSUME Proceeds(v, a, "DEC_JERK_UP", k + 1) PROVE Simulated'
    <3>1. Fallen(r)'
      BY <1>2, <1>6, <1>9, <1>10, <1>11, <2>2, SinksOn
    <3>2. segment' = "DEC_JERK_UP" /\ seg_elapsed' = k + 1 /\ p' = p
      BY <2>2 DEF Proceeds
    <3>3. Fall1(p.v_at_dec_start, p.max_acc, p.jerk, seg_elapsed)' = r
      BY <1>5, <3>2 DEF w, A, J
    <3>4. Fallen(Fall1(p.v_at_dec_start, p.max_acc, p.jerk, seg_elapsed))'
      BY <3>1, <3>3 DEF Fallen, Began
    <3>5. seg_elapsed' < p'.Tj2
      BY <1>12, <3>2 DEF n
    <3> QED BY <3>2, <3>4, <3>5 DEF Simulated, Rising, Sinking
  <2> QED BY <2>1, <2>2
<1>13. CASE ~(k + 1 < n)
  <2>0. k + 1 = n /\ n \in Nat \ {0} /\ r = Fall1(w, A, J, n)
    BY <1>1, <1>2, <1>5, <1>13
  <2>1. Simulated' \/ Proceeds(v, a, s, 0)
    BY <1>1, <1>2, <1>3, <1>11, <2>0, StepCases
  <2>2. ASSUME Proceeds(v, a, s, 0) PROVE Simulated'
    <3>1. Fallen(r)'
      BY <1>2, <1>6, <1>9, <1>10, <1>11, <2>2, SinksOn
    <3>2. segment' = s /\ seg_elapsed' = 0 /\ p' = p
      BY <2>2 DEF Proceeds
    <3>3. Fall2(w, n, A, J, 0) = r
      BY <1>2, <2>0, Fall2Facts
    <3>4. CASE p.Td > 0
      <4>1. Fall2(p.v_at_dec_start, p.Tj2, p.max_acc, p.jerk, seg_elapsed)' = r
        BY <3>2, <3>3 DEF w, A, J, n
      <4>2. Fallen(Fall2(p.v_at_dec_start, p.Tj2, p.max_acc, p.jerk, seg_elapsed))'
        BY <3>1, <4>1 DEF Fallen, Began
      <4>3. segment' = "DEC_CONST" /\ seg_elapsed' < p'.Td
        BY <1>2, <3>2, <3>4
      <4> QED BY <4>2, <4>3 DEF Simulated, Rising, Sinking
    <3>5. CASE p.Td = 0
      <4>1. Fall3(w, n, 0, A, J, 0) = r
        <5>1. 0 \in Nat
          OBVIOUS
        <5>2. Fall3(w, n, 0, A, J, 0) = Fall2(w, n, A, J, 0)
          BY <1>2, <5>1, Fall3Start
        <5> QED BY <3>3, <5>2
      <4>2. Fall3(p.v_at_dec_start, p.Tj2, p.Td, p.max_acc, p.jerk, seg_elapsed)' = r
        BY <3>2, <3>5, <4>1 DEF w, A, J, n
      <4>3. Fallen(Fall3(p.v_at_dec_start, p.Tj2, p.Td, p.max_acc, p.jerk, seg_elapsed))'
        BY <3>1, <4>2 DEF Fallen, Began
      <4>4. segment' = "DEC_JERK_DOWN" /\ seg_elapsed' < p'.Tj2
        BY <2>0, <3>2, <3>5 DEF n
      <4> QED BY <4>3, <4>4 DEF Simulated, Rising, Sinking
    <3> QED BY <1>2, <3>4, <3>5
  <2> QED BY <2>1, <2>2
<1> QED BY <1>12, <1>13

LEMMA DecConstSimulated ==
  ASSUME IInv, Simulated, DecConst
  PROVE  Simulated'
<1> DEFINE w == p.v_at_dec_start
           A == p.max_acc
           J == p.jerk
           k == seg_elapsed
           n == p.Tj2
           td == p.Td
           a == current_acc
           v == AtLeast(current_vel - A, 0)
<1>1. segment = "DEC_CONST" /\ k < td /\ Fallen(Fall2(w, n, A, J, k))
  BY DEF DecConst, Simulated, Sinking
<1>2. /\ w \in Nat /\ n \in Nat /\ td \in Nat /\ A \in Nat \ {0} /\ J \in Nat \ {0} /\ k \in Nat
      /\ current_vel \in Nat /\ current_acc \in Int /\ Remaining \in Int
  BY <1>1, DecelTypes
<1>3. IF k + 1 >= td THEN Integrate(v, a, "DEC_JERK_DOWN", 0)
      ELSE Integrate(v, a, "DEC_CONST", k + 1)
  BY <1>1 DEF DecConst, Timed
<1>4. PICK u : u = Fall2(w, n, A, J, k)
  OBVIOUS
<1>5. PICK r : r = Fall2(w, n, A, J, k + 1)
  OBVIOUS
<1>6. Fallen(u)
  BY <1>1, <1>4
<1> HIDE DEF w, A, J, k, n, td
<1>7. Glides(r, u, Fall1(w, A, J, n), k, w, A)
  BY <1>2, <1>4, <1>5, Fall2Next
<1>8. current_vel = u.vel /\ current_acc = u.acc
  BY <1>6 DEF Fallen
<1>9. /\ r.acc = u.acc /\ r.vel = AtLeast(u.vel - A, 0)
      /\ r.pos = u.pos + r.vel /\ u.pos \in Nat /\ u.vel \in 0..w
  BY <1>7 DEF Glides, Falling
<1>10. r.acc = a /\ r.vel = v
  BY <1>8, <1>9
<1>11. v \in Nat
  BY <1>2 DEF AtLeast
<1> HIDE DEF a, v
<1>12. CASE k + 1 < td
  <2>1. Simulated' \/ Proceeds(v, a, "DEC_CONST", k + 1)
    BY <1>1, <1>2, <1>3, <1>11, <1>12, StepCases
  <2>2. ASSUME Proceeds(v, a, "DEC_CONST", k + 1) PROVE Simulated'
    <3>1. Fallen(r)'
      BY <1>2, <1>6, <1>9, <1>10, <1>11, <2>2, SinksOn
    <3>2. segment' = "DEC_CONST" /\ seg_elapsed' = k + 1 /\ p' = p
      BY <2>2 DEF Proceeds
    <3>3. Fall2(p.v_at_dec_start, p.Tj2, p.max_acc, p.jerk, seg_elapsed)' = r
      BY <1>5, <3>2 DEF w, A, J, n
    <3>4. Fallen(Fall2(p.v_at_dec_start, p.Tj2, p.max_acc, p.jerk, seg_elapsed))'
      BY <3>1, <3>3 DEF Fallen, Began
    <3>5. seg_elapsed' < p'.Td
      BY <1>12, <3>2 DEF td
    <3> QED BY <3>2, <3>4, <3>5 DEF Simulated, Rising, Sinking
  <2> QED BY <2>1, <2>2
<1>13. CASE ~(k + 1 < td)
  <2>0. k + 1 = td /\ k + 1 >= td
    BY <1>1, <1>2, <1>13
  <2>1. Simulated' \/ Proceeds(v, a, "DEC_JERK_DOWN", 0)
    BY <1>1, <1>3, <1>11, <2>0, StepCases
  <2>2. ASSUME Proceeds(v, a, "DEC_JERK_DOWN", 0) PROVE Simulated'
    <3>1. Fallen(r)'
      BY <1>2, <1>6, <1>9, <1>10, <1>11, <2>2, SinksOn
    <3>2. segment' = "DEC_JERK_DOWN" /\ seg_elapsed' = 0 /\ p' = p
      BY <2>2 DEF Proceeds
    <3>3. Fall3(w, n, td, A, J, 0) = r
      BY <1>2, <1>5, <2>0, Fall3Start
    <3>4. Fall3(p.v_at_dec_start, p.Tj2, p.Td, p.max_acc, p.jerk, seg_elapsed)' = r
      BY <3>2, <3>3 DEF w, A, J, n, td
    <3>5. Fallen(Fall3(p.v_at_dec_start, p.Tj2, p.Td, p.max_acc, p.jerk, seg_elapsed))'
      BY <3>1, <3>4 DEF Fallen, Began
    <3>6. seg_elapsed' < p'.Tj2
      <4>1. Began(Remaining + u.pos)
        BY <1>6 DEF Fallen
      <4>2. p.Tj2 \in Nat \ {0}
        <5>1. CASE Planned
          BY <5>1, PlannedTypes
        <5>2. CASE p.Tj2 = StopTj2(A, J)
          BY <1>2, <5>2, StopFields
        <5>3. Planned \/ p.Tj2 = StopTj2(A, J)
          BY <4>1 DEF Began, A, J
        <5> QED BY <5>1, <5>2, <5>3
      <4> QED BY <3>2, <4>2
    <3> QED BY <3>2, <3>5, <3>6 DEF Simulated, Rising, Sinking
  <2> QED BY <2>1, <2>2
<1> QED BY <1>12, <1>13

\* Where the last stage ends: near the target of a plan, at that of a stop or short
\* of it.
EndsWell ==
  /\ start_pos # 0 => Remaining \in 0..(3 * p.max_acc)
  /\ start_pos = 0 /\ Far => -p.max_vel < Remaining /\ Remaining < p.max_vel + p.jerk

LEMMA DecelEnds ==
  ASSUME IInv, segment \in Decelerating, NEW k \in Nat, k < p.Tj2,
         Fallen(Fall3(p.v_at_dec_start, p.Tj2, p.Td, p.max_acc, p.jerk, k)),
         \/ k + 1 >= p.Tj2
         \/ Fall3(p.v_at_dec_start, p.Tj2, p.Td, p.max_acc, p.jerk, k + 1).vel <= p.jerk
  PROVE  EndsWell
<1> DEFINE w == p.v_at_dec_start
           A == p.max_acc
           J == p.jerk
           n == p.Tj2
           td == p.Td
           u == Fall3(w, n, td, A, J, k)
           j == k + 1
           x == Remaining + u.pos
<1>1. /\ w \in Nat /\ n \in Nat /\ td \in Nat /\ A \in Nat \ {0} /\ J \in Nat \ {0}
      /\ Remaining \in Int
  BY DecelTypes
<1>2. j = n \/ Fall3(w, n, td, A, J, j).vel <= J
  BY <1>1
<1>3. j \in 1..n /\ j - 1 = k
  BY <1>1
<1>4. Began(x)
  BY DEF Fallen
<1>5. u.pos \in Nat
  <2> HIDE DEF w, A, J, n, td
  <2>1. Follows(Fall3(w, n, td, A, J, k + 1), u, J, w, A)
    BY <1>1, Fall3Next
  <2> QED BY <2>1 DEF Follows, Falling
<1> HIDE DEF j
<1>6. CASE start_pos # 0
  <2>1. n = StopTj2(A, J) /\ td = StopTd(w, A, J) /\ x = StopDist(w, A, J)
    BY <1>4, <1>6 DEF Began, Planned
  <2> HIDE DEF w, A, J, n, td
  <2>2. j \in 1..StopTj2(A, J)
    BY <1>3, <2>1
  <2>3. \/ j = StopTj2(A, J)
        \/ Fall3(w, StopTj2(A, J), StopTd(w, A, J), A, J, j).vel <= J
    BY <1>2, <2>1
  <2>4. StopDist(w, A, J)
          - Fall3(w, StopTj2(A, J), StopTd(w, A, J), A, J, j - 1).pos \in 0..(3 * A)
    BY <1>1, <2>2, <2>3, StopUndone
  <2>5. x - u.pos \in 0..(3 * A)
    BY <1>3, <2>1, <2>4
  <2>6. x - u.pos = Remaining
    <3> HIDE DEF u
    <3> QED BY <1>1, <1>5
  <2>7. Remaining \in 0..(3 * A)
    BY <2>5, <2>6
  <2> QED BY <1>6, <2>7 DEF EndsWell, A
<1>7. CASE start_pos = 0
  <2>1. Planned /\ w = AccelEnd(p).vel
        /\ (Far => -p.max_vel < x - p.decel_dist /\ x - p.decel_dist < p.max_vel)
    BY <1>4, <1>7 DEF Began
  <2>2. /\ p.Tj \in Nat \ {0} /\ p.max_vel \in Nat \ {0} /\ n = p.Tj /\ A = p.Tj * J
        /\ td = p.Ta /\ p.decel_dist = PlannedDecel(p) /\ p.decel_dist \in Nat
    BY <2>1, PlannedTypes
  <2>3. /\ w <= A * (n + td) /\ p.decel_dist = Fall3(w, n, td, A, J, n).pos
    <3>1. Regular(p)
      BY <2>1 DEF Planned, WellPlanned
    <3>2. /\ AccelEnd(p).vel <= p.max_acc * (p.Tj + p.Ta)
          /\ PlannedDecel(p) = Fall3(AccelEnd(p).vel, p.Tj, p.Td, p.max_acc, p.jerk, p.Tj).pos
      BY <3>1, RegularFacts
    <3> QED BY <2>1, <2>2, <3>2
  <2> HIDE DEF w, A, J, n, td
  <2>4. A = n * J /\ n \in Nat \ {0} /\ w <= (n * J) * (n + td)
    BY <2>2, <2>3
  <2>5. Fall3(w, n, td, n * J, J, n).pos - Fall3(w, n, td, n * J, J, j - 1).pos \in 0..J
    <3>1. j = n \/ Fall3(w, n, td, n * J, J, j).vel <= J
      BY <1>2, <2>4
    <3>2. w <= (n * J) * (n + td)
      BY <2>4
    <3>3. w \in Nat /\ n \in Nat \ {0} /\ J \in Nat \ {0} /\ td \in Nat /\ j \in 1..n
      BY <1>1, <1>3, <2>4
    <3> QED BY <3>1, <3>2, <3>3, PlannedUndone
  <2>6. p.decel_dist - u.pos \in 0..J
    BY <1>3, <2>3, <2>4, <2>5
  <2>7. Far => -p.max_vel < Remaining /\ Remaining < p.max_vel + J
    <3> HIDE DEF u
    <3> QED BY <1>1, <1>5, <2>1, <2>2, <2>6
  <2> QED BY <1>7, <2>7 DEF EndsWell, J
<1> QED BY <1>6, <1>7

LEMMA DecJerkDownEnds ==
  ASSUME IInv, Simulated, DecJerkDown
  PROVE  Simulated' /\ (segment' = "DONE" => EndsWell' \/ Remaining' = 0)
<1> DEFINE w == p.v_at_dec_start
           A == p.max_acc
           J == p.jerk
           k == seg_elapsed
           n == p.Tj2
           td == p.Td
           a == AtMost(current_acc + J, 0)
           v == AtLeast(current_vel + a, 0)
<1>1. segment = "DEC_JERK_DOWN" /\ k < n /\ Fallen(Fall3(w, n, td, A, J, k))
  BY DEF DecJerkDown, Simulated, Sinking
<1>2. /\ w \in Nat /\ n \in Nat /\ td \in Nat /\ A \in Nat \ {0} /\ J \in Nat \ {0} /\ k \in Nat
      /\ current_vel \in Nat /\ current_acc \in Int /\ Remaining \in Int
  BY <1>1, DecelTypes
<1>3. IF k + 1 >= n \/ v <= J THEN Integrate(0, 0, "DONE", 0)
      ELSE Integrate(v, a, "DEC_JERK_DOWN", k + 1)
  BY <1>1 DEF DecJerkDown
<1>4. PICK u : u = Fall3(w, n, td, A, J, k)
  OBVIOUS
<1>5. PICK r : r = Fall3(w, n, td, A, J, k + 1)
  OBVIOUS
<1>6. Fallen(u)
  BY <1>1, <1>4
<1> HIDE DEF w, A, J, k, n, td
<1>7. Follows(r, u, J, w, A)
  BY <1>2, <1>4, <1>5, Fall3Next
<1>8. current_vel = u.vel /\ current_acc = u.acc
  BY <1>6 DEF Fallen
<1>9. /\ r.acc = Clamp(u.acc + J, -A, 0) /\ u.acc \in (-A)..0 /\ r.acc \in (-A)..0
      /\ r.vel = AtLeast(u.vel + r.acc, 0) /\ r.vel \in 0..u.vel
      /\ r.pos = u.pos + r.vel /\ u.pos \in Nat /\ u.vel \in 0..w
  BY <1>7 DEF Follows, Falling
<1>10. r.acc = a
  BY <1>2, <1>8, <1>9 DEF Clamp, AtLeast, AtMost
<1>11. r.vel = v /\ v \in Nat
  BY <1>2, <1>8, <1>9, <1>10
<1> HIDE DEF a, v
<1>12. CASE ~(k + 1 >= n \/ v <= J)
  <2>1. Simulated' \/ Proceeds(v, a, "DEC_JERK_DOWN", k + 1)
    BY <1>1, <1>3, <1>11, <1>12, StepCases
  <2>2. ASSUME Proceeds(v, a, "DEC_JERK_DOWN", k + 1) PROVE Simulated'
    <3>1. Fallen(r)'
      BY <1>2, <1>6, <1>9, <1>10, <1>11, <2>2, SinksOn
    <3>2. segment' = "DEC_JERK_DOWN" /\ seg_elapsed' = k + 1 /\ p' = p
      BY <2>2 DEF Proceeds
    <3>3. Fall3(p.v_at_dec_start, p.Tj2, p.Td, p.max_acc, p.jerk, seg_elapsed)' = r
      BY <1>5, <3>2 DEF w, A, J, n, td
    <3>4. Fallen(Fall3(p.v_at_dec_start, p.Tj2, p.Td, p.max_acc, p.jerk, seg_elapsed))'
      BY <3>1, <3>3 DEF Fallen, Began
    <3>5. seg_elapsed' < p'.Tj2
      BY <1>2, <1>12, <3>2 DEF n
    <3> QED BY <3>2, <3>4, <3>5 DEF Simulated, Rising, Sinking
  <2>3. segment' = "DONE" => Remaining' = 0
    <3>1. Lands \/ Moves(v, a, "DEC_JERK_DOWN", k + 1)
      BY <1>3, <1>12, IntegrateCases
    <3>2. Lands => Remaining' = 0
      <4>1. target_pos \in Int
        BY <1>1, MovingTypes
      <4> QED BY <4>1 DEF Lands, Remaining
    <3> QED BY <3>1, <3>2 DEF Moves
  <2> QED BY <2>1, <2>2, <2>3
<1>13. CASE k + 1 >= n \/ v <= J
  <2>1. EndsWell
    <3>1. \/ k + 1 >= p.Tj2
          \/ Fall3(p.v_at_dec_start, p.Tj2, p.Td, p.max_acc, p.jerk, k + 1).vel <= p.jerk
      BY <1>5, <1>11, <1>13 DEF w, A, J, n, td
    <3>2. k < p.Tj2 /\ Fallen(Fall3(p.v_at_dec_start, p.Tj2, p.Td, p.max_acc, p.jerk, k))
      BY <1>1 DEF w, A, J, n, td
    <3> QED BY <1>1, <1>2, <3>1, <3>2, DecelEnds
  <2>2. Integrate(0, 0, "DONE", 0)
    BY <1>3, <1>13
  <2>3. Simulated' \/ Proceeds(0, 0, "DONE", 0)
    BY <1>1, <2>2, StepCases
  <2>4. (Lands \/ Moves(0, 0, "DONE", 0)) /\ Keeps(0, "DONE")
    BY <2>2, IntegrateCases
  <2>5. CASE Lands
    <3>1. Simulated'
      BY <1>1, <2>4, <2>5, LandsSimulated
    <3>2. Remaining' = 0
      <4>1. target_pos \in Int
        BY <1>1, MovingTypes
      <4> QED BY <2>5, <4>1 DEF Lands, Remaining
    <3> QED BY <3>1, <3>2
  <2>6. CASE Moves(0, 0, "DONE", 0)
    <3>1. p' = p
      BY <2>4 DEF Keeps
    <3>2. Remaining' = Remaining - 0
      BY <1>1, <2>6, <3>1, MovesBy
    <3>3. /\ segment' = "DONE" /\ start_pos' = start_pos /\ target_pos' = target_pos
          /\ Remaining' = Remaining /\ p' = p
      BY <1>2, <2>6, <3>1, <3>2 DEF Moves
    <3>4. EndsWell'
      BY <2>1, <3>3 DEF EndsWell, Far
    <3>5. Simulated'
      BY <3>3, <3>4 DEF EndsWell, Simulated, Rising, Sinking
    <3> QED BY <3>4, <3>5
  <2> QED BY <2>4, <2>5, <2>6
<1> QED BY <1>12, <1>13

LEMMA PlanSimulated ==
  ASSUME NEW plan \in Plans, Plan(plan)
  PROVE  Simulated'
<1>1. CASE plan.disp = 0
  BY <1>1 DEF Plan, Simulated, Rising, Sinking
<1>2. CASE plan.disp # 0
  <2> DEFINE q == plan.fields
  <2>1. WellPlanned(q, plan.disp, q.max_vel, q.jerk)
    BY <1>2, PlansFit
  <2>2. /\ start_pos' = 0 /\ target_pos' = plan.disp /\ current_pos' = 0
        /\ current_vel' = 0 /\ current_acc' = 0 /\ seg_elapsed' = 0
        /\ segment' = "ACC_JERK_UP" /\ p' = q
    BY <1>2 DEF Plan
  <2> HIDE DEF q
  <2>3. Planned'
    BY <1>2, <2>1, <2>2 DEF Planned
  <2>4. q.Tj \in Nat \ {0} /\ q.jerk \in Nat \ {0} /\ q.max_vel \in Nat \ {0} /\ q.direction \in {-1, 1}
    BY <2>1 DEF WellPlanned, Regular
  <2>5. Rise1(q.Tj, q.jerk, q.max_vel, 0) = Rest
    <3> DEFINE t == q.Tj
               J == q.jerk
               M == q.max_vel
    <3>1. t * J \in Int /\ J \in Int /\ M \in Int
      BY <2>4
    <3> HIDE DEF t, J, M
    <3>2. Rise1(t, J, M, 0) = Rest
      BY <3>1, RestState, RampZero DEF Rise1
    <3> QED BY <3>2 DEF t, J, M
  <2>6. Travel' = 0
    BY <2>2, <2>4 DEF Travel
  <2>7. At(Rise1(p.Tj, p.jerk, p.max_vel, seg_elapsed))' /\ seg_elapsed' < p'.Tj
    BY <2>2, <2>4, <2>5, <2>6 DEF At, Rest
  <2> QED BY <2>2, <2>3, <2>7 DEF Simulated, Rising, Sinking
<1> QED BY <1>1, <1>2

\* Until it decelerates, a motion has covered at least one cycle of its speed.
LEMMA Ahead ==
  ASSUME IInv, Simulated, segment \in Accelerating \cup {"CONST_VEL"}
  PROVE  Travel >= current_vel /\ start_pos = 0
<1> DEFINE t == p.Tj
           J == p.jerk
           M == p.max_vel
           n == seg_elapsed
<1>1. Planned /\ Rising
  BY DEF Simulated
<1>2. /\ t \in Nat \ {0} /\ J \in Nat \ {0} /\ M \in Nat \ {0} /\ n \in Nat /\ p.Ta \in Nat
  BY <1>1, PlannedTypes, MovingTypes
<1> HIDE DEF t, J, M, n
<1>3. CASE segment = "ACC_JERK_UP"
  <2>1. n < t /\ At(Rise1(t, J, M, n))
    BY <1>1, <1>3 DEF Rising, t, J, M, n
  <2>2. n \in 0..t
    BY <1>2, <2>1
  <2>3. Rise1(t, J, M, n).pos >= Rise1(t, J, M, n).vel
    BY <1>2, <2>2, Rise1Facts
  <2> QED BY <1>1, <2>1, <2>3 DEF At, Planned
<1>4. CASE segment = "ACC_CONST"
  <2>1. At(Rise2(t, J, M, n))
    BY <1>1, <1>4 DEF Rising, t, J, M, n
  <2>2. Rise2(t, J, M, n).pos >= Rise2(t, J, M, n).vel
    BY <1>2, Rise2Facts
  <2> QED BY <1>1, <2>1, <2>2 DEF At, Planned
<1>5. CASE segment = "ACC_JERK_DOWN"
  <2>1. n < t /\ At(Rise3(t, p.Ta, J, M, n))
    BY <1>1, <1>5 DEF Rising, t, J, M, n
  <2>2. n \in 0..t
    BY <1>2, <2>1
  <2>3. Rise3(t, p.Ta, J, M, n).pos >= Rise3(t, p.Ta, J, M, n).vel
    BY <1>2, <2>2, Rise3Facts
  <2> QED BY <1>1, <2>1, <2>3 DEF At, Planned
<1>6. CASE segment = "CONST_VEL"
  BY <1>1, <1>6 DEF Rising, Planned
<1> QED BY <1>3, <1>4, <1>5, <1>6

LEMMA StopSimulated ==
  ASSUME IInv, Simulated, NEW q \in MovingFields, q.direction = p.direction, StopFrom(q),
         KeepsLimits
  PROVE  Simulated'
<1>1. CASE segment \in Decelerating
  <2>1. UNCHANGED <<segment, seg_elapsed, start_pos, target_pos, current_pos,
                    current_vel, current_acc>>
    BY <1>1 DEF StopFrom
  <2>2. p' = p
    BY <1>1, <2>1 DEF KeepsLimits
  <2>3. Planned' = Planned /\ Far' = Far /\ Remaining' = Remaining /\ Travel' = Travel
    BY <2>1, <2>2 DEF Planned, Far, Remaining, Travel
  <2> QED BY <2>1, <2>2, <2>3 DEF Simulated, Rising, Sinking, At, Fallen, Began
<1>2. CASE segment \in Accelerating \cup {"CONST_VEL"} /\ current_vel = 0
  <2>1. start_pos = 0
    BY <1>2, Ahead
  <2>2. segment' = "DONE" /\ start_pos' = 0
    BY <1>2, <2>1 DEF StopFrom
  <2> QED BY <2>2 DEF Simulated, Rising, Sinking
<1>3. CASE segment \in Accelerating \cup {"CONST_VEL"} /\ current_vel > 0
  <2> DEFINE w == current_vel
             A == q.max_acc
             J == q.jerk
             dist == StopDist(w, A, J)
             td == StopTd(w, A, J)
             n == StopTj2(A, J)
  <2>1. /\ q \in PlanFields /\ A \in Nat \ {0} /\ J \in Nat \ {0}
        /\ q.direction \in {-1, 1} /\ w \in Nat /\ current_pos \in Int
    BY <1>3, MovingTypes DEF MovingFields, PlanFields
  <2>2. /\ target_pos' = current_pos + q.direction * dist
        /\ p' = [q EXCEPT !.Tj2 = n, !.Td = td, !.decel_dist = dist, !.v_at_dec_start = w]
        /\ start_pos' = current_pos /\ segment' = "DEC_JERK_UP"
        /\ seg_elapsed' = 0 /\ current_acc' = 0
        /\ current_pos' = current_pos /\ current_vel' = w
    BY <1>3 DEF StopFrom
  <2> HIDE DEF w, A, J
  <2>3. n \in Nat \ {0} /\ td \in Nat /\ dist \in Nat
    BY <2>1, StopFields
  <2> HIDE DEF n, td, dist
  <2>4. /\ p'.direction = q.direction /\ p'.max_acc = A /\ p'.jerk = J
        /\ p'.Tj2 = n /\ p'.Td = td /\ p'.v_at_dec_start = w
    BY <2>1, <2>2, <2>3 DEF PlanFields, A, J
  <2>5. start_pos' # 0
    <3>1. Travel >= current_vel
      BY <1>3, Ahead
    <3>2. current_pos # 0
      BY <1>3, <2>1, <3>1 DEF Travel, w
    <3> QED BY <2>2, <3>2
  <2>6. Remaining' = dist
    <3>1. CASE q.direction = 1
      BY <2>1, <2>2, <2>3, <2>4, <3>1 DEF Remaining
    <3>2. CASE q.direction = -1
      BY <2>1, <2>2, <2>3, <2>4, <3>2 DEF Remaining
    <3> QED BY <2>1, <3>1, <3>2
  <2>7. Fall1(w, A, J, 0) = Cruise(w)
    BY <2>1, Fall1Facts
  <2>8. Cruise(w) = [pos |-> 0, vel |-> w, acc |-> 0]
    BY DEF Cruise, Rest
  <2> DEFINE u == Fall1(w, A, J, 0)
  <2>9. u.vel = w /\ u.acc = 0 /\ u.pos = 0
    BY <2>7, <2>8
  <2>10. Fall1(p.v_at_dec_start, p.max_acc, p.jerk, seg_elapsed)' = u
    BY <2>2, <2>4
  <2> HIDE DEF u
  <2>11. Remaining' + u.pos = dist
    BY <2>3, <2>6, <2>9
  <2>12. (Began(Remaining + Fall1(p.v_at_dec_start, p.max_acc, p.jerk, seg_elapsed).pos))'
    BY <2>4, <2>5, <2>10, <2>11 DEF Began, n, td, dist
  <2>13. (Fallen(Fall1(p.v_at_dec_start, p.max_acc, p.jerk, seg_elapsed)))'
    BY <2>2, <2>9, <2>10, <2>12 DEF Fallen
  <2>14. seg_elapsed' < p'.Tj2
    BY <2>2, <2>3, <2>4
  <2> QED BY <2>2, <2>13, <2>14 DEF Simulated, Rising, Sinking
<1> QED BY <1>1, <1>2, <1>3 DEF StopFrom

LEMMA SimulatedNext ==
  ASSUME IInv, Simulated, [Next]_vars, KeepsLimits
  PROVE  Simulated'
<1>1. CASE \E plan \in Plans : Plan(plan)
  BY <1>1, PlanSimulated
<1>2. CASE Step
  BY <1>2, JerkUpSimulated, AccConstSimulated, JerkDownSimulated, ConstVelSimulated,
     DecJerkUpSimulated, DecConstSimulated, DecJerkDownEnds DEF Step
<1>3. CASE Stop
  <2>1. p \in MovingFields /\ StopFrom(p)
    BY <1>3 DEF Stop, StopFrom, IInv
  <2> QED BY <2>1, StopSimulated
<1>4. CASE \E r \in StopLimits : StopOne(r)
  <2>1. PICK r \in StopLimits : StopOne(r)
    BY <1>4
  <2>2. PICK mv \in {r.max_vel, p.max_vel} :
          StopFrom([p EXCEPT !.max_vel = mv, !.max_acc = r.max_acc, !.jerk = r.jerk])
    BY <2>1 DEF StopOne
  <2> DEFINE q == [p EXCEPT !.max_vel = mv, !.max_acc = r.max_acc, !.jerk = r.jerk]
  <2>3. segment # "DONE"
    BY <2>2 DEF StopFrom
  <2>4. q \in MovingFields
    BY <2>3, RetunedFields
  <2>5. q.direction = p.direction
    <3>1. p \in PlanFields
      BY DEF IInv, TypeOK
    <3> QED BY <3>1 DEF PlanFields
  <2> HIDE DEF q
  <2>6. StopFrom(q)
    BY <2>2 DEF q
  <2> QED BY <2>4, <2>5, <2>6, StopSimulated
<1>5. CASE UNCHANGED vars
  <2>1. /\ segment' = segment /\ seg_elapsed' = seg_elapsed /\ start_pos' = start_pos
        /\ target_pos' = target_pos /\ current_pos' = current_pos
        /\ current_vel' = current_vel /\ current_acc' = current_acc /\ p' = p
    BY <1>5 DEF vars
  <2>2. Planned' = Planned /\ Far' = Far /\ Remaining' = Remaining /\ Travel' = Travel
    BY <2>1 DEF Planned, Far, Remaining, Travel
  <2> QED BY <2>1, <2>2 DEF Simulated, Rising, Sinking, At, Fallen, Began
<1> QED BY <1>1, <1>2, <1>3, <1>4, <1>5 DEF Next

LEMMA SimulatedInit == Init => Simulated
BY DEF Init, Simulated, Rising, Sinking

\* What the history says: a step after which the limits are the kept ones plans anew,
\* or leaves the limits of a deceleration alone.
LEMMA LimitsKept ==
  ASSUME IInv, [Next]_vars, limits' = "kept"
  PROVE  \/ \E plan \in Plans : Plan(plan)
         \/ limits = "kept" /\ KeepsLimits
<1>1. CASE Step
  <2>1. PICK v, a, s, e :
          /\ Integrate(v, a, s, e)
          /\ segment \in Decelerating => s # "DEC_JERK_UP" \/ segment = s
    BY <1>1 DEF Step, AccJerkUp, AccConst, AccJerkDown, ConstVel, DecJerkUp, DecConst,
                DecJerkDown, Timed
  <2>2. limits' = limits
    BY <2>1 DEF Integrate
  <2>3. segment \in Decelerating => p' = p
    BY <2>1 DEF Integrate
  <2> QED BY <2>2, <2>3 DEF KeepsLimits
<1>2. ASSUME NEW q, StopFrom(q) PROVE limits = "kept" /\ KeepsLimits
  <2>1. CASE segment \in Decelerating
    <3>1. p' = q /\ limits' = IF q = p THEN limits ELSE "changed"
      BY <1>2, <2>1 DEF StopFrom
    <3>2. q = p
      BY <3>1
    <3> QED BY <3>1, <3>2 DEF KeepsLimits
  <2>2. CASE segment \notin Decelerating
    <3>1. limits' = limits
      BY <1>2, <2>2 DEF StopFrom
    <3> QED BY <2>2, <3>1 DEF KeepsLimits
  <2> QED BY <2>1, <2>2
<1>3. CASE Stop
  BY <1>2, <1>3 DEF Stop
<1>4. CASE \E r \in StopLimits : StopOne(r)
  BY <1>2, <1>4 DEF StopOne
<1>5. CASE UNCHANGED vars
  BY <1>5 DEF vars, KeepsLimits
<1> QED BY <1>1, <1>3, <1>4, <1>5 DEF Next

\* Every cycle of a motion, and of a stop, is the next one of the simulation that
\* SCurve_Plan or SCurve_Stop ran, until a stop changes the limits of a
\* deceleration under way.
THEOREM FollowsSimulation == Spec => [](limits = "kept" => Simulated)
<1>1. IInv /\ (limits = "kept" => Simulated) /\ [Next]_vars => (limits = "kept" => Simulated)'
  <2> SUFFICES ASSUME IInv, limits = "kept" => Simulated, [Next]_vars, limits' = "kept"
               PROVE  Simulated'
    OBVIOUS
  <2>1. CASE \E plan \in Plans : Plan(plan)
    BY <2>1, PlanSimulated
  <2>2. CASE limits = "kept" /\ KeepsLimits
    BY <2>2, SimulatedNext
  <2> QED BY <2>1, <2>2, LimitsKept
<1> QED BY <1>1, SimulatedInit, Invariance, PTL DEF Spec

\* A stop ends at the target SCurve_Stop announced, or short of it by at most three
\* steps of full deceleration, from any speed and with any limits.
THEOREM StopsLand == Spec => []StopLands
<1>1. (limits = "kept" => Simulated) => StopLands
  BY DEF Simulated, StopLands
<1> QED BY <1>1, FollowsSimulation, PTL

LEMMA ResidualStep ==
  ASSUME IInv, Simulated, DecJerkDown, segment' = "DONE", AsPlanned, Far
  PROVE  LET left == (target_pos - current_pos') * p.direction
         IN  -p.max_vel < left /\ left < p.max_vel + p.jerk
<1>1. segment = "DEC_JERK_DOWN"
  BY DEF DecJerkDown
<1>2. EndsWell' \/ Remaining' = 0
  BY DecJerkDownEnds
<1>3. \E v, a, s, e : Integrate(v, a, s, e) /\ s # "DEC_JERK_UP"
  BY DEF DecJerkDown
<1>4. p' = p /\ target_pos' = target_pos /\ start_pos' = start_pos
  BY <1>1, <1>3 DEF Integrate
<1>5. p.direction \in {-1, 1} /\ target_pos \in Int
  BY <1>1, MovingTypes
<1>6. p.max_vel \in Nat \ {0} /\ p.jerk \in Nat
  BY <1>1, MovingFacts, ConstantAssumption
<1>7. -p.max_vel < Remaining' /\ Remaining' < p.max_vel + p.jerk
  <2>1. start_pos' = 0 /\ Far'
    BY <1>4 DEF AsPlanned, Far
  <2> QED BY <1>2, <1>4, <1>6, <2>1 DEF EndsWell
<1>8. Remaining' = (target_pos - current_pos') * p.direction
  <2>1. Remaining' = (target_pos - current_pos') * (IF p.direction > 0 THEN 1 ELSE -1)
    BY <1>4 DEF Remaining
  <2>2. (IF p.direction > 0 THEN 1 ELSE -1) = p.direction
    BY <1>5
  <2> QED BY <2>1, <2>2
<1> QED BY <1>7, <1>8

\* A planned motion that runs to its end stops less than a cycle of travel beyond
\* its target, and less than that and a step of the jerk short of it.
THEOREM PlannedEndsNear == Spec => Residual
<1>1. IInv /\ (limits = "kept" => Simulated) /\ [Next]_vars
        => [/\ DecJerkDown /\ segment' = "DONE" /\ AsPlanned
            /\ Abs(target_pos) >= 2 * AtMost(p.jerk, p.max_vel)
            => LET left == (target_pos - current_pos') * p.direction
               IN  -p.max_vel < left /\ left < p.max_vel + p.jerk]_vars
  BY ResidualStep DEF Far, AsPlanned
<1> QED BY <1>1, Invariance, FollowsSimulation, PTL DEF Spec, Residual
=============================================================================
