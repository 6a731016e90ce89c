----------------------- MODULE ControlSessionProofs -----------------------
(***************************************************************************)
(* ControlSession for any finite card, any elements on it and any values   *)
(* asked for: what its calls write, what they report and what they list,   *)
(* and that its guard keeps the descriptor.                                *)
(***************************************************************************)
EXTENDS ControlSession, FiniteSetTheorems, TLAPS

-----------------------------------------------------------------------------
\* Numbers and values.
LEMMA SmallestFound ==
  ASSUME NEW S, S \subseteq Nat, S # {}
  PROVE  Min(S) \in S /\ \A y \in S : Min(S) <= y
<1> DEFINE T == {0 .. y : y \in S}
<1>1. T \subseteq FiniteSubsetsOf(Nat) /\ T # {}
  <2>1. ASSUME NEW y \in S PROVE IsFiniteSet(0 .. y) /\ 0 .. y \in SUBSET Nat
    <3>1. 0 \in Int /\ y \in Int /\ 0 .. y \in SUBSET Nat
      OBVIOUS
    <3> QED
      BY <3>1, FS_Interval
  <2>2. T \subseteq FiniteSubsetsOf(Nat)
    BY <2>1 DEF FiniteSubsetsOf
  <2> QED
    BY <2>2
<1>w. IsWellFoundedOn(StrictSubsetOrdering(Nat), FiniteSubsetsOf(Nat))
  BY FS_StrictSubsetOrderingWellFounded
<1> HIDE DEF T
<1>2. PICK X \in T : \A Y \in T : ~ (<<Y, X>> \in StrictSubsetOrdering(Nat))
  BY <1>1, <1>w, WFMin
<1> USE DEF T
<1>3. PICK x \in S : X = 0 .. x
  BY <1>2
<1>4. ASSUME NEW y \in S, y < x PROVE FALSE
  <2>1. 0 .. y \in SUBSET Nat /\ 0 .. x \in SUBSET Nat /\ 0 .. y \subseteq 0 .. x /\ x \in 0 .. x /\ x \notin 0 .. y
    BY <1>4
  <2>2. 0 .. y # 0 .. x /\ 0 .. y \in T
    BY <2>1
  <2>3. <<0 .. y, 0 .. x>> \in StrictSubsetOrdering(Nat)
    BY <2>1, <2>2 DEF StrictSubsetOrdering
  <2> QED
    BY <1>2, <1>3, <2>2, <2>3
<1>5. x \in S /\ \A y \in S : x <= y
  BY <1>4
<1> QED
  BY <1>5 DEF Min

LEMMA DivMod ==
  ASSUME NEW w \in Nat, NEW n \in Nat \ {0}
  PROVE  /\ w \div n \in 0 .. w /\ w % n \in 0 .. n - 1
         /\ w = ((w \div n) * n) + (w % n)
<1> DEFINE q == w \div n
<1>1. q \in Nat /\ w % n \in 0 .. n - 1 /\ w = (n * q) + (w % n)
  OBVIOUS
<1> HIDE DEF q
<1>2. n * q = q * n /\ q * n = (q * (n - 1)) + q /\ q * (n - 1) \in Nat
  BY <1>1
<1>3. q <= w
  BY <1>1, <1>2
<1> QED
  BY <1>1, <1>2, <1>3 DEF q

LEMMA ShapeTypes ==
  ASSUME NEW s \in Shapes
  PROVE  /\ s.min \in Int /\ s.max \in Int /\ s.step \in Nat /\ s.items \in Nat
         /\ s.writable \in BOOLEAN /\ s.tlv \in BOOLEAN
         /\ - Word <= s.min /\ s.max < Word /\ Word \in Nat \ {0} /\ s # Absent
BY SessionAssumption, ValueAssumption

\* nearestValid finds a valid value, if there is one near enough, and none is nearer.
LEMMA NearestIsValid ==
  ASSUME NEW s \in Shapes, NEW t \in Int, HasValid(t, s)
  PROVE  /\ Nearest(t, s) \in Int /\ Valid(Nearest(t, s), s)
         /\ \A v \in Int : Valid(v, s) =>
              \/ Abs(Nearest(t, s) - t) < Abs(v - t)
              \/ Abs(Nearest(t, s) - t) = Abs(v - t) /\ Nearest(t, s) <= v
<1>0. PICK d : d = Min(Distances(t, s))
  OBVIOUS
<1> DEFINE D == Distances(t, s)
<1>1. D \subseteq Nat /\ D # {} /\ MaxProbe \in Nat
  BY <1>0, ValueAssumption DEF HasValid, Distances
<1>2. d \in D /\ \A e \in D : d <= e
  BY <1>0, <1>1, SmallestFound
<1>3. d \in Nat /\ d < MaxProbe /\ (Valid(t - d, s) \/ Valid(t + d, s))
  BY <1>0, <1>1, <1>2 DEF Distances
<1>4. Nearest(t, s) = IF Valid(t - d, s) THEN t - d ELSE t + d
  <2>1. Nearest(t, s) = IF Valid(t - Min(Distances(t, s)), s) THEN t - Min(Distances(t, s))
                        ELSE t + Min(Distances(t, s))
    BY Zenon DEF Nearest
  <2> QED
    BY <1>0, <2>1
<1>5. ASSUME NEW v \in Int, Valid(v, s), Abs(v - t) < MaxProbe PROVE Abs(v - t) \in D
  <2>1. CASE v <= t
    <3>1. Abs(v - t) = t - v /\ t - (t - v) = v
      BY <2>1 DEF Abs
    <3> QED
      BY <1>0, <1>1, <1>5, <2>1, <3>1 DEF Distances
  <2>2. CASE v > t
    <3>1. Abs(v - t) = v - t /\ t + (v - t) = v
      BY <2>2 DEF Abs
    <3> QED
      BY <1>0, <1>1, <1>5, <2>2, <3>1 DEF Distances
  <2> QED
    BY <2>1, <2>2
<1>6. Abs(Nearest(t, s) - t) = d
  BY <1>3, <1>4 DEF Abs
<1>7. ASSUME NEW v \in Int, Valid(v, s)
      PROVE  \/ Abs(Nearest(t, s) - t) < Abs(v - t)
             \/ Abs(Nearest(t, s) - t) = Abs(v - t) /\ Nearest(t, s) <= v
  <2>1. d <= Abs(v - t) /\ Abs(v - t) \in Int
    BY <1>1, <1>2, <1>3, <1>5, <1>7 DEF Abs
  <2>2. CASE d = Abs(v - t)
    <3>1. v = t - d \/ v = t + d
      BY <1>3, <2>2 DEF Abs
    <3> QED
      BY <1>3, <1>4, <1>6, <1>7, <2>2, <3>1
  <2> QED
    BY <1>3, <1>6, <2>1, <2>2
<1> QED
  BY <1>3, <1>4, <1>7

\* A value that passes the library's check passes the kernel's, and no other does.
LEMMA ValidIsAccepted ==
  ASSUME NEW s \in Shapes, NEW v \in Int
  PROVE  Valid(v, s) <=> KernelAccepts(v, s)
<1> DEFINE word == IF v < 0 THEN v + Word ELSE v
<1>1. CASE v \notin s.min .. s.max \/ s.step = 0
  BY <1>1 DEF Valid, KernelAccepts, StepOK
<1>2. CASE v \in s.min .. s.max /\ s.step # 0
  <2>1. s.step \in Nat \ {0} /\ Word \in Nat \ {0} /\ - Word <= v /\ v < Word
    BY <1>2, ShapeTypes
  <2>2. v % Word = word /\ word \in 0 .. Word - 1
    BY <2>1
  <2>3. ASSUME NEW k \in 0 .. Word, k * s.step = word PROVE word % s.step = 0
    <3>1. \A n \in Nat \ {0} : \A q \in Nat : (q * n) % n = 0
      OBVIOUS
    <3> QED
      BY <2>1, <2>3, <3>1
  <2>4. ASSUME word % s.step = 0 PROVE \E k \in 0 .. Word : k * s.step = word
    <3>1. word \in Nat /\ word < Word
      BY <2>1, <2>2
    <3> HIDE DEF word
    <3>2. word \div s.step \in 0 .. word /\ word = ((word \div s.step) * s.step) + (word % s.step)
      BY <2>1, <3>1, DivMod
    <3>3. word \div s.step \in 0 .. Word /\ (word \div s.step) * s.step = word
      BY <2>1, <2>4, <3>1, <3>2
    <3> QED
      BY <3>3
  <2> QED
    BY <1>2, <2>2, <2>3, <2>4 DEF Valid, KernelAccepts, StepOK
<1> QED
  BY <1>1, <1>2

-----------------------------------------------------------------------------
\* Floats.  A quotient is off by half a unit at most, and a float by half its spacing.
LEMMA QuotientIsNear ==
  ASSUME NEW m \in Int, NEW d \in Nat \ {0}
  PROVE  Quotient(m, d) \in Int /\ 2 * Abs(d * Quotient(m, d) - m) <= d
<1>1. PICK a, c : a = 2 * m + d /\ c = 2 * d
  OBVIOUS
<1>2. a \in Int /\ c \in Nat \ {0}
  BY <1>1
<1>3. PICK k, r : k = a \div c /\ r = a % c
  OBVIOUS
<1>4. k \in Int /\ r \in 0 .. c - 1 /\ a = (c * k) + r
  BY <1>2, <1>3
<1>5. Quotient(m, d) = IF r = 0 /\ k % 2 = 1 THEN k - 1 ELSE k
  BY <1>1, <1>3 DEF Quotient
<1>6. PICK x : x = d * k
  OBVIOUS
<1>7. x \in Int /\ c * k = 2 * x /\ d * (k - 1) = x - d
  BY <1>1, <1>4, <1>6
<1>8. CASE r = 0 /\ k % 2 = 1
  BY <1>1, <1>4, <1>5, <1>7, <1>8 DEF Abs
<1>9. CASE ~ (r = 0 /\ k % 2 = 1)
  BY <1>1, <1>4, <1>5, <1>6, <1>7, <1>9 DEF Abs
<1> QED
  BY <1>8, <1>9

LEMMA FloatIsSpaced ==
  ASSUME NEW m \in Int, \E u \in Grids : Spacing(m, u)
  PROVE  \E u \in Grids : Spacing(m, u) /\ Float(m) = u * Quotient(m, u) /\ Float(m) \in Int
                         /\ 2 * Abs(Float(m) - m) <= u
<1>1. PICK u : u = CHOOSE g \in Grids : Spacing(m, g)
  OBVIOUS
<1>2. u \in Grids /\ Spacing(m, u) /\ Float(m) = u * Quotient(m, u)
  BY <1>1 DEF Float
<1>3. u \in Nat \ {0}
  BY <1>2, FloatAssumption
<1>4. Quotient(m, u) \in Int /\ 2 * Abs(u * Quotient(m, u) - m) <= u
  BY <1>3, QuotientIsNear
<1>5. Float(m) \in Int
  BY <1>2, <1>3, <1>4
<1> QED
  BY <1>2, <1>4, <1>5

\* An integer of so many digits is a float.
LEMMA FloatIsExact ==
  ASSUME NEW m \in Int, Abs(m) <= MaxExact
  PROVE  Float(m) = m
<1>1. MaxExact \in Nat /\ 1 \in Grids /\ Abs(m) \in Nat
  BY FloatAssumption DEF Abs
<1>2. Spacing(m, 1)
  BY <1>1 DEF Spacing
<1>3. PICK u \in Grids : Spacing(m, u) /\ Float(m) \in Int /\ 2 * Abs(Float(m) - m) <= u
  BY <1>1, <1>2, FloatIsSpaced
<1>4. u \in Nat \ {0}
  BY <1>3, FloatAssumption
<1>5. u = 1
  <2>1. SUFFICES ASSUME u >= 2 PROVE FALSE
    BY <1>4
  <2>2. MaxExact * u >= 2 * MaxExact
    BY <1>1, <1>4, <2>1
  <2> QED
    BY <1>1, <1>3, <1>4, <2>1, <2>2 DEF Spacing
<1> QED
  BY <1>3, <1>5 DEF Abs

\* The float of a number is off by less than its last digit.
LEMMA FloatIsNear ==
  ASSUME NEW m \in 0 .. 2 * MaxExact * Word
  PROVE  Float(m) \in Int /\ MaxExact * Abs(Float(m) - m) <= m
<1>1. MaxExact \in Nat /\ Word \in Nat /\ m \in Nat /\ \E u \in Grids : Spacing(m, u)
  BY FloatAssumption, ValueAssumption
<1>2. PICK u \in Grids : Spacing(m, u) /\ Float(m) \in Int /\ 2 * Abs(Float(m) - m) <= u
  BY <1>1, FloatIsSpaced
<1>3. PICK e : e = Abs(Float(m) - m)
  OBVIOUS
<1>4. u \in Nat \ {0} /\ e \in Nat
  BY <1>1, <1>2, <1>3, FloatAssumption DEF Abs
<1>5. CASE u = 1
  <2>1. e = 0 /\ MaxExact * e = 0
    BY <1>1, <1>2, <1>3, <1>4, <1>5
  <2> QED
    BY <1>1, <1>2, <1>3, <2>1
<1>6. CASE u > 1
  <2>1. MaxExact * u < 2 * m
    BY <1>1, <1>2, <1>6 DEF Spacing, Abs
  <2>2. MaxExact * (2 * e) <= MaxExact * u /\ MaxExact * (2 * e) = 2 * (MaxExact * e)
    BY <1>1, <1>2, <1>3, <1>4
  <2>3. MaxExact * e \in Nat /\ MaxExact * u \in Nat
    BY <1>1, <1>4
  <2> QED
    BY <1>1, <1>2, <1>3, <2>1, <2>2, <2>3
<1> QED
  BY <1>4, <1>5, <1>6

LEMMA Multiplied ==
  ASSUME NEW a \in Nat, NEW b \in Int, NEW c \in Int
  PROVE  /\ a * b \in Int /\ Abs(b) \in Nat /\ a * Abs(b) \in Nat /\ Abs(a * b) = a * Abs(b)
         /\ b <= c => a * b <= a * c
         /\ a * b <= a * c /\ a > 0 => b <= c
<1>1. a * b \in Int /\ a * (- b) = - (a * b) /\ Abs(b) \in Nat
  BY DEF Abs
<1>2. Abs(a * b) = a * Abs(b)
  <2>1. CASE b >= 0
    <3>1. a * b >= 0
      BY <2>1
    <3> QED
      BY <2>1, <3>1 DEF Abs
  <2>2. CASE b < 0
    <3>1. a * (- b) >= 0
      BY <2>2
    <3>2. CASE a * b = 0
      BY <1>1, <2>2, <3>2 DEF Abs
    <3>3. CASE a * b # 0
      BY <1>1, <2>2, <3>1, <3>3 DEF Abs
    <3> QED
      BY <3>2, <3>3
  <2> QED
    BY <2>1, <2>2
<1>3. ASSUME b <= c PROVE a * b <= a * c
  <2>1. a * (c - b) >= 0 /\ a * (c - b) = a * c - a * b
    BY <1>3
  <2> QED
    BY <2>1
<1>4. ASSUME a * b <= a * c, a > 0 PROVE b <= c
  <2>1. SUFFICES ASSUME b >= c + 1 PROVE FALSE
    BY DEF Abs
  <2>2. a * (b - (c + 1)) >= 0 /\ a * (b - (c + 1)) = a * b - a * c - a
    BY <2>1
  <2> QED
    BY <1>4, <2>2
<1> QED
  BY <1>1, <1>2, <1>3, <1>4

LEMMA Divided ==
  ASSUME NEW a \in Int, NEW b \in Nat \ {0}
  PROVE  a \div b \in Int /\ a % b \in 0 .. b - 1 /\ a = (b * (a \div b)) + (a % b)
OBVIOUS

LEMMA Swapped ==
  ASSUME NEW a \in Int, NEW b \in Int, NEW c \in Int
  PROVE  a * (b * c) = b * (a * c)
OBVIOUS

\* A share n / d that is as near to p / w as its digits allow, a product q / d as near to
\* n * s / d, and the integer r nearest to that.
LEMMA StepsAreNear ==
  ASSUME NEW e \in Nat \ {0}, NEW w \in Nat \ {0}, NEW d \in Nat \ {0}, NEW p \in Nat, NEW s \in Nat,
         NEW n \in Nat, NEW q \in Int, NEW r \in Int,
         e * Abs(w * n - p * d) <= p * d,
         e * Abs(q - n * s) <= n * s,
         Abs(2 * (d * r) - 2 * q) <= d
  PROVE  e * (2 * Abs(w * r - p * s) - w) <= 6 * (p * s)
<1>1. PICK a, b, c, x : a = 2 * (d * r) - 2 * q /\ b = q - n * s /\ c = w * n - p * d /\ x = w * r - p * s
  OBVIOUS
<1>2. a \in Int /\ b \in Int /\ c \in Int /\ x \in Int
  BY <1>1
<1>3. 2 * (d * x) = w * a + 2 * (w * b) + 2 * (s * c)
  <2>1. d * x = d * (w * r) - d * (p * s)
    BY <1>1
  <2>2. w * a = 2 * (w * (d * r)) - 2 * (w * q) /\ w * b = w * q - w * (n * s) /\ s * c = s * (w * n) - s * (p * d)
    BY <1>1
  <2>3. d * (w * r) = w * (d * r) /\ d * (p * s) = s * (p * d) /\ w * (n * s) = s * (w * n)
    OBVIOUS
  <2> QED
    BY <2>1, <2>2, <2>3
<1>4. PICK aa, bb, cc, xx : aa = Abs(a) /\ bb = Abs(b) /\ cc = Abs(c) /\ xx = Abs(x)
  OBVIOUS
<1>5. aa \in Nat /\ bb \in Nat /\ cc \in Nat /\ xx \in Nat
  BY <1>2, <1>4 DEF Abs
<1>6. 2 * (d * xx) <= w * aa + 2 * (w * bb) + 2 * (s * cc)
  <2>1. /\ Abs(d * x) = d * xx /\ Abs(w * a) = w * aa /\ Abs(w * b) = w * bb /\ Abs(s * c) = s * cc
    BY <1>2, <1>4, Multiplied
  <2>2. PICK f, g, h, k : f = d * x /\ g = w * a /\ h = w * b /\ k = s * c
    OBVIOUS
  <2>3. /\ f \in Int /\ g \in Int /\ h \in Int /\ k \in Int
        /\ Abs(f) = d * xx /\ Abs(g) = w * aa /\ Abs(h) = w * bb /\ Abs(k) = s * cc
    BY <1>2, <2>1, <2>2
  <2>4. 2 * Abs(f) <= Abs(g) + 2 * Abs(h) + 2 * Abs(k)
    BY <1>3, <2>2, <2>3 DEF Abs
  <2> QED
    BY <2>3, <2>4
<1>7. PICK ns, pd, ps : ns = n * s /\ pd = p * d /\ ps = p * s
  OBVIOUS
<1>8. ns \in Nat /\ pd \in Nat /\ ps \in Nat /\ s * pd = d * ps
  BY <1>7
<1>9. aa <= d /\ e * bb <= ns /\ e * cc <= pd
  BY <1>1, <1>4, <1>7
<1>10. e * (w * aa) <= e * (w * d)
  BY <1>5, <1>9, Multiplied
<1>11. e * (w * bb) <= w * ns
  <2>1. e * (w * bb) = w * (e * bb) /\ e * bb \in Int
    BY <1>5, Swapped
  <2> QED
    BY <1>8, <1>9, <2>1, Multiplied
<1>12. e * (s * cc) <= s * pd
  <2>1. e * (s * cc) = s * (e * cc) /\ e * cc \in Int
    BY <1>5, Swapped
  <2> QED
    BY <1>8, <1>9, <2>1, Multiplied
<1>13. w * ns <= 2 * (s * pd)
  <2>1. cc <= e * cc
    <3>1. (e - 1) * cc >= 0 /\ (e - 1) * cc = e * cc - cc
      BY <1>5
    <3> QED
      BY <1>5, <3>1
  <2>2. w * n <= 2 * pd /\ w * n \in Nat
    <3>1. PICK wn : wn = w * n
      OBVIOUS
    <3>2. wn \in Nat /\ e * cc \in Int
      BY <1>5, <3>1
    <3>3. wn - pd <= cc
      BY <1>1, <1>4, <1>7, <1>8, <3>1, <3>2 DEF Abs
    <3> QED
      BY <1>5, <1>8, <1>9, <2>1, <3>1, <3>2, <3>3
  <2>3. s * (w * n) <= s * (2 * pd)
    BY <1>8, <2>2, Multiplied
  <2>4. s * (w * n) = w * ns /\ s * (2 * pd) = 2 * (s * pd)
    BY <1>7, <1>8
  <2> QED
    BY <2>3, <2>4
<1>14. d * (2 * (e * xx)) <= d * (e * w + 6 * ps)
  <2>1. e * (2 * (d * xx)) <= e * (w * aa + 2 * (w * bb) + 2 * (s * cc))
    BY <1>5, <1>6, Multiplied
  <2>2. PICK f, g, h, k : f = e * (w * aa) /\ g = e * (w * bb) /\ h = e * (s * cc) /\ k = e * (w * d)
    OBVIOUS
  <2>3. PICK l, m, o : l = w * ns /\ m = s * pd /\ o = d * ps
    OBVIOUS
  <2>4. /\ f \in Int /\ g \in Int /\ h \in Int /\ k \in Int
        /\ l \in Int /\ m \in Int /\ o \in Int
    BY <1>5, <1>8, <2>2, <2>3
  <2>5. f <= k /\ g <= l /\ h <= m /\ l <= 2 * m /\ m = o
    BY <1>8, <1>10, <1>11, <1>12, <1>13, <2>2, <2>3
  <2>6. f + 2 * g + 2 * h <= k + 6 * o
    BY <2>4, <2>5
  <2>7. e * (2 * (d * xx)) = d * (2 * (e * xx))
    BY <1>5
  <2>8. e * (w * aa + 2 * (w * bb) + 2 * (s * cc)) = f + 2 * g + 2 * h
    BY <1>5, <2>2
  <2>9. d * (e * w + 6 * ps) = k + 6 * o
    BY <1>8, <2>2, <2>3
  <2>10. PICK u, v : u = d * (2 * (e * xx)) /\ v = d * (e * w + 6 * ps)
    OBVIOUS
  <2>11. u \in Int /\ v \in Int /\ u <= f + 2 * g + 2 * h /\ v = k + 6 * o
    BY <1>5, <1>8, <2>1, <2>7, <2>8, <2>9, <2>10
  <2>12. u <= v
    BY <2>4, <2>6, <2>11
  <2> QED
    BY <2>10, <2>12, Zenon
<1>15. 2 * (e * xx) <= e * w + 6 * ps
  BY <1>5, <1>8, <1>14, Multiplied
<1>16. e * (2 * xx - w) = 2 * (e * xx) - e * w /\ e * xx \in Int /\ e * w \in Int
  BY <1>5
<1> QED
  BY <1>1, <1>4, <1>7, <1>8, <1>15, <1>16

\* interpolate, of a range whose ends are floats.
LEMMA InterpolateIsNear ==
  ASSUME NEW s \in Shapes, NEW p \in 0 .. Full, s.min <= s.max, Represented(s)
  PROVE  MaxExact * (2 * Abs(Full * (Interpolate(s, p) - s.min) - p * (s.max - s.min)) - Full)
           <= 6 * (p * (s.max - s.min))
<1>1. PICK lo, hi, e, w : lo = s.min /\ hi = s.max /\ e = MaxExact /\ w = Full
  OBVIOUS
<1>2. /\ lo \in Int /\ hi \in Int /\ e \in Nat /\ e >= 8 /\ w \in Nat \ {0} /\ p \in Nat /\ p <= w
      /\ - Word <= lo /\ hi < Word /\ Word \in Nat \ {0} /\ lo <= hi
  BY <1>1, ShapeTypes, FloatAssumption
<1>3. PICK c : c = hi - lo
  OBVIOUS
<1>4. c \in Nat /\ c <= e /\ c <= 2 * Word /\ 2 * hi <= e /\ - e <= 2 * lo
  BY <1>1, <1>2, <1>3 DEF Represented, Abs
<1>5. Float(lo) = lo /\ Float(hi) = hi /\ Float(c) = c
  BY <1>1, <1>2, <1>3, <1>4, FloatIsExact DEF Abs
<1>6. PICK d : d = Parts(p)
  OBVIOUS
<1>7. d \in Nat \ {0} /\ p * d <= e * w /\ (p > 0 => e * w < 2 * (p * d))
  <2>1. \E g \in Grids : Fineness(p, g)
    BY <1>1, FloatAssumption
  <2>2. d \in Grids /\ Fineness(p, d)
    BY <1>6, <2>1 DEF Parts
  <2>3. d \in Nat \ {0}
    BY <2>2, FloatAssumption
  <2>4. 2 * p * d = 2 * (p * d)
    BY <1>2, <2>3
  <2> QED
    BY <1>1, <2>2, <2>3, <2>4 DEF Fineness
<1>8. PICK n, pd : n = Quotient(p * d, w) /\ pd = p * d
  OBVIOUS
<1>9. n \in Int /\ pd \in Nat /\ 2 * Abs(w * n - pd) <= w
  BY <1>2, <1>7, <1>8, QuotientIsNear
<1>10. n \in Nat /\ n <= e
  <2>1. PICK wn : wn = w * n
    OBVIOUS
  <2>2. wn \in Int /\ e * w \in Int
    BY <1>2, <1>9, <2>1
  <2>3. - w <= 2 * wn /\ 2 * wn <= 2 * (e * w) + w
    BY <1>2, <1>7, <1>8, <1>9, <2>1, <2>2 DEF Abs
  <2>4. ~ (n <= - 1)
    <3>1. SUFFICES ASSUME n <= - 1 PROVE FALSE
      OBVIOUS
    <3>2. w * n <= w * (- 1)
      BY <1>2, <1>9, <3>1, Multiplied
    <3> QED
      BY <1>2, <2>1, <2>2, <2>3, <3>2
  <2>5. ~ (e + 1 <= n)
    <3>1. SUFFICES ASSUME e + 1 <= n PROVE FALSE
      OBVIOUS
    <3>2. w * (e + 1) <= w * n /\ w * (e + 1) = e * w + w
      BY <1>2, <1>9, <3>1, Multiplied
    <3> QED
      BY <1>2, <2>1, <2>2, <2>3, <3>2
  <2> QED
    BY <1>2, <1>9, <2>4, <2>5
<1>11. e * Abs(w * n - p * d) <= p * d
  <2>1. PICK x : x = Abs(w * n - pd)
    OBVIOUS
  <2>2. x \in Nat /\ 2 * x <= w
    BY <1>2, <1>9, <2>1 DEF Abs
  <2>3. e * (2 * x) <= e * w /\ e * (2 * x) = 2 * (e * x) /\ e * x \in Int /\ e * w \in Int
    BY <1>2, <2>2, Multiplied
  <2>4. CASE p > 0
    BY <1>7, <1>8, <1>9, <2>1, <2>3, <2>4
  <2>5. CASE p = 0
    <3>1. pd = 0 /\ w * n \in Int
      BY <1>2, <1>7, <1>8, <1>9, <2>5
    <3>2. ~ (1 <= n)
      <4>1. SUFFICES ASSUME 1 <= n PROVE FALSE
        OBVIOUS
      <4>2. w * 1 <= w * n
        BY <1>2, <1>9, <4>1, Multiplied
      <4> QED
        BY <1>2, <1>9, <3>1, <4>2 DEF Abs
    <3>3. n = 0 /\ w * n = 0
      BY <1>2, <1>10, <3>2
    <3>4. x = 0 /\ e * x = 0
      BY <1>2, <2>1, <3>1, <3>3 DEF Abs
    <3> QED
      BY <1>8, <2>1, <3>1, <3>4
  <2> QED
    BY <1>2, <2>4, <2>5
<1>12. PICK q : q = Float(n * c)
  OBVIOUS
<1>13. q \in Int /\ e * Abs(q - n * c) <= n * c
  <2>1. n * c \in 0 .. 2 * MaxExact * Word
    <3>1. c * n <= c * e /\ c * n = n * c /\ c * n \in Nat
      BY <1>2, <1>4, <1>10, Multiplied
    <3>2. e * c <= e * (2 * Word) /\ e * c = c * e
      BY <1>2, <1>4, Multiplied
    <3>3. e * (2 * Word) = 2 * MaxExact * Word
      BY <1>1, <1>2
    <3>4. e * (2 * Word) \in Nat /\ c * e \in Nat
      BY <1>2, <1>4
    <3> QED
      BY <3>1, <3>2, <3>3, <3>4
  <2> QED
    BY <1>1, <1>12, <2>1, FloatIsNear
<1>14. PICK r : r = (2 * q + d) \div (2 * d)
  OBVIOUS
<1>15. r \in Int /\ Abs(2 * (d * r) - 2 * q) <= d
  <2>1. PICK a, b, k : a = 2 * q + d /\ b = 2 * d /\ k = a % b
    OBVIOUS
  <2>2. a \in Int /\ b \in Nat \ {0}
    BY <1>7, <1>13, <2>1
  <2>3. r \in Int /\ k \in 0 .. b - 1 /\ a = (b * r) + k
    <3>1. r = a \div b
      BY <1>14, <2>1, Zenon
    <3> QED
      BY <2>1, <2>2, <3>1, Divided
  <2>4. b * r = 2 * (d * r) /\ d * r \in Int
    BY <1>7, <2>1, <2>3
  <2> QED
    BY <1>7, <1>13, <2>1, <2>3, <2>4 DEF Abs
<1>16. e * (2 * Abs(w * r - p * c) - w) <= 6 * (p * c)
  <2>1. e \in Nat \ {0}
    BY <1>2
  <2> QED
    BY <1>2, <1>4, <1>7, <1>10, <1>11, <1>13, <1>15, <2>1, StepsAreNear, Zenon
<1>17. PICK pc, wc, wr : pc = p * c /\ wc = w * c /\ wr = w * r
  OBVIOUS
<1>18. pc \in Nat /\ wc \in Nat /\ wr \in Int /\ pc <= wc
  <2>1. c * p <= c * w
    BY <1>2, <1>4, Multiplied
  <2> QED
    BY <1>2, <1>4, <1>15, <1>17, <2>1
<1>19. 2 * Abs(wr - pc) <= 7 * w
  <2>1. PICK x : x = 2 * Abs(wr - pc) - w
    OBVIOUS
  <2>2. x \in Int /\ e * x <= 6 * pc
    BY <1>2, <1>16, <1>17, <1>18, <2>1 DEF Abs
  <2>3. w * c <= w * e /\ w * e \in Int
    BY <1>2, <1>4, Multiplied
  <2>4. e * (6 * w) = 6 * (w * e)
    BY <1>2
  <2>5. e * x <= e * (6 * w)
    BY <1>2, <1>17, <1>18, <2>2, <2>3, <2>4
  <2>6. x <= 6 * w
    BY <1>2, <2>2, <2>5, Multiplied
  <2> QED
    BY <1>2, <1>18, <2>1, <2>6 DEF Abs
<1>20. - 3 <= r /\ r <= c + 3
  <2>1. - (7 * w) <= 2 * wr /\ 2 * wr <= 2 * wc + 7 * w
    BY <1>2, <1>18, <1>19 DEF Abs
  <2>2. ~ (r <= - 4)
    <3>1. SUFFICES ASSUME r <= - 4 PROVE FALSE
      OBVIOUS
    <3>2. w * r <= w * (- 4)
      BY <1>2, <1>15, <3>1, Multiplied
    <3> QED
      BY <1>2, <1>17, <1>18, <2>1, <3>2
  <2>3. ~ (c + 4 <= r)
    <3>1. SUFFICES ASSUME c + 4 <= r PROVE FALSE
      OBVIOUS
    <3>2. w * (c + 4) <= w * r /\ w * (c + 4) = wc + 4 * w
      BY <1>2, <1>4, <1>15, <1>17, <3>1, Multiplied
    <3> QED
      BY <1>2, <1>17, <1>18, <2>1, <3>2
  <2> QED
    BY <1>4, <1>15, <2>2, <2>3
<1>21. Float(lo + r) = lo + r
  <2>1. lo + r \in Int /\ Abs(lo + r) <= e
    BY <1>2, <1>3, <1>4, <1>15, <1>20 DEF Abs
  <2> QED
    BY <1>1, <2>1, FloatIsExact
<1>22. Steps(s, p) = r
  BY <1>1, <1>3, <1>5, <1>6, <1>8, <1>12, <1>14 DEF Steps, Product
<1>23. PICK t : t = Interpolate(s, p)
  OBVIOUS
<1>24. /\ r <= 0 => t = lo
       /\ r > 0 /\ r >= c => t = hi
       /\ r > 0 /\ r < c => t = lo + r
  <2>1. t = CASE lo + r <= lo                -> lo
              [] lo + r > lo /\ lo + r >= hi -> hi
              [] OTHER                       -> lo + r
    BY <1>1, <1>5, <1>21, <1>22, <1>23 DEF Interpolate
  <2> QED
    BY <1>2, <1>3, <1>4, <1>15, <2>1
<1>25. PICK z : z = w * (t - lo)
  OBVIOUS
<1>26. z \in Int /\ Abs(z - pc) <= Abs(wr - pc)
  <2>1. CASE r <= 0
    <3>1. w * r <= w * 0 /\ w * 0 = 0
      BY <1>2, <1>15, <2>1, Multiplied
    <3>2. z = 0
      BY <1>2, <1>24, <1>25, <2>1
    <3> QED
      BY <1>17, <1>18, <3>1, <3>2 DEF Abs
  <2>2. CASE r > 0 /\ r >= c
    <3>1. w * c <= w * r
      BY <1>2, <1>4, <1>15, <2>2, Multiplied
    <3>2. z = wc
      BY <1>2, <1>3, <1>17, <1>24, <1>25, <2>2
    <3> QED
      BY <1>17, <1>18, <3>1, <3>2 DEF Abs
  <2>3. CASE r > 0 /\ r < c
    <3>1. z = wr
      BY <1>2, <1>15, <1>17, <1>24, <1>25, <2>3
    <3> QED
      BY <1>18, <3>1 DEF Abs
  <2> QED
    BY <1>4, <1>15, <2>1, <2>2, <2>3
<1>27. e * (2 * Abs(z - pc) - w) <= e * (2 * Abs(wr - pc) - w)
  <2>1. PICK x, y : x = 2 * Abs(z - pc) - w /\ y = 2 * Abs(wr - pc) - w
    OBVIOUS
  <2>2. x \in Int /\ y \in Int /\ x <= y
    BY <1>2, <1>18, <1>26, <2>1 DEF Abs
  <2> QED
    BY <1>2, <2>1, <2>2, Multiplied
<1>28. e * (2 * Abs(z - pc) - w) \in Int /\ e * (2 * Abs(wr - pc) - w) \in Int
  BY <1>2, <1>18, <1>26 DEF Abs
<1>29. e * (2 * Abs(z - pc) - w) <= 6 * pc
  BY <1>16, <1>17, <1>18, <1>27, <1>28
<1> QED
  BY <1>1, <1>3, <1>17, <1>23, <1>25, <1>29

-----------------------------------------------------------------------------
\* The guard: only a Close that set both flags is on its way to the descriptor, and past
\* the drain it is alone.
Guarded ==
  /\ sclosed <=> closer # "out"
  /\ closed <=> closer \in {"drain", "closeFd", "done"}
  /\ closer \in {"closeFd", "done"} => ~ inflight
  /\ fd = "closed" <=> closer = "done"
  /\ inflight => at \in IoctlAt

\* What an error in hand says of the handle, of the card and of the element.
Failing == {"classify", "probe", "decide"}
Errnos  == {"ok", "EBADF", "ENODEV", "ENOENT", "EPERM", "EINVAL", "EIO", "errCtlListUnstable"}

Single == {"Info", "Get", "Set"}

Faulted ==
  /\ errno \in Errnos /\ perr \in Errnos
  /\ errno = "ok" <=> at \notin Failing
  /\ at # "decide" => perr = "ok"
  /\ errno = "EBADF" => sclosed
  /\ errno = "ENODEV" \/ perr = "ENODEV" => health = "gone"
  /\ errno = "ENOENT" => /\ desc.name \in Names \ (steady \cup fresh)
                         /\ op.kind \in Single => desc.name = op.name
  /\ dirty => sclosed /\ at \in Failing

\* The call that can be at each place.
Calls == Ops \cup {NoOp} \cup [kind : {"Info"}, name : Volumes, arg : {0}]

Placed ==
  /\ op \in Calls
  /\ at \in {"count", "fill", "choose"} => op.kind \in Scans
  /\ at \in {"items", "tlv"} => Deep
  /\ at = "read" => op.kind = "Get" /\ ids = {}
  /\ at = "check" => op.kind = "Set"
  /\ at = "write" => op.kind \in {"Set", "Percent"}
  /\ at \in {"idle", "count", "fill"} => fresh = {} /\ ids = {}
  /\ at \in {"idle", "choose"} => ids = {}
  /\ op.kind = "Percent" /\ at = "write" => ids = {}
  /\ op.kind \in Scans /\ at \in {"items", "tlv"} => ids # {}
  /\ op.kind \in Scans /\ at = "described" /\ wrote = NoWrite /\ ids = {} => fresh = {}
  /\ at = "idle" => steady = {}

\* The element in hand.
InHand == {"items", "tlv", "read", "check", "write"}

HeldOne ==
  /\ \/ at \in InHand
     \/ at = "described" /\ (op.kind \in Single \/ ids # {} \/ wrote # NoWrite)
     => desc.name \in Names /\ desc.shape \in Shapes
  /\ op.kind \in Single => ids \subseteq {op.name}
  /\ op.kind \in Single /\ at \in InHand \cup {"described"} => desc.name = op.name
  /\ at \in InHand \cup {"described"} /\ desc.name \in steady => desc.name \in fresh
  /\ at = "items" => named < desc.shape.items /\ desc.shape.items <= MaxItems

\* A description of an element that was not replaced since is true; and one that was
\* there all along is described, or still to be.
Current ==
  /\ \A n \in steady : elems[n] # Absent
  /\ \A n \in fresh : /\ elems[n] # Absent
                      /\ n = desc.name => desc.shape = elems[n]
                      /\ n # desc.name \/ at \in {"info", "choose"} => descs[n] = elems[n]
  /\ \/ op.kind \in Scans /\ at \in {"info", "described", "choose"} \cup InHand
     \/ op.kind \in Scans /\ at \in Failing /\ errno = "ENOENT"
     => steady \subseteq ids \cup fresh

\* The value that is to be written, and the one that was.
Rounded(value, shape) ==
  op.kind = "Percent" =>
    LET target == Interpolate(shape, op.arg)
    IN HasValid(target, shape) /\ value = Nearest(target, shape)

Fit(value, shape) == shape.writable /\ Valid(value, shape) /\ Rounded(value, shape)

Alone == op.kind = "Percent" => \A n \in Volumes \cap steady : IsVolume(elems[n]) => n = desc.name

Writing ==
  /\ op.kind = "Set" /\ at \in {"described", "check", "write"} => desc.value = op.arg
  /\ at = "write" => Fit(desc.value, desc.shape) /\ Alone
  /\ wrote # NoWrite => /\ at = "described" /\ op.kind \in {"Set", "Percent"} /\ Alone
                        /\ wrote.same => wrote.shape \in Shapes /\ Fit(wrote.value, wrote.shape)

SessionInv == TypeOK /\ Guarded /\ Faulted /\ Placed /\ HeldOne /\ Current /\ Writing

-----------------------------------------------------------------------------
LEMMA CallTypes ==
  ASSUME NEW o \in Calls
  PROVE  /\ o.kind \in Kinds /\ o.name \in Names \cup {NoName} /\ o.arg \in Int
         /\ o.kind \in Single => o.name \in Names
         /\ o.kind \notin Single => o.name = NoName
         /\ o.kind = "Percent" => o.arg \in Percents
<1>1. /\ Volumes \subseteq Names /\ Asked \subseteq Names /\ Values \subseteq Int
      /\ Percents \subseteq Int /\ 0 \in Int
  BY SessionAssumption
<1>2. CASE o \in Ops
  BY <1>1, <1>2 DEF Ops, Kinds, Single, Scans
<1>3. CASE o \in {NoOp} \cup [kind : {"Info"}, name : Volumes, arg : {0}]
  BY <1>1, <1>3 DEF NoOp, Kinds, Single, Scans
<1> QED
  BY <1>2, <1>3 DEF Calls

LEMMA NothingYet ==
  /\ NoDesc.name = NoName /\ NoDesc.shape = Absent /\ NoDesc.value = 0
  /\ NoOp.kind = "none" /\ NoOp.name = NoName
  /\ NoDescs \in [Names -> Shapes \cup {Absent}]
  /\ NoDesc \in [name : Names \cup {NoName}, shape : Shapes \cup {Absent}, value : Int]
  /\ NoWrite \in [value : Int, shape : Shapes \cup {Absent}, same : BOOLEAN]
  /\ Cardinality(Names) \in Nat /\ 0 \in 0 .. Cardinality(Names)
  /\ 0 \in 0 .. ListAttempts - 1 /\ 0 \in 0 .. MaxItems
<1>1. Cardinality(Names) \in Nat
  BY SessionAssumption, FS_CardinalityType
<1> QED
  BY <1>1, SessionAssumption DEF NoDesc, NoOp, NoDescs, NoWrite

LEMMA InitHolds == Init => SessionInv
<1> SUFFICES ASSUME Init PROVE SessionInv
  OBVIOUS
<1>3. TypeOK
  BY NothingYet DEF Init, TypeOK, Kinds
<1>4. Guarded /\ Faulted
  BY DEF Init, Guarded, Faulted, Errnos, Failing
<1>5. Placed
  BY DEF Init, Placed, Calls, NoOp, Scans, Deep
<1>6. HeldOne
  BY NothingYet DEF Init, HeldOne, InHand, Single
<1>7. Current /\ Writing
  BY NothingYet DEF Init, Current, Writing, InHand, Failing, Scans
<1> QED
  BY <1>3, <1>4, <1>5, <1>6, <1>7 DEF SessionInv

-----------------------------------------------------------------------------
\* A call that returns leaves nothing behind.
LEMMA ReturnKeeps ==
  ASSUME SessionInv, NEW r, Return(r), Quiet, at \notin IoctlAt
  PROVE  SessionInv'
<1> USE DEF Return, Quiet, card, guard
<1>3. TypeOK'
  BY NothingYet DEF SessionInv, TypeOK, Kinds
<1>4. Guarded' /\ Faulted'
  BY DEF SessionInv, Guarded, Faulted, Errnos, Failing
<1>5. Placed'
  BY DEF Placed, Calls, NoOp, Scans, Deep
<1>6. HeldOne'
  BY NothingYet DEF HeldOne, InHand, Single
<1>7. Current' /\ Writing'
  BY NothingYet DEF Current, Writing, InHand, Failing, Scans
<1> QED
  BY <1>3, <1>4, <1>5, <1>6, <1>7 DEF SessionInv

LEMMA BeginKeeps ==
  ASSUME SessionInv, NEW o \in Ops, Begin(o)
  PROVE  SessionInv'
<1>1. CASE sclosed
  <2>1. Return("ErrClosed") /\ Quiet /\ at \notin IoctlAt
    BY <1>1 DEF Begin, Quiet, IoctlAt
  <2> QED
    BY <2>1, ReturnKeeps
<1>2. CASE ~ sclosed
  <2>0. /\ at = "idle" /\ op' = o /\ steady' = Present
        /\ at' = IF o.kind \in Scans THEN "count" ELSE "info"
        /\ ids' = IF o.kind \in Scans THEN {} ELSE {o.name}
        /\ UNCHANGED <<card, sclosed, guard, attempts, count, descs, desc, named, fault, wrote, fresh, dirty>>
    BY <1>2 DEF Begin
  <2> USE <2>0 DEF card, guard, fault
  <2>1. Placed'
    BY DEF SessionInv, Placed, Calls, Deep, Scans
  <2>2. /\ o.kind \in Kinds /\ o.name \in Names \cup {NoName}
        /\ o.kind \in Single => o.name \in Names
        /\ o.kind # "none"
    BY CallTypes DEF Calls, Ops
  <2>3. TypeOK'
    BY <2>2 DEF SessionInv, TypeOK, Scans, Single, Kinds, Present, IoctlAt
  <2>4. Guarded' /\ Faulted'
    BY DEF SessionInv, Guarded, Faulted, Failing, IoctlAt
  <2>5. HeldOne'
    BY DEF SessionInv, HeldOne, InHand, Writing, Single, Scans
  <2>6. Current'
    BY DEF SessionInv, Current, Placed, InHand, Scans, Failing, Present
  <2>7. Writing'
    BY DEF SessionInv, Writing
  <2> QED
    BY <2>1, <2>3, <2>4, <2>5, <2>6, <2>7 DEF SessionInv
<1> QED
  BY <1>1, <1>2

\* An ioctl that fails leaves what the call has gathered alone.
LEMMA FailsKeeps ==
  ASSUME SessionInv, NEW e \in Errnos \ {"ok"}, Fails(e), at \in IoctlAt, inflight' = FALSE,
         UNCHANGED <<card, sclosed, closed, fd, closer, op, steady, fresh>>,
         e = "EBADF" => sclosed, e = "ENODEV" => health = "gone",
         e = "ENOENT" => at \in {"items", "tlv", "read", "write"} /\ desc.name \notin steady \cup fresh
  PROVE  SessionInv'
<1> USE DEF Fails, card, work
<1>1. at # "probe" => at' = "classify" /\ errno' = e /\ perr' = perr
  OBVIOUS
<1>2. at = "probe" => at' = "decide" /\ errno' = errno /\ perr' = e
  OBVIOUS
<1>3. wrote = NoWrite
  BY DEF SessionInv, Writing, IoctlAt
<1>4. TypeOK'
  <2>1. dirty' \in BOOLEAN /\ inflight' \in BOOLEAN /\ at' \in {"classify", "decide"}
    BY <1>1, <1>2
  <2>2. UNCHANGED <<elems, health, sclosed, closed, fd, closer, op, attempts, count, ids, descs,
                    desc, named, wrote, steady, fresh>>
    OBVIOUS
  <2>3. TypeOK
    BY DEF SessionInv
  <2> HIDE DEF Fails, card, work
  <2> QED
    BY <2>1, <2>2, <2>3 DEF TypeOK
<1>5. Guarded'
  BY DEF SessionInv, Guarded
<1>6. Faulted'
  BY <1>1, <1>2 DEF SessionInv, Faulted, Failing, HeldOne, InHand, IoctlAt
<1>7. Placed'
  BY <1>1, <1>2 DEF SessionInv, Placed, Deep
<1>8. HeldOne'
  BY <1>1, <1>2 DEF SessionInv, HeldOne, InHand
<1>9. Current'
  BY <1>1, <1>2 DEF SessionInv, Current, Failing, InHand, IoctlAt
<1>10. Writing'
  BY <1>1, <1>2, <1>3 DEF SessionInv, Writing
<1> QED
  BY <1>4, <1>5, <1>6, <1>7, <1>8, <1>9, <1>10 DEF SessionInv

-----------------------------------------------------------------------------
\* The card and the closer.
LEMMA RemoveKeeps ==
  ASSUME SessionInv, NEW n \in Names, Remove(n)
  PROVE  SessionInv'
<1> USE DEF Remove, guard, work, fault
<1>1. TypeOK' /\ Guarded'
  BY DEF SessionInv, TypeOK, Guarded
<1>2. Faulted' /\ Placed' /\ HeldOne'
  BY DEF SessionInv, Faulted, Placed, Deep, HeldOne
<1>3. \A m \in Names : m # n => elems'[m] = elems[m]
  BY DEF SessionInv, TypeOK
<1>4. Current'
  BY <1>3 DEF SessionInv, TypeOK, Current
<1>5. Alone => Alone'
  BY <1>3, SessionAssumption DEF Alone
<1>6. Writing'
  BY <1>5 DEF SessionInv, Writing, Fit, Rounded
<1> QED
  BY <1>1, <1>2, <1>4, <1>6 DEF SessionInv

LEMMA AddKeeps ==
  ASSUME SessionInv, NEW n \in Names, Add(n)
  PROVE  SessionInv'
<1> USE DEF Add, guard, work, fault
<1>1. TypeOK' /\ Guarded'
  BY DEF SessionInv, TypeOK, Guarded
<1>2. Faulted' /\ Placed' /\ HeldOne'
  BY DEF SessionInv, Faulted, Placed, Deep, HeldOne
<1>3. n \notin steady \cup fresh /\ \A m \in Names : m # n => elems'[m] = elems[m]
  BY DEF SessionInv, TypeOK, Current
<1>4. Current'
  BY <1>3 DEF SessionInv, TypeOK, Current
<1>5. Alone => Alone'
  BY <1>3, SessionAssumption DEF Alone
<1>6. Writing'
  BY <1>5 DEF SessionInv, Writing, Fit, Rounded
<1> QED
  BY <1>1, <1>2, <1>4, <1>6 DEF SessionInv

LEMMA UnplugKeeps ==
  ASSUME SessionInv, Unplug
  PROVE  SessionInv'
<1> USE DEF Unplug, guard, work, fault
<1>1. health' \in {"dying", "gone"} /\ (health = "gone" => health' = "gone")
  OBVIOUS
<1>2. TypeOK' /\ Guarded'
  BY <1>1 DEF SessionInv, TypeOK, Guarded
<1>3. Faulted' /\ Placed' /\ HeldOne'
  BY DEF SessionInv, Faulted, Placed, Deep, HeldOne
<1>4. Current' /\ Writing'
  BY DEF SessionInv, Current, Writing, Fit, Rounded, Alone
<1> QED
  BY <1>2, <1>3, <1>4 DEF SessionInv

LEMMA CloserKeeps ==
  ASSUME SessionInv, Closer
  PROVE  SessionInv'
<1> USE DEF card, work, fault
<1>1. UNCHANGED <<card, inflight, op, at, work, fault, result, wrote, steady, fresh, dirty>>
  BY DEF Closer, Swap, Mark, Drain, CloseFd
<1>2. Guarded /\ sclosed \in BOOLEAN /\ closed \in BOOLEAN /\ fd \in {"open", "closed"}
  BY DEF SessionInv, TypeOK
<1>3. Swap => Guarded'
  BY <1>2 DEF Swap, Guarded
<1>4. Mark => Guarded'
  BY <1>2 DEF Mark, Guarded
<1>5. Drain => Guarded'
  BY <1>2 DEF Drain, Guarded
<1>6. CloseFd => Guarded'
  BY <1>2 DEF CloseFd, Guarded
<1>7. TypeOK'
  <2>1. /\ sclosed' \in BOOLEAN /\ closed' \in BOOLEAN /\ fd' \in {"open", "closed"}
        /\ closer' \in {"mark", "drain", "closeFd", "done"}
    BY <1>2 DEF Closer, Swap, Mark, Drain, CloseFd
  <2> QED
    BY <1>1, <2>1 DEF SessionInv, TypeOK
<1>8. sclosed => sclosed'
  BY <1>2 DEF Closer, Swap, Mark, Drain, CloseFd
<1>9. Faulted' /\ Placed' /\ HeldOne'
  BY <1>1, <1>8 DEF SessionInv, Faulted, Placed, Deep, HeldOne
<1>10. Current' /\ Writing'
  BY <1>1 DEF SessionInv, Current, Writing, Fit, Rounded, Alone
<1> QED
  BY <1>7, <1>3, <1>4, <1>5, <1>6, <1>9, <1>10 DEF SessionInv, Closer

-----------------------------------------------------------------------------
\* The ioctls.
LEMMA AcquireKeeps ==
  ASSUME SessionInv, Acquire
  PROVE  SessionInv'
<1> USE DEF Acquire, card, work, fault
<1>1. TypeOK' /\ Guarded'
  BY DEF SessionInv, TypeOK, Guarded
<1>2. Faulted' /\ Placed' /\ HeldOne'
  BY DEF SessionInv, Faulted, Placed, Deep, HeldOne
<1>3. Current' /\ Writing'
  BY DEF SessionInv, Current, Writing, Fit, Rounded, Alone
<1> QED
  BY <1>1, <1>2, <1>3 DEF SessionInv

LEMMA RefuseKeeps ==
  ASSUME SessionInv, Refuse
  PROVE  SessionInv'
<1>1. /\ at \in IoctlAt /\ Fails("EBADF") /\ inflight' = FALSE
      /\ UNCHANGED <<card, sclosed, closed, fd, closer, op, steady, fresh>>
  BY DEF Refuse, guard, SessionInv, TypeOK
<1>2. sclosed /\ "EBADF" \in Errnos \ {"ok"}
  BY DEF Refuse, SessionInv, Guarded, Errnos
<1> QED
  BY <1>1, <1>2, FailsKeeps

\* An answer, whatever ioctl it is to.
Answered ==
  /\ inflight /\ at \in IoctlAt /\ inflight' = FALSE
  /\ UNCHANGED <<card, sclosed, closed, fd, closer, op, result, steady>>

LEMMA NotWritten ==
  ASSUME SessionInv, at # "described"
  PROVE  wrote = NoWrite
BY DEF SessionInv, Writing

LEMMA CountKeeps ==
  ASSUME SessionInv, Answered, Count, UNCHANGED fresh
  PROVE  SessionInv'
<1> USE DEF Answered, Count, Goto, fault, card
<1>1. Cardinality(Present) \in 0 .. Cardinality(Names)
  BY FS_Subset, FS_CardinalityType, SessionAssumption DEF Present
<1>2. at' = (IF Present = {} THEN "described" ELSE "fill") /\ at = "count"
  OBVIOUS
<1>3. steady \subseteq Present
  BY DEF SessionInv, Current, TypeOK, Present
<1>4. TypeOK'
  <2>1. inflight' \in BOOLEAN /\ at' \in IoctlAt \cup {"described"} /\ count' \in 0 .. Cardinality(Names)
    BY <1>1, <1>2 DEF IoctlAt
  <2>2. UNCHANGED <<elems, health, sclosed, closed, fd, closer, op, attempts, ids, descs, desc, named,
                    wrote, steady, fresh, dirty>>
    OBVIOUS
  <2>3. TypeOK
    BY DEF SessionInv
  <2> HIDE DEF Answered, Count, Goto, fault, card
  <2> QED
    BY <2>1, <2>2, <2>3 DEF TypeOK
<1>5. Guarded' /\ Faulted'
  BY <1>2 DEF SessionInv, Guarded, Faulted, Failing
<1>6. Placed'
  BY <1>2 DEF SessionInv, Placed, Deep
<1>7. wrote = NoWrite /\ op.kind \in Scans /\ ids = {} /\ fresh = {}
  BY <1>2, NotWritten DEF SessionInv, Placed
<1>8. HeldOne'
  BY <1>2, <1>3, <1>7 DEF HeldOne, InHand, Single, Scans
<1>9. Current'
  BY <1>2, <1>3, <1>7 DEF SessionInv, Current, InHand, Failing
<1>10. Writing'
  BY <1>2, <1>7 DEF Writing, Scans
<1> QED
  BY <1>4, <1>5, <1>6, <1>8, <1>9, <1>10 DEF SessionInv

LEMMA FillKeeps ==
  ASSUME SessionInv, Answered, Fill, UNCHANGED fresh
  PROVE  SessionInv'
<1>1. CASE Fails("errCtlListUnstable")
  BY <1>1, FailsKeeps DEF Answered, Errnos
<1>2. CASE ~ Fails("errCtlListUnstable")
  <2> USE DEF Answered, Goto, fault, card
  <2>1. /\ at = "fill" /\ at' \in {"info", "count"}
        /\ at' = "info" => ids' = Present /\ UNCHANGED attempts
        /\ at' = "count" => UNCHANGED ids /\ attempts' = attempts + 1 /\ attempts + 1 < ListAttempts
        /\ UNCHANGED <<count, descs, desc, named, fault, dirty, wrote>>
    BY <1>2 DEF Fill
  <2>2. steady \subseteq Present /\ Present \subseteq Names
    BY DEF SessionInv, Current, TypeOK, Present
  <2>3. TypeOK'
    <3>1. attempts' \in 0 .. ListAttempts - 1 /\ ids' \subseteq Names
      BY <2>1, <2>2, SessionAssumption DEF SessionInv, TypeOK
    <3>2. inflight' \in BOOLEAN /\ at' \in IoctlAt
      BY <2>1 DEF IoctlAt
    <3>3. UNCHANGED <<elems, health, sclosed, closed, fd, closer, op, count, descs, desc, named,
                      wrote, steady, fresh, dirty>>
      BY <2>1
    <3>4. TypeOK
      BY DEF SessionInv
    <3> HIDE DEF Answered, Goto, fault, card
    <3> QED
      BY <3>1, <3>2, <3>3, <3>4 DEF TypeOK
  <2>4. Guarded' /\ Faulted'
    BY <2>1 DEF SessionInv, Guarded, Faulted, Failing
  <2>5. Placed'
    BY <2>1 DEF SessionInv, Placed, Deep
  <2>6. wrote = NoWrite /\ op.kind \in Scans /\ fresh = {}
    BY <2>1, NotWritten DEF SessionInv, Placed
  <2>7. HeldOne' /\ Writing'
    BY <2>1, <2>6 DEF HeldOne, InHand, Single, Scans, Writing
  <2>8. Current'
    BY <2>1, <2>2, <2>6 DEF SessionInv, Current, InHand, Failing
  <2> QED
    BY <2>3, <2>4, <2>5, <2>7, <2>8 DEF SessionInv
<1> QED
  BY <1>1, <1>2

LEMMA InfoKeeps ==
  ASSUME SessionInv, Answered, Info,
         fresh' = IF at' # "classify" THEN fresh \cup {desc'.name} ELSE fresh
  PROVE  SessionInv'
<1> USE DEF Answered, card
<1>1. PICK n \in ids :
        IF elems[n] = Absent
        THEN /\ desc' = [name |-> n, shape |-> Absent, value |-> 0]
             /\ at' = "classify" /\ errno' = "ENOENT" /\ dirty' = (dirty \/ sclosed)
             /\ UNCHANGED <<attempts, count, ids, descs, named, perr, wrote>>
        ELSE /\ desc' = [name |-> n, shape |-> elems[n], value |-> op.arg]
             /\ Goto(IF Deep /\ elems[n].items \in 1 .. MaxItems THEN "items" ELSE DBStep(elems[n]))
             /\ named' = 0 /\ UNCHANGED <<attempts, count, ids, descs, wrote>>
  BY DEF Info
<1>2. at = "info" /\ n \in Names /\ wrote = NoWrite /\ op.arg \in Int /\ op.kind \in Kinds
  BY NotWritten, CallTypes DEF Info, SessionInv, TypeOK, Placed
<1>3. op.kind \in Single => n = op.name
  BY DEF SessionInv, HeldOne
<1>4. CASE elems[n] = Absent
  <2>1. /\ desc' = [name |-> n, shape |-> Absent, value |-> 0]
        /\ at' = "classify" /\ errno' = "ENOENT" /\ dirty' = (dirty \/ sclosed)
        /\ UNCHANGED <<attempts, count, ids, descs, named, perr, wrote, fresh>>
    BY <1>1, <1>4
  <2>2. n \notin steady /\ n \notin fresh
    BY <1>4 DEF SessionInv, Current
  <2>3. desc'.name = n /\ desc' \in [name : Names \cup {NoName}, shape : Shapes \cup {Absent}, value : Int]
        /\ dirty' \in BOOLEAN
    BY <1>2, <2>1
  <2>4. TypeOK'
    BY <2>1, <2>3 DEF SessionInv, TypeOK
  <2>5. Guarded' /\ Placed'
    BY <2>1 DEF SessionInv, Guarded, Placed, Deep
  <2>6. Faulted'
    BY <1>2, <1>3, <2>1, <2>2, <2>3 DEF SessionInv, Faulted, Failing, Errnos
  <2>7. HeldOne' /\ Writing'
    BY <1>2, <2>1 DEF SessionInv, HeldOne, InHand, Writing
  <2>8. Current'
    BY <1>2, <2>1, <2>2, <2>3 DEF SessionInv, Current, InHand, Failing
  <2> QED
    BY <2>4, <2>5, <2>6, <2>7, <2>8 DEF SessionInv
<1>5. CASE elems[n] # Absent
  <2>1. /\ desc' = [name |-> n, shape |-> elems[n], value |-> op.arg]
        /\ at' = IF Deep /\ elems[n].items \in 1 .. MaxItems THEN "items" ELSE DBStep(elems[n])
        /\ named' = 0 /\ UNCHANGED <<attempts, count, ids, descs, wrote, errno, perr, dirty>>
    BY <1>1, <1>5 DEF Goto, fault
  <2>2. elems[n] \in Shapes /\ elems[n].items \in Nat
    BY <1>2, <1>5, SessionAssumption DEF SessionInv, TypeOK
  <2>3. at' \in {"items", "tlv", "described"} /\ (at' \in {"items", "tlv"} => Deep)
        /\ (at' = "items" => elems[n].items \in 1 .. MaxItems)
    BY <2>1 DEF DBStep
  <2>4. /\ desc'.name = n /\ desc'.shape = elems[n] /\ desc'.value = op.arg
        /\ desc' \in [name : Names \cup {NoName}, shape : Shapes \cup {Absent}, value : Int]
        /\ fresh' = fresh \cup {n} /\ 0 \in 0 .. MaxItems
    BY <1>2, <2>1, <2>2, <2>3, SessionAssumption
  <2>5. TypeOK'
    <3>1. /\ inflight' \in BOOLEAN /\ at' \in IoctlAt \cup {"described"}
          /\ fresh' \subseteq Names /\ named' \in 0 .. MaxItems
      BY <1>2, <2>1, <2>3, <2>4 DEF IoctlAt, SessionInv, TypeOK
    <3>2. UNCHANGED <<elems, health, sclosed, closed, fd, closer, op, attempts, count, ids, descs,
                      wrote, steady, dirty>>
      BY <2>1
    <3>3. TypeOK
      BY DEF SessionInv
    <3> HIDE DEF Answered, card
    <3> QED
      BY <2>4, <3>1, <3>2, <3>3 DEF TypeOK
  <2>6. Guarded' /\ Placed'
    BY <2>1, <2>3 DEF SessionInv, Guarded, Placed, Deep
  <2>7. Faulted'
    BY <1>2, <2>1, <2>3 DEF SessionInv, Faulted, Failing
  <2>8. HeldOne'
    BY <1>2, <1>3, <2>1, <2>2, <2>3, <2>4, SessionAssumption DEF SessionInv, HeldOne, InHand
  <2>9. Current'
    BY <1>2, <1>5, <2>1, <2>3, <2>4 DEF SessionInv, Current, InHand, Failing
  <2>10. Writing'
    BY <1>2, <2>1, <2>3, <2>4 DEF SessionInv, Writing
  <2> QED
    BY <2>5, <2>6, <2>7, <2>8, <2>9, <2>10 DEF SessionInv
<1> QED
  BY <1>4, <1>5

LEMMA ItemNameKeeps ==
  ASSUME SessionInv, Answered, ItemName, UNCHANGED fresh
  PROVE  SessionInv'
<1>1. at = "items" /\ desc.name \in Names /\ desc.shape \in Shapes /\ wrote = NoWrite
  BY NotWritten DEF ItemName, SessionInv, HeldOne, InHand
<1>2. CASE elems[desc.name] = Absent
  <2>1. desc.name \notin steady \cup fresh
    BY <1>2 DEF SessionInv, Current
  <2> QED
    BY <1>1, <1>2, <2>1, FailsKeeps DEF Answered, ItemName, Errnos
<1>3. CASE elems[desc.name] # Absent
  <2> USE DEF Answered, card
  <2>1. /\ named' = named + 1
        /\ at' = IF named' < desc.shape.items THEN "items" ELSE DBStep(desc.shape)
        /\ UNCHANGED <<attempts, count, ids, descs, desc, wrote, errno, perr, dirty>>
    BY <1>3 DEF ItemName, Goto, fault
  <2>2. at' \in {"items", "tlv", "described"} /\ (at' \in {"items", "tlv"} => Deep)
    BY <1>1, <2>1 DEF DBStep, SessionInv, Placed
  <2>3. named' \in 0 .. MaxItems /\ (at' = "items" => named' < desc.shape.items /\ desc.shape.items <= MaxItems)
    <3>1. /\ named < desc.shape.items /\ desc.shape.items <= MaxItems /\ named \in 0 .. MaxItems
          /\ desc.shape.items \in Nat /\ MaxItems \in Nat
      BY <1>1, SessionAssumption DEF SessionInv, HeldOne, TypeOK
    <3> QED
      BY <2>1, <3>1 DEF DBStep
  <2>4. TypeOK'
    <3>1. inflight' \in BOOLEAN /\ at' \in IoctlAt \cup {"described"}
      BY <2>2 DEF IoctlAt
    <3>2. UNCHANGED <<elems, health, sclosed, closed, fd, closer, op, attempts, count, ids, descs, desc,
                      wrote, steady, fresh, dirty>>
      BY <2>1
    <3>3. TypeOK
      BY DEF SessionInv
    <3> HIDE DEF Answered, card
    <3> QED
      BY <2>3, <3>1, <3>2, <3>3 DEF TypeOK
  <2>5. Guarded' /\ Faulted'
    BY <1>1, <2>1, <2>2 DEF SessionInv, Guarded, Faulted, Failing
  <2>6. Placed'
    BY <1>1, <2>1, <2>2 DEF SessionInv, Placed, Deep
  <2>7. HeldOne'
    BY <1>1, <2>1, <2>2, <2>3 DEF SessionInv, HeldOne, InHand
  <2>8. Current' /\ Writing'
    <3>1. op.kind # "Set"
      BY <1>1 DEF SessionInv, Placed, Deep
    <3> QED
      BY <1>1, <2>1, <2>2, <3>1 DEF SessionInv, Current, InHand, Failing, Writing
  <2> QED
    BY <2>4, <2>5, <2>6, <2>7, <2>8 DEF SessionInv
<1> QED
  BY <1>2, <1>3

\* An ioctl on the element in hand that ends its part of the call.
LEMMA DescribedKeeps ==
  ASSUME SessionInv, Answered, at \in {"tlv", "read"}, Goto("described"), UNCHANGED <<work, wrote, fresh>>
  PROVE  SessionInv'
<1> USE DEF Answered, card, work, Goto, fault
<1>1. wrote = NoWrite /\ desc.name \in Names /\ desc.shape \in Shapes /\ op.kind # "Set"
  BY NotWritten DEF SessionInv, HeldOne, InHand, Placed, Deep
<1>2. TypeOK'
  <2>1. inflight' \in BOOLEAN /\ at' \in {"described"}
    OBVIOUS
  <2>2. UNCHANGED <<elems, health, sclosed, closed, fd, closer, op, attempts, count, ids, descs,
                    desc, named, wrote, steady, fresh, dirty>>
    OBVIOUS
  <2>3. TypeOK
    BY DEF SessionInv
  <2> HIDE DEF Answered, card, work, Goto, fault
  <2> QED
    BY <2>1, <2>2, <2>3 DEF TypeOK
<1>3. Guarded' /\ Faulted'
  BY DEF SessionInv, Guarded, Faulted, Failing
<1>4. Placed'
  BY <1>1 DEF SessionInv, Placed, Deep, Scans
<1>5. HeldOne'
  BY <1>1 DEF SessionInv, HeldOne, InHand
<1>6. Current' /\ Writing'
  BY <1>1 DEF SessionInv, Current, InHand, Failing, Writing
<1> QED
  BY <1>2, <1>3, <1>4, <1>5, <1>6 DEF SessionInv

LEMMA TlvKeeps ==
  ASSUME SessionInv, Answered, Tlv, UNCHANGED fresh
  PROVE  SessionInv'
<1>1. at = "tlv"
  BY DEF Tlv
<1>2. CASE desc.name \notin fresh
  <2>1. desc.name \notin steady \cup fresh
    BY <1>1, <1>2 DEF SessionInv, HeldOne, InHand
  <2> QED
    BY <1>1, <1>2, <2>1, FailsKeeps DEF Answered, Tlv, Errnos
<1>3. CASE Fails("EIO")
  BY <1>3, FailsKeeps DEF Answered, Errnos
<1> QED
  BY <1>1, <1>2, <1>3, DescribedKeeps DEF Tlv

LEMMA ReadKeeps ==
  ASSUME SessionInv, Answered, Read, UNCHANGED fresh
  PROVE  SessionInv'
<1>1. at = "read"
  BY DEF Read
<1>2. CASE elems[desc.name] = Absent /\ Fails("ENOENT")
  <2>1. desc.name \notin steady \cup fresh
    BY <1>2 DEF SessionInv, Current
  <2> QED
    BY <1>1, <1>2, <2>1, FailsKeeps DEF Answered, Errnos
<1>3. CASE Fails("EINVAL")
  BY <1>3, FailsKeeps DEF Answered, Errnos
<1> QED
  BY <1>1, <1>2, <1>3, DescribedKeeps DEF Read

LEMMA WriteKeeps ==
  ASSUME SessionInv, Answered, Write, UNCHANGED fresh
  PROVE  SessionInv'
<1>1. at = "write" /\ op.kind \in {"Set", "Percent"} /\ desc.name \in Names /\ desc.shape \in Shapes
  BY DEF Write, SessionInv, HeldOne, InHand, Placed
<1>2. CASE elems[desc.name] = Absent /\ Fails("ENOENT")
  <2>1. desc.name \notin steady \cup fresh
    BY <1>2 DEF SessionInv, Current
  <2> QED
    BY <1>1, <1>2, <2>1, FailsKeeps DEF Answered, Errnos
<1>3. CASE Fails("EPERM") \/ Fails("EINVAL")
  BY <1>3, FailsKeeps DEF Answered, Errnos
<1>4. CASE /\ elems[desc.name] # Absent /\ Goto("described") /\ UNCHANGED work
           /\ wrote' = [value |-> desc.value, shape |-> elems[desc.name], same |-> desc.name \in fresh]
  <2> USE <1>4 DEF Answered, card, work, Goto, fault
  <2>1. elems[desc.name] \in Shapes /\ desc.value \in Int
    BY <1>1 DEF SessionInv, TypeOK
  <2>2. /\ wrote' \in [value : Int, shape : Shapes \cup {Absent}, same : BOOLEAN] /\ wrote'.value = desc.value
        /\ wrote'.shape = elems[desc.name] /\ (wrote'.same <=> desc.name \in fresh)
    <3>1. CASE desc.name \in fresh
      <4>1. wrote' = [value |-> desc.value, shape |-> elems[desc.name], same |-> TRUE]
        BY <3>1, (desc.name \in fresh) = TRUE, Zenon
      <4> QED
        BY <2>1, <3>1, <4>1
    <3>2. CASE desc.name \notin fresh
      <4>1. wrote' = [value |-> desc.value, shape |-> elems[desc.name], same |-> FALSE]
        BY <3>2, (desc.name \in fresh) = FALSE, Zenon
      <4> QED
        BY <2>1, <3>2, <4>1
    <3> QED
      BY <3>1, <3>2
  <2>3. wrote'.same => wrote'.shape = desc.shape
    BY <2>2 DEF SessionInv, Current
  <2>4. TypeOK'
    <3>1. inflight' \in BOOLEAN /\ at' \in {"described"}
      OBVIOUS
    <3>2. UNCHANGED <<elems, health, sclosed, closed, fd, closer, op, attempts, count, ids, descs,
                      desc, named, steady, fresh, dirty>>
      OBVIOUS
    <3>3. TypeOK
      BY DEF SessionInv
    <3> HIDE <1>4
    <3> HIDE DEF Answered, card, work, Goto, fault
    <3> QED
      BY <2>2, <3>1, <3>2, <3>3 DEF TypeOK
  <2>5. wrote' # NoWrite
    BY <2>1, <2>2, SessionAssumption DEF NoWrite
  <2>6. Guarded' /\ Faulted'
    BY <1>1 DEF SessionInv, Guarded, Faulted, Failing
  <2>7. Placed'
    BY <1>1, <2>5 DEF SessionInv, Placed, Deep
  <2>8. HeldOne'
    BY <1>1 DEF SessionInv, HeldOne, InHand
  <2>9. Current'
    BY <1>1 DEF SessionInv, Current, InHand, Failing
  <2>10. Fit(desc.value, desc.shape) /\ Alone
    BY <1>1 DEF SessionInv, Writing
  <2>11. Writing'
    BY <1>1, <2>1, <2>2, <2>3, <2>5, <2>10 DEF SessionInv, Writing, Fit, Rounded, Alone
  <2> QED
    BY <2>4, <2>6, <2>7, <2>8, <2>9, <2>11 DEF SessionInv
<1> QED
  BY <1>2, <1>3, <1>4 DEF Write

LEMMA ProbeKeeps ==
  ASSUME SessionInv, Answered, Probe, UNCHANGED fresh
  PROVE  SessionInv'
<1> USE DEF Answered, Probe, card, work
<1>1. wrote = NoWrite
  BY NotWritten
<1>2. TypeOK'
  <2>1. inflight' \in BOOLEAN /\ at' \in {"decide"}
    OBVIOUS
  <2>2. UNCHANGED <<elems, health, sclosed, closed, fd, closer, op, attempts, count, ids, descs,
                    desc, named, wrote, steady, fresh, dirty>>
    OBVIOUS
  <2>3. TypeOK
    BY DEF SessionInv
  <2> HIDE DEF Answered, Probe, card, work
  <2> QED
    BY <2>1, <2>2, <2>3 DEF TypeOK
<1>3. Guarded' /\ Faulted'
  BY DEF SessionInv, Guarded, Faulted, Failing, Errnos
<1>4. Placed' /\ HeldOne'
  BY DEF SessionInv, Placed, Deep, HeldOne, InHand
<1>5. Current' /\ Writing'
  BY <1>1 DEF SessionInv, Current, InHand, Failing, Writing
<1> QED
  BY <1>2, <1>3, <1>4, <1>5 DEF SessionInv

LEMMA AnswerKeeps ==
  ASSUME SessionInv, Answer
  PROVE  SessionInv'
<1>1. Answered
  BY DEF Answer, Answered, SessionInv, Guarded
<1>2. fresh' = IF at = "info" /\ at' # "classify" THEN fresh \cup {desc'.name} ELSE fresh
  BY DEF Answer
<1>3. CASE health = "gone" /\ Fails("ENODEV")
  <2>1. UNCHANGED fresh
    BY <1>2, <1>3 DEF Fails
  <2> QED
    BY <1>1, <1>3, <2>1, FailsKeeps DEF Answered, Errnos
<1>4. CASE Info
  BY <1>1, <1>2, <1>4, InfoKeeps DEF Info
<1>5. CASE Count
  BY <1>1, <1>2, <1>5, CountKeeps DEF Count
<1>6. CASE Fill
  BY <1>1, <1>2, <1>6, FillKeeps DEF Fill
<1>7. CASE ItemName
  BY <1>1, <1>2, <1>7, ItemNameKeeps DEF ItemName
<1>8. CASE Tlv
  BY <1>1, <1>2, <1>8, TlvKeeps DEF Tlv
<1>9. CASE Read
  BY <1>1, <1>2, <1>9, ReadKeeps DEF Read
<1>10. CASE Write
  BY <1>1, <1>2, <1>10, WriteKeeps DEF Write
<1>11. CASE Probe
  BY <1>1, <1>2, <1>11, ProbeKeeps DEF Probe
<1> QED
  BY <1>3, <1>4, <1>5, <1>6, <1>7, <1>8, <1>9, <1>10, <1>11 DEF Answer

-----------------------------------------------------------------------------
\* Between the ioctls.
LEMMA OnKeeps ==
  ASSUME SessionInv, Described, wrote = NoWrite, op.kind \in Scans, ids # {}
  PROVE  SessionInv'
<1> USE DEF Quiet, card, guard, Step, fault
<1>1. /\ descs' = [descs EXCEPT ![desc.name] = desc.shape] /\ ids' = ids \ {desc.name}
      /\ at' = (IF ids' # {} THEN "info" ELSE "choose") /\ at = "described"
      /\ UNCHANGED <<card, sclosed, guard, op, fault, result, wrote, steady, fresh, dirty,
                      attempts, count, desc, named>>
  BY DEF Described, Scans
<1>2. at' \in {"info", "choose"} /\ desc.name \in Names /\ desc.shape \in Shapes
  BY <1>1 DEF SessionInv, HeldOne
<1>3. TypeOK'
  <2>1. descs' \in [Names -> Shapes \cup {Absent}] /\ ids' \subseteq Names /\ at' \in IoctlAt \cup {"choose"}
    BY <1>1, <1>2 DEF SessionInv, TypeOK, IoctlAt
  <2>2. TypeOK
    BY DEF SessionInv
  <2> QED
    BY <1>1, <2>1, <2>2 DEF TypeOK
<1>4. Guarded' /\ Faulted'
  BY <1>1, <1>2 DEF SessionInv, Guarded, Faulted, Failing, IoctlAt
<1>5. Placed'
  BY <1>1, <1>2 DEF SessionInv, Placed
<1>6. HeldOne' /\ Writing'
  BY <1>1, <1>2 DEF HeldOne, InHand, Single, Scans, Writing
<1>7. \A n \in Names : descs'[n] = IF n = desc.name THEN desc.shape ELSE descs[n]
  BY <1>1 DEF SessionInv, TypeOK
<1>8. Current'
  BY <1>1, <1>2, <1>7 DEF SessionInv, TypeOK, Current, HeldOne, InHand, Failing
<1> QED
  BY <1>3, <1>4, <1>5, <1>6, <1>8 DEF SessionInv

\* A step to a place that the call is at with what it has.
LEMMA StepKeeps ==
  ASSUME SessionInv, NEW place, Step(place), Quiet, wrote = NoWrite,
         UNCHANGED <<attempts, count, descs, desc, named>>,
         \/ /\ at = "described" /\ place = "choose" /\ op.kind \in Scans /\ ids = {} /\ UNCHANGED ids
         \/ at = "described" /\ place = "read" /\ op.kind = "Get" /\ ids' = {}
         \/ at = "described" /\ place = "check" /\ op.kind = "Set" /\ UNCHANGED ids
         \/ /\ at = "check" /\ place = "write" /\ UNCHANGED ids
            /\ desc.shape.writable /\ Valid(op.arg, desc.shape)
         \/ at = "classify" /\ place = "probe" /\ UNCHANGED ids
  PROVE  SessionInv'
<1> USE DEF Quiet, card, guard, Step, fault
<1>1. at' = place /\ at \notin IoctlAt
  BY DEF IoctlAt
<1>2. TypeOK'
  <2>1. ids' \subseteq Names /\ at' \in IoctlAt \cup {"check", "choose"}
    BY <1>1 DEF SessionInv, TypeOK, IoctlAt
  <2>2. UNCHANGED <<elems, health, sclosed, closed, inflight, fd, closer, op, attempts, count, descs,
                    desc, named, wrote, steady, fresh, dirty>>
    OBVIOUS
  <2>3. TypeOK
    BY DEF SessionInv
  <2> HIDE DEF Quiet, card, guard, Step, fault
  <2> QED
    BY <2>1, <2>2, <2>3 DEF TypeOK
<1>3. Guarded' /\ Faulted'
  BY <1>1 DEF SessionInv, Guarded, Faulted, Failing, IoctlAt
<1>4. Placed'
  BY <1>1 DEF SessionInv, Placed, Scans
<1>5. HeldOne'
  BY <1>1 DEF SessionInv, HeldOne, InHand, Single
<1>6. Current'
  BY <1>1 DEF SessionInv, Current, Placed, InHand, Failing, Scans
<1>7. Writing'
  <2>1. CASE place = "write"
    <3>1. op.kind = "Set" /\ desc.value = op.arg
      BY <2>1 DEF SessionInv, Placed, Writing
    <3> QED
      BY <1>1, <2>1, <3>1 DEF Writing, Fit, Rounded, Alone
  <2>2. CASE place # "write"
    BY <1>1, <2>2 DEF SessionInv, Writing, Scans
  <2> QED
    BY <2>1, <2>2
<1> QED
  BY <1>2, <1>3, <1>4, <1>5, <1>6, <1>7 DEF SessionInv

LEMMA DescribeStepKeeps ==
  ASSUME SessionInv, Described
  PROVE  SessionInv'
<1> USE DEF Described, work
<1>1. CASE op.kind \in Scans /\ ids # {}
  BY <1>1, OnKeeps
<1>2. CASE op.kind \in Scans /\ ids = {}
  <2>1. Step("choose") /\ UNCHANGED work
    BY <1>2 DEF Scans
  <2> QED
    BY <1>2, <2>1, StepKeeps
<1>3. CASE op.kind = "Info" \/ (op.kind = "Get" /\ ids = {})
  <2>1. Return("ok") /\ at \notin IoctlAt
    BY <1>3 DEF Scans, IoctlAt
  <2> QED
    BY <2>1, ReturnKeeps
<1>4. CASE op.kind = "Get" /\ ids # {}
  <2>1. CASE Step("read") /\ ids' = {} /\ UNCHANGED <<attempts, count, descs, desc, named>>
    BY <1>4, <2>1, StepKeeps DEF Scans
  <2>2. CASE Return("ControlAccessError")
    <3>1. at \notin IoctlAt
      BY DEF IoctlAt
    <3> QED
      BY <2>2, <3>1, ReturnKeeps
  <2> QED
    BY <1>4, <2>1, <2>2 DEF Scans
<1>5. CASE op.kind = "Set"
  <2>1. Step("check") /\ UNCHANGED work
    BY <1>5 DEF Scans
  <2> QED
    BY <1>5, <2>1, StepKeeps
<1> QED
  BY <1>1, <1>2, <1>3, <1>4, <1>5

LEMMA CheckKeeps ==
  ASSUME SessionInv, Check
  PROVE  SessionInv'
<1>1. at = "check" /\ at \notin IoctlAt /\ Quiet /\ wrote = NoWrite
  BY NotWritten DEF Check, IoctlAt
<1>2. CASE \E r : Return(r)
  BY <1>1, <1>2, ReturnKeeps
<1>3. CASE Step("write") /\ UNCHANGED work /\ desc.shape.writable /\ Valid(op.arg, desc.shape)
  BY <1>1, <1>3, StepKeeps DEF work
<1> QED
  BY <1>2, <1>3 DEF Check

LEMMA ClassifyKeeps ==
  ASSUME SessionInv, Classify
  PROVE  SessionInv'
<1>1. at = "classify" /\ at \notin IoctlAt /\ Quiet /\ wrote = NoWrite
  BY NotWritten DEF Classify, IoctlAt
<1>2. CASE \E r : Return(r)
  BY <1>1, <1>2, ReturnKeeps
<1>3. CASE Step("probe") /\ UNCHANGED work
  BY <1>1, <1>3, StepKeeps DEF work
<1> QED
  BY <1>2, <1>3 DEF Classify

LEMMA DecideKeeps ==
  ASSUME SessionInv, Decide
  PROVE  SessionInv'
<1>1. at = "decide" /\ at \notin IoctlAt /\ Quiet /\ wrote = NoWrite
  BY NotWritten DEF Decide, IoctlAt
<1>2. CASE \E r : Return(r)
  BY <1>1, <1>2, ReturnKeeps
<1>3. CASE ~ sclosed /\ Skips /\ SkipRemoved
  <2> USE <1>3 DEF SkipRemoved, Quiet, card, guard
  <2>1. /\ at' \in {"info", "choose"} /\ ids' = ids \ {desc.name} /\ (at' = "choose" => ids' = {})
        /\ op.kind \in Scans /\ errno = "ENOENT" /\ desc.name \notin steady \cup fresh /\ ~ dirty
    BY <1>1 DEF Skips, SessionInv, Faulted
  <2>2. TypeOK'
    <3>1. ids' \subseteq Names /\ at' \in IoctlAt \cup {"choose"}
      BY <1>1, <2>1 DEF SessionInv, TypeOK, IoctlAt
    <3>2. UNCHANGED <<elems, health, sclosed, closed, inflight, fd, closer, op, attempts, count, descs,
                      desc, named, wrote, steady, fresh, dirty>>
      BY <1>1
    <3>3. TypeOK
      BY DEF SessionInv
    <3> HIDE <1>3
    <3> HIDE DEF SkipRemoved, Quiet, card, guard
    <3> QED
      BY <3>1, <3>2, <3>3 DEF TypeOK
  <2>3. Guarded' /\ Faulted'
    BY <1>1, <2>1 DEF SessionInv, Guarded, Faulted, Failing, Errnos, IoctlAt
  <2>4. Placed' /\ HeldOne' /\ Writing'
    BY <1>1, <2>1 DEF SessionInv, Placed, HeldOne, InHand, Single, Scans, Writing
  <2>5. Current'
    BY <1>1, <2>1 DEF SessionInv, Current, InHand, Failing
  <2> QED
    BY <2>2, <2>3, <2>4, <2>5 DEF SessionInv
<1> QED
  BY <1>2, <1>3 DEF Decide

-----------------------------------------------------------------------------
\* The choice of a volume.
LEMMA OneMatches ==
  ASSUME SessionInv, at = "choose", Cardinality(Matches) = 1
  PROVE  /\ \E n \in Volumes : Matches = {n} /\ descs[n] \in Shapes /\ descs[n].writable
         /\ steady \subseteq fresh /\ \A m \in fresh : descs[m] = elems[m]
         /\ \A m \in Volumes \cap steady : IsVolume(elems[m]) => m \in Matches
<1>1. Matches \subseteq Volumes /\ Volumes \subseteq Names /\ IsFiniteSet(Names)
  BY SessionAssumption DEF Matches
<1>2. IsFiniteSet(Matches)
  BY <1>1, FS_Subset
<1>3. PICK n : Matches = {n}
  BY <1>2, FS_Singleton
<1>4. n \in Volumes /\ descs[n] \in Shapes /\ descs[n].writable
  BY <1>1, <1>3 DEF Matches, IsVolume, SessionInv, TypeOK
<1>5. steady \subseteq fresh /\ \A m \in fresh : descs[m] = elems[m]
  BY DEF SessionInv, Current, Placed
<1> QED
  BY <1>3, <1>4, <1>5 DEF Matches

LEMMA ChooseOneKeeps ==
  ASSUME SessionInv, ChooseOne
  PROVE  SessionInv'
<1>1. at = "choose" /\ at \notin IoctlAt /\ Quiet /\ wrote = NoWrite /\ op.kind = "Percent" /\ ids = {}
  BY NotWritten DEF ChooseOne, IoctlAt, SessionInv, Placed
<1>2. PICK n \in Volumes : Matches = {n} /\ descs[n] \in Shapes /\ descs[n].writable
  BY OneMatches DEF ChooseOne
<1>0. PICK target : target = Target[descs[n]][op.arg]
  OBVIOUS
<1>3. CASE \E r : Return(r)
  BY <1>1, <1>3, ReturnKeeps
<1>4. CASE /\ HasValid(target, descs[n]) /\ at' = "write"
           /\ desc' = [name |-> n, shape |-> descs[n], value |-> Nearest(target, descs[n])]
           /\ UNCHANGED <<op, attempts, count, ids, descs, named, fault, result, wrote, steady, fresh, dirty>>
  <2>1. op.arg \in Int /\ n \in Names
    BY CallTypes, SessionAssumption DEF SessionInv, Placed
  <2>2. target \in Int
    BY <1>2, <1>4, ShapeTypes DEF HasValid
  <2>3. Nearest(target, descs[n]) \in Int /\ Valid(Nearest(target, descs[n]), descs[n])
    BY <1>2, <1>4, <2>2, NearestIsValid
  <2>4. /\ desc'.name = n /\ desc'.shape = descs[n] /\ desc'.value = Nearest(target, descs[n])
        /\ desc' \in [name : Names \cup {NoName}, shape : Shapes \cup {Absent}, value : Int]
    BY <1>2, <1>4, <2>1, <2>3
  <2>5. steady \subseteq fresh /\ \A m \in fresh : descs[m] = elems[m]
    BY OneMatches DEF ChooseOne
  <2>6. \A m \in Volumes \cap steady : IsVolume(elems[m]) => m = n
    BY <1>2, OneMatches DEF ChooseOne
  <2>7. UNCHANGED <<elems, health, sclosed, closed, inflight, fd, closer, op, attempts, count, ids, descs,
                    named, errno, perr, wrote, steady, fresh, dirty>>
    BY <1>1, <1>4 DEF Quiet, card, guard, fault
  <2>8. TypeOK'
    BY <1>4, <2>4, <2>7 DEF SessionInv, TypeOK, IoctlAt
  <2>9. Guarded' /\ Faulted'
    BY <1>1, <1>4, <2>7 DEF SessionInv, Guarded, Faulted, Failing, IoctlAt
  <2>10. Placed'
    BY <1>1, <1>4, <2>7 DEF SessionInv, Placed
  <2>11. HeldOne'
    BY <1>1, <1>2, <1>4, <2>1, <2>4, <2>5, <2>7 DEF HeldOne, InHand, Single
  <2>12. Current'
    BY <1>1, <1>4, <2>4, <2>5, <2>7 DEF SessionInv, Current, InHand, Failing, Scans
  <2>13. Fit(desc.value, desc.shape)'
    <3>1. target = Interpolate(descs[n], op.arg)
      <4>1. op.arg \in Percents
        BY <1>1, CallTypes DEF SessionInv, Placed
      <4> QED
        BY <1>0, <1>2, <4>1 DEF Target
    <3>2. Rounded(desc.value, desc.shape)'
      BY <1>4, <2>4, <2>7, <3>1 DEF Rounded
    <3> QED
      BY <1>2, <2>3, <2>4, <3>2 DEF Fit
  <2>14. Alone'
    BY <2>4, <2>6, <2>7 DEF Alone
  <2>15. Writing'
    BY <1>1, <1>4, <2>7, <2>13, <2>14 DEF Writing
  <2> QED
    BY <2>8, <2>9, <2>10, <2>11, <2>12, <2>15 DEF SessionInv
<1>5. IF ~ HasValid(target, descs[n]) THEN Return("ControlValueError")
      ELSE /\ at' = "write"
           /\ desc' = [name |-> n, shape |-> descs[n], value |-> Nearest(target, descs[n])]
           /\ UNCHANGED <<op, attempts, count, ids, descs, named, fault, result, wrote, steady, fresh, dirty>>
  BY <1>0, <1>2 DEF ChooseOne
<1> QED
  BY <1>3, <1>4, <1>5

LEMMA DescribeOneKeeps ==
  ASSUME SessionInv, DescribeOne
  PROVE  SessionInv'
<1>1. at = "choose" /\ Quiet /\ wrote = NoWrite /\ op.kind = "Volume" /\ ids = {}
  BY NotWritten DEF DescribeOne, SessionInv, Placed
<1>2. PICK n \in Volumes : Matches = {n}
  BY OneMatches DEF DescribeOne
<1>3. op' = [kind |-> "Info", name |-> n, arg |-> 0] /\ ids' = {n} /\ at' = "info" /\ n \in Names
  BY <1>2, SessionAssumption DEF DescribeOne
<1>4. UNCHANGED <<elems, health, sclosed, closed, inflight, fd, closer, attempts, count, descs, desc,
                  named, errno, perr, wrote, steady, fresh, dirty>>
  BY <1>1 DEF DescribeOne, Quiet, card, guard, fault
<1>5. op'.kind = "Info" /\ op'.name = n /\ op' \in Calls
  BY <1>3 DEF Calls
<1>6. TypeOK'
  BY <1>3, <1>4, <1>5 DEF SessionInv, TypeOK, IoctlAt, Kinds
<1>7. Guarded' /\ Faulted'
  BY <1>1, <1>3, <1>4 DEF SessionInv, Guarded, Faulted, Failing, IoctlAt
<1>8. Placed' /\ HeldOne' /\ Writing'
  BY <1>1, <1>3, <1>4, <1>5 DEF Placed, Scans, HeldOne, InHand, Writing
<1>9. Current'
  BY <1>1, <1>3, <1>4, <1>5 DEF SessionInv, Current, Scans
<1> QED
  BY <1>6, <1>7, <1>8, <1>9 DEF SessionInv

-----------------------------------------------------------------------------
LEMMA SessionStep ==
  ASSUME SessionInv, [Next]_vars
  PROVE  SessionInv'
<1>1. ASSUME NEW n \in Names, Remove(n) \/ Add(n) PROVE SessionInv'
  BY <1>1, RemoveKeeps, AddKeeps
<1>2. CASE Unplug \/ Closer
  BY <1>2, UnplugKeeps, CloserKeeps
<1>3. ASSUME NEW o \in Ops, Begin(o) PROVE SessionInv'
  BY <1>3, BeginKeeps
<1>4. CASE Acquire \/ Refuse \/ Answer
  BY <1>4, AcquireKeeps, RefuseKeeps, AnswerKeeps
<1>5. CASE Described \/ Check \/ Classify \/ Decide
  BY <1>5, DescribeStepKeeps, CheckKeeps, ClassifyKeeps, DecideKeeps
<1>6. CASE Listed \/ ChooseNone \/ ChooseMany \/ Written
  <2>1. (\E r : Return(r)) /\ Quiet /\ at \notin IoctlAt
    BY <1>6 DEF Listed, ChooseNone, ChooseMany, Written, IoctlAt
  <2> QED
    BY <2>1, ReturnKeeps
<1>7. CASE ChooseOne \/ DescribeOne
  BY <1>7, ChooseOneKeeps, DescribeOneKeeps
<1>8. CASE UNCHANGED vars
  <2> USE <1>8 DEF vars, card, guard, work, fault
  <2>1. TypeOK' /\ Guarded' /\ Faulted'
    BY DEF SessionInv, TypeOK, Guarded, Faulted
  <2>2. Placed' /\ HeldOne'
    BY DEF SessionInv, Placed, Deep, HeldOne
  <2>3. Current' /\ Writing'
    BY DEF SessionInv, Current, Writing, Fit, Rounded, Alone
  <2> QED
    BY <2>1, <2>2, <2>3 DEF SessionInv
<1> QED
  BY <1>1, <1>2, <1>3, <1>4, <1>5, <1>6, <1>7, <1>8 DEF Next, Caller

\* The inductive invariant of a session on a control device.
THEOREM SessionInvariant == Spec => []SessionInv
BY InitHolds, SessionStep, PTL DEF Spec

-----------------------------------------------------------------------------
\* What a call writes is a value and an element that the kernel takes, for any ranges and
\* steps that elements have and whatever replaces them meanwhile.
THEOREM WritesStayValid == Spec => []WrittenIsValid
<1>1. SessionInv => WrittenIsValid
  <2> SUFFICES ASSUME SessionInv, wrote # NoWrite, wrote.same
               PROVE  KernelAccepts(wrote.value, wrote.shape) /\ wrote.shape.writable
    BY DEF SessionInv, WrittenIsValid
  <2>1. wrote.shape \in Shapes /\ Fit(wrote.value, wrote.shape) /\ wrote.value \in Int
    BY DEF SessionInv, Writing, TypeOK
  <2> QED
    BY <2>1, ValidIsAccepted DEF Fit
<1> QED
  BY <1>1, SessionInvariant, PTL

\* SetCaptureVolumePercent writes the acceptable value nearest to a step of the range that
\* is within half a step of the percentage, but for three roundings of the product.
THEOREM PercentStaysNearest == Spec => []PercentIsNearest
<1>1. SessionInv => PercentIsNearest
  <2> SUFFICES ASSUME SessionInv, wrote # NoWrite, wrote.same, op.kind = "Percent", Represented(wrote.shape)
               PROVE  PercentIsNearest
    BY DEF PercentIsNearest
  <2>1. PICK s, p, t : s = wrote.shape /\ p = op.arg /\ t = Interpolate(s, p)
    OBVIOUS
  <2>2. s \in Shapes /\ HasValid(t, s) /\ wrote.value = Nearest(t, s) /\ p \in 0 .. Full
    BY <2>1, CallTypes, SessionAssumption DEF SessionInv, Writing, Fit, Rounded, Placed
  <2>3. t \in s.min .. s.max /\ s.min <= s.max /\ t \in Int
    BY <2>2, ShapeTypes DEF HasValid
  <2>4. MaxExact * (2 * Abs(Full * (t - s.min) - p * (s.max - s.min)) - Full) <= 6 * (p * (s.max - s.min))
    BY <2>1, <2>2, <2>3, InterpolateIsNear
  <2>5. ASSUME NEW v \in s.min .. s.max, KernelAccepts(v, s)
        PROVE  \/ Abs(wrote.value - t) < Abs(v - t)
               \/ Abs(wrote.value - t) = Abs(v - t) /\ wrote.value <= v
    <3>1. v \in Int
      BY <2>2, ShapeTypes
    <3>2. Valid(v, s)
      BY <2>2, <2>5, <3>1, ValidIsAccepted
    <3> QED
      BY <2>2, <2>3, <3>1, <3>2, NearestIsValid
  <2> QED
    BY <2>1, <2>3, <2>4, <2>5, Zenon DEF PercentIsNearest
<1> QED
  BY <1>1, SessionInvariant, PTL

\* SetCaptureVolumePercent never chooses between volumes.
THEOREM VolumesStayAlone == Spec => []NeverChooses
<1>1. SessionInv => NeverChooses
  <2> SUFFICES ASSUME SessionInv, wrote # NoWrite, op.kind = "Percent"
               PROVE  Cardinality({n \in Volumes \cap steady : IsVolume(elems[n])}) <= 1
    BY DEF NeverChooses
  <2>1. {n \in Volumes \cap steady : IsVolume(elems[n])} \subseteq {desc.name}
    BY DEF SessionInv, Writing, Alone
  <2> QED
    <3>1. IsFiniteSet({desc.name}) /\ Cardinality({desc.name}) = 1
      BY FS_Singleton
    <3>2. /\ Cardinality({n \in Volumes \cap steady : IsVolume(elems[n])}) <= 1
          /\ IsFiniteSet({n \in Volumes \cap steady : IsVolume(elems[n])})
      BY <2>1, <3>1, FS_Subset
    <3> QED
      BY <3>2
<1> QED
  BY <1>1, SessionInvariant, PTL

-----------------------------------------------------------------------------
\* The ways a call ends.
Ending ==
  \/ at = "described" /\ (op.kind \in {"Info", "Get"} \/ wrote # NoWrite) /\ result' = "ok"
  \/ at = "described" /\ result' = "ControlAccessError"
  \/ at = "check" /\ result' \in {"ControlAccessError", "ControlValueError"}
  \/ at = "choose" /\ op.kind = "List" /\ result' = "ok"
  \/ at = "choose" /\ Matches = {} /\ result' = "NoVolume"
  \/ at = "choose" /\ result' \in {"Ambiguous", "ControlValueError"}
  \/ at = "classify" /\ (sclosed \/ errno = "EBADF") /\ result' = "ErrClosed"
  \/ at = "classify" /\ ~ sclosed /\ errno = "ENODEV" /\ result' = "ErrDeviceGone"
  \/ at = "decide" /\ sclosed /\ result' = "ErrClosed"
  \/ at = "decide" /\ ~ sclosed /\ perr = "ENODEV" /\ result' = "ErrDeviceGone"
  \/ at = "decide" /\ ~ sclosed /\ result' = Meaning

LEMMA CallsEnd ==
  ASSUME SessionInv, Next, Returns
  PROVE  Ending
<1>1. at # "idle" /\ at' = "idle"
  BY DEF Returns
<1>2. CASE (\E n \in Names : Remove(n) \/ Add(n)) \/ Unplug \/ Closer \/ Acquire
  BY <1>1, <1>2 DEF Remove, Add, Unplug, Closer, Swap, Mark, Drain, CloseFd, Acquire
<1>3. CASE \E o \in Ops : Begin(o)
  BY <1>1, <1>3 DEF Begin
<1>4. CASE Refuse \/ Answer
  <2>1. at' # "idle"
    BY <1>4 DEF Refuse, Answer, Fails, Count, Fill, Info, ItemName, Tlv, Read, Write, Probe, Goto, DBStep
  <2> QED
    BY <1>1, <2>1
<1>5. CASE Described
  BY <1>1, <1>5 DEF Described, Step, Return, Ending
<1>6. CASE Check \/ Listed \/ ChooseNone \/ ChooseMany \/ Written
  BY <1>1, <1>6 DEF Check, Listed, ChooseNone, ChooseMany, Written, Step, Return, Ending
<1>7. CASE ChooseOne \/ DescribeOne
  BY <1>1, <1>7 DEF ChooseOne, DescribeOne, Return, Ending
<1>8. CASE Classify
  BY <1>1, <1>8 DEF Classify, Step, Return, Ending
<1>9. CASE Decide
  <2>1. SkipRemoved => at' # "idle"
    BY DEF SkipRemoved
  <2> QED
    BY <1>1, <1>9, <2>1 DEF Decide, Return, Ending
<1> QED
  BY <1>2, <1>3, <1>4, <1>5, <1>6, <1>7, <1>8, <1>9 DEF Next, Caller

LEMMA MeaningIs ==
  \/ errno = "ENOENT" /\ Meaning = "ControlNotFound"
  \/ errno = "EPERM" /\ Meaning = "ControlAccessError"
  \/ errno = "EINVAL" /\ op.kind # "Get" /\ Meaning = "ControlValueError"
  \/ Meaning = errno
<1>1. CASE errno = "ENOENT"
  BY <1>1, Zenon DEF Meaning
<1>2. CASE errno = "EPERM"
  BY <1>2, Zenon DEF Meaning
<1>3. CASE errno = "EINVAL" /\ op.kind # "Get"
  BY <1>3, Zenon DEF Meaning
<1>4. CASE errno \notin {"ENOENT", "EPERM"} /\ ~ (errno = "EINVAL" /\ op.kind # "Get")
  BY <1>4, Zenon DEF Meaning
<1> QED
  BY <1>1, <1>2, <1>3, <1>4

LEMMA AllDescribed ==
  ASSUME SessionInv, at = "choose"
  PROVE  \A n \in steady : descs[n] = elems[n] /\ descs[n] # Absent
BY DEF SessionInv, Current, Placed

\* List tells every element that was there all along.
THEOREM PresentStaysListed == Spec => PresentIsListed
<1>1. ASSUME SessionInv, [Next]_vars
      PROVE  [Returns /\ op.kind = "List" /\ result' = "ok" => \A n \in steady : descs[n] # Absent]_vars
  <2> SUFFICES ASSUME Next, Returns, op.kind = "List", result' = "ok"
               PROVE  \A n \in steady : descs[n] # Absent
    BY <1>1
  <2>1. Ending
    BY <1>1, CallsEnd
  <2>2. at = "decide" => Meaning # "ok"
    BY <1>1, MeaningIs DEF SessionInv, Faulted, Failing
  <2>3. at = "described" => wrote = NoWrite
    BY <1>1 DEF SessionInv, Writing
  <2>4. at = "choose"
    BY <2>1, <2>2, <2>3 DEF Ending
  <2> QED
    BY <1>1, <2>4, AllDescribed
<1> QED
  BY <1>1, SessionInvariant, PTL DEF Spec, PresentIsListed

\* What an error says of the handle, the card or the element is true.
THEOREM ErrorsStayTrue == Spec => ErrorsAreTrue
<1> DEFINE Truth ==
       /\ result' = "ControlNotFound" => op.name \notin steady
       /\ result' = "NoVolume" => \A n \in Volumes \cap steady : ~ IsVolume(elems[n])
       /\ result' = "ErrClosed" => sclosed
       /\ dirty => result' = "ErrClosed"
       /\ result' = "ErrDeviceGone" => health = "gone"
<1>1. ASSUME SessionInv, [Next]_vars PROVE [Returns => Truth]_vars
  <2> SUFFICES ASSUME Next, Returns PROVE Truth
    BY <1>1
  <2>1. Ending
    BY <1>1, CallsEnd
  <2>2. /\ dirty => sclosed /\ at \in Failing
        /\ errno = "EBADF" => sclosed
        /\ errno = "ENODEV" \/ perr = "ENODEV" => health = "gone"
        /\ errno \in Errnos
    BY <1>1 DEF SessionInv, Faulted
  <2>3. errno = "ENOENT" => op.name \notin steady
    <3>1. op.kind \in Single \/ op.name = NoName
      BY <1>1, CallTypes DEF SessionInv, Placed
    <3> QED
      BY <1>1, <3>1, SessionAssumption DEF SessionInv, Faulted, TypeOK
  <2>4. /\ Meaning \notin {"NoVolume", "ErrClosed", "ErrDeviceGone"}
        /\ Meaning = "ControlNotFound" => errno = "ENOENT"
    BY <2>2, MeaningIs DEF Errnos
  <2>5. at = "choose" /\ Matches = {} => \A n \in Volumes \cap steady : ~ IsVolume(elems[n])
    BY <1>1, AllDescribed DEF Matches
  <2> QED
    BY <2>1, <2>2, <2>3, <2>4, <2>5 DEF Ending, Failing
<1> QED
  BY <1>1, SessionInvariant, PTL DEF Spec, ErrorsAreTrue

-----------------------------------------------------------------------------
LEMMA LifetimeStep ==
  ASSUME SessionInv, [Next]_vars
  PROVE  [Lifetime!Next]_(Lifetime!vars)
<1> DEFINE using == IF inflight THEN {"caller"} ELSE {}
<1>1. CASE Acquire
  <2>1. fd = "open" /\ using = {} /\ using' = {"caller"} /\ UNCHANGED fd
    BY <1>1 DEF Acquire, SessionInv, TypeOK, Guarded
  <2> QED
    BY <2>1 DEF Lifetime!Next, Lifetime!Enter
<1>2. CASE Answer
  <2>1. using = {"caller"} /\ using' = {} /\ UNCHANGED fd
    BY <1>2 DEF Answer
  <2> QED
    BY <2>1 DEF Lifetime!Next, Lifetime!Leave
<1>3. CASE CloseFd
  <2>1. fd = "open" /\ using = {} /\ fd' = "closed" /\ UNCHANGED using
    BY <1>3 DEF CloseFd, SessionInv, TypeOK, Guarded
  <2> QED
    BY <2>1 DEF Lifetime!Next, Lifetime!CloseFd
<1>4. CASE UNCHANGED <<fd, inflight>>
  BY <1>4 DEF Lifetime!vars
<1>5. CASE (\E n \in Names : Remove(n) \/ Add(n)) \/ Unplug \/ Swap \/ Mark \/ Drain \/ UNCHANGED vars
  BY <1>4, <1>5 DEF Remove, Add, Unplug, Swap, Mark, Drain, vars, guard
<1>6. CASE (\E o \in Ops : Begin(o)) \/ Refuse
  BY <1>4, <1>6 DEF Begin, Refuse, guard
<1>7. CASE \/ Described \/ Check \/ Listed \/ ChooseNone \/ ChooseMany \/ ChooseOne \/ DescribeOne
           \/ Written \/ Classify \/ Decide
  <2>1. Quiet
    BY <1>7 DEF Described, Check, Listed, ChooseNone, ChooseMany, ChooseOne, DescribeOne, Written, Classify, Decide
  <2> QED
    BY <1>4, <2>1 DEF Quiet, guard
<1> QED
  BY <1>1, <1>2, <1>3, <1>5, <1>6, <1>7 DEF Next, Closer, Caller

\* The guard of the control device implements the lifetime of a descriptor.
THEOREM SessionKeepsLifetime == Spec => FdLifetimeSpec
<1>1. Init => Lifetime!Init
  BY DEF Init, Lifetime!Init
<1> QED
  BY <1>1, LifetimeStep, SessionInvariant, PTL DEF Spec, FdLifetimeSpec, Lifetime!Spec

=============================================================================
