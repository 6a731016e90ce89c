---------------------------- MODULE OpeningProofs ----------------------------
(***************************************************************************)
(* Geometry for every rate, request, grant and word size; and Opening for  *)
(* every device of finitely many sizes and counts: what is negotiated is   *)
(* what the device has and the nearest of an exact one, no exact device is *)
(* refused for its geometry, and a query of rates predicts the open.       *)
(***************************************************************************)
EXTENDS Opening, Sequences, FiniteSetTheorems, TLAPS

\* A quotient rounded down is within one divisor of the number.
LEMMA DivBounds ==
  ASSUME NEW n \in Nat, NEW d \in Nat \ {0}
  PROVE  /\ n \div d \in Nat
         /\ d * (n \div d) <= n
         /\ n < d * (n \div d + 1)
  OBVIOUS

\* The ceiling of the count floor: f times it is at least n.
LEMMA CeilingCovers ==
  ASSUME NEW n \in Nat \ {0}, NEW f \in Nat \ {0}
  PROVE  /\ 1 + (n - 1) \div f \in Nat \ {0}
         /\ f * (1 + (n - 1) \div f) >= n
  <1>1. n - 1 \in Nat
    OBVIOUS
  <1>2. /\ (n - 1) \div f \in Nat
        /\ n - 1 < f * ((n - 1) \div f + 1)
    BY <1>1, DivBounds
  <1>3. f * ((n - 1) \div f + 1) \in Nat
    BY <1>2
  <1> QED
    BY <1>2, <1>3

\* Doubling below the cap stays in the word, and ends at the largest doubling.
LEMMA DoublingStays ==
  ASSUME NEW x \in Nat, x <= Cap \div 2
  PROVE  (2 * x) % Word = 2 * x /\ 2 * x <= Cap
  <1>1. Cap \in Nat /\ Word \in Nat /\ Cap < Word
    BY GeometryAssumption
  <1>2. 2 * x <= Cap
    BY <1>1
  <1>3. 2 * x \in 0 .. Word - 1
    BY <1>1, <1>2
  <1> QED
    BY <1>1, <1>2, <1>3

LEMMA PastHalf ==
  ASSUME NEW x \in Nat, x > Cap \div 2
  PROVE  2 * x > Cap
  <1>1. Cap \in Nat
    BY GeometryAssumption
  <1> QED
    BY <1>1

\* A multiple leaves no remainder.
LEMMA MultipleDivides ==
  ASSUME NEW k \in Nat, NEW n \in Nat \ {0}
  PROVE  (k * n) % n = 0
  OBVIOUS

\* A buffer is a multiple of itself, and twice a multiple is one.
LEMMA FirstMultiple ==
  ASSUME NEW n \in Nat
  PROVE  \E k \in Nat \ {0} : n = k * n
  <1>1. n = 1 * n /\ 1 \in Nat \ {0}
    OBVIOUS
  <1> QED
    BY <1>1

LEMMA NextMultiple ==
  ASSUME NEW n \in Nat, NEW x \in Nat, \E k \in Nat \ {0} : x = k * n
  PROVE  \E k \in Nat \ {0} : 2 * x = k * n
  <1>1. PICK j \in Nat \ {0} : x = j * n
    OBVIOUS
  <1>2. 2 * x = (2 * j) * n /\ 2 * j \in Nat \ {0}
    BY <1>1
  <1> QED
    BY <1>2

-----------------------------------------------------------------------------
\* What the loop of boundary keeps, besides the properties.
LoopInv ==
  /\ pc = "floor" => frames >= asked.size /\ count >= asked.count
  /\ pc = "floor" => frames = IF asked.size = 0 THEN DefaultSize ELSE asked.size
  /\ pc = "floor" => count = IF asked.count = 0 THEN DefaultCount ELSE asked.count
  /\ pc \in {"boundary", "set"} => \E k \in Nat \ {0} : b = k * buffer
  /\ pc \in {"boundary", "set"} /\ buffer <= Cap => b <= Cap
  /\ pc \in {"boundary", "set"} /\ buffer > Cap => b = buffer
  /\ pc = "set" => buffer = 0 \/ b > Cap \div 2

IInv == TypeOK /\ LoopInv /\ FloorHolds /\ FloorIsTight /\ ProbeMatchesOpen

LEMMA InitIInv == Init => IInv
  BY GeometryAssumption DEF Init, IInv, TypeOK, LoopInv, FloorHolds, FloorIsTight, ProbeMatchesOpen, Steps

\* Every step of the open keeps it.
LEMMA NextIInv == IInv /\ [Next]_vars => IInv'
  <1> SUFFICES ASSUME IInv, [Next]_vars PROVE IInv'
    OBVIOUS
  <1> USE DEF IInv, request
  <1>0. /\ rate \in Nat \ {0} /\ asked.size \in Nat /\ asked.count \in Nat
        /\ frames \in Nat /\ count \in Nat /\ Cap \in Nat /\ Word \in Nat
    BY GeometryAssumption DEF TypeOK
  <1>1. ASSUME Defaults PROVE IInv'
    <2>1. DefaultSize \in Nat \ {0} /\ DefaultCount \in Nat \ {0}
      BY <1>0 DEF DefaultSize, DefaultSizeOf, DefaultCount, Larger
    <2>2. /\ pc' = "floor"
          /\ frames' = IF asked.size = 0 THEN DefaultSize ELSE asked.size
          /\ count' = IF asked.count = 0 THEN DefaultCount ELSE asked.count
      BY <1>1 DEF Defaults
    <2>3. TypeOK'
      BY <1>0, <1>1, <2>1, <2>2 DEF Defaults, TypeOK, Steps
    <2>4. DefaultSize' = DefaultSize /\ DefaultCount' = DefaultCount
      BY <1>1 DEF Defaults, DefaultSize, DefaultSizeOf, DefaultCount
    <2>5. LoopInv'
      BY <1>0, <1>1, <2>1, <2>2, <2>4 DEF Defaults, LoopInv, TypeOK
    <2> QED
      BY <2>2, <2>3, <2>5 DEF FloorHolds, FloorIsTight, ProbeMatchesOpen
  <1>2. ASSUME Floor PROVE IInv'
    <2>1. /\ frames \in Nat \ {0} /\ count \in Nat \ {0}
          /\ frames >= asked.size /\ count >= asked.count
          /\ asked.size = 0 => frames = DefaultSize
          /\ asked.count = 0 => count = DefaultCount
      BY <1>2, <1>0 DEF Floor, TypeOK, LoopInv
    <2>2. SizeFloor \in Nat \ {0} /\ SizeFloor * 1000 >= rate
      BY <1>0 DEF SizeFloor
    <2>3. /\ frames' = Larger(frames, SizeFloor) /\ frames' \in Nat \ {0}
          /\ frames' >= frames /\ frames' >= SizeFloor
      BY <1>2, <2>1, <2>2 DEF Floor, Larger
    <2>4. BufferFloor \in Nat \ {0} /\ BufferFloor * 50 >= rate
      BY <1>0 DEF BufferFloor
    <2>5. CountFloor(frames') \in Nat \ {0} /\ frames' * CountFloor(frames') >= BufferFloor
      BY <2>3, <2>4, CeilingCovers DEF CountFloor
    <2>6. /\ count' = Larger(count, CountFloor(frames')) /\ count' \in Nat \ {0}
          /\ count' >= count /\ count' >= CountFloor(frames')
      BY <1>2, <2>1, <2>5 DEF Floor, Larger
    <2>7. frames' * count' >= frames' * CountFloor(frames')
      BY <2>3, <2>5, <2>6
    <2>8. frames' * count' * 50 >= rate
      <3> DEFINE p == frames' * count'
                 q == frames' * CountFloor(frames')
      <3>1. p \in Nat /\ q \in Nat /\ p >= q /\ q >= BufferFloor
        BY <2>3, <2>5, <2>6, <2>7
      <3> HIDE DEF p, q
      <3>2. p * 50 >= rate
        BY <3>1, <2>4, <1>0
      <3> QED
        BY <3>2 DEF p
    <2>9. rate' = rate /\ asked' = asked /\ buffer' = buffer /\ b' = b /\ pc' = "negotiate"
      BY <1>2 DEF Floor
    <2>10. TypeOK'
      BY <2>3, <2>6, <2>9 DEF TypeOK, Steps
    <2>11. FloorHolds'
      BY <1>0, <2>1, <2>2, <2>3, <2>6, <2>8, <2>9 DEF FloorHolds
    <2>12. ProbeMatchesOpen'
      <3> SUFFICES ASSUME asked.size = 0, asked.count = 0
                   PROVE  frames' = DefaultSize /\ count' = DefaultCount
        BY <2>9 DEF ProbeMatchesOpen, DefaultSize, DefaultSizeOf, DefaultCount
      <3>1. frames = DefaultSize /\ count = 4
        BY <2>1 DEF DefaultCount
      <3>2. frames >= SizeFloor
        BY <1>0, <3>1 DEF DefaultSize, DefaultSizeOf, SizeFloor, Larger
      <3>3. frames' = frames
        BY <2>1, <2>2, <2>3, <3>2 DEF Larger
      <3>4. frames * 4 >= BufferFloor
        BY <1>0, <3>1 DEF DefaultSize, DefaultSizeOf, BufferFloor, Larger
      <3>5. (BufferFloor - 1) \div frames < 4
        <4> DEFINE n == BufferFloor - 1
                   d == frames
        <4>1. n \in Nat /\ d \in Nat \ {0} /\ n < d * 4
          BY <2>1, <2>4, <3>4
        <4> HIDE DEF n, d
        <4>2. n \div d \in Nat /\ d * (n \div d) <= n
          BY <4>1, DivBounds
        <4>3. n \div d < 4
          <5>1. SUFFICES ASSUME n \div d >= 4 PROVE FALSE
            BY <4>2
          <5>2. d * (n \div d) >= d * 4
            BY <4>1, <4>2, <5>1
          <5> QED
            BY <4>1, <4>2, <5>2
        <4> QED
          BY <4>3 DEF n, d
      <3>6. CountFloor(frames') <= count
        BY <2>1, <2>4, <3>1, <3>3, <3>5, DivBounds DEF CountFloor
      <3>7. count' = count
        BY <2>1, <2>5, <2>6, <3>6 DEF Larger
      <3> QED
        BY <2>1, <3>3, <3>7
    <2>13. asked.size # 0 /\ frames' > asked.size => (frames' - 1) * 1000 < rate
      <3> SUFFICES ASSUME asked.size # 0, frames' > asked.size PROVE (frames' - 1) * 1000 < rate
        OBVIOUS
      <3>1. frames' = SizeFloor
        BY <1>2, <2>2, <2>3, <1>0 DEF Floor, LoopInv, Larger
      <3> QED
        BY <1>0, <3>1 DEF SizeFloor
    <2>14. asked.count # 0 /\ count' > asked.count => frames' * (count' - 1) * 50 < rate
      <3> SUFFICES ASSUME asked.count # 0, count' > asked.count PROVE frames' * (count' - 1) * 50 < rate
        OBVIOUS
      <3>1. count' = CountFloor(frames')
        BY <1>2, <2>5, <2>6, <1>0 DEF Floor, LoopInv, Larger
      <3>2. BufferFloor - 1 \in Nat /\ (BufferFloor - 1) * 50 < rate
        BY <1>0, <2>4 DEF BufferFloor
      <3>3. count' - 1 = (BufferFloor - 1) \div frames'
        BY <2>3, <3>1, <3>2, DivBounds DEF CountFloor
      <3>4. frames' * (count' - 1) <= BufferFloor - 1 /\ frames' * (count' - 1) \in Nat
        BY <2>3, <3>2, <3>3, DivBounds
      <3> DEFINE p == frames' * (count' - 1)
      <3> HIDE DEF p
      <3>5. p * 50 < rate
        BY <1>0, <2>4, <3>2, <3>4 DEF p
      <3> QED
        BY <3>5 DEF p
    <2>15. FloorIsTight'
      BY <2>9, <2>11, <2>13, <2>14 DEF FloorIsTight
    <2> QED
      BY <2>9, <2>10, <2>11, <2>12, <2>15 DEF LoopInv
  <1>3. ASSUME Grant PROVE IInv'
    <2>1. /\ pc = "negotiate" /\ pc' = "boundary" /\ b' = buffer' /\ buffer' \in 0 .. Word - 1
          /\ rate' = rate /\ asked' = asked /\ frames' = frames /\ count' = count
      BY <1>3, GeometryAssumption DEF Grant
    <2>2. TypeOK' /\ FloorHolds' /\ FloorIsTight' /\ ProbeMatchesOpen'
      BY <2>1 DEF TypeOK, Steps, FloorHolds, FloorIsTight, ProbeMatchesOpen
    <2>3. buffer' \in Nat
      BY <1>0, <2>1
    <2>4. \E k \in Nat \ {0} : b' = k * buffer'
      BY <2>1, <2>3, FirstMultiple
    <2>5. /\ buffer' <= Cap => b' <= Cap
          /\ buffer' > Cap => b' = buffer'
      BY <2>1
    <2>6. LoopInv'
      BY <2>1, <2>4, <2>5 DEF LoopInv
    <2> QED
      BY <2>2, <2>6
  <1>4. ASSUME Double PROVE IInv'
    <2>1. /\ pc = "boundary" /\ pc' = pc /\ b <= Cap \div 2 /\ b' = (2 * b) % Word /\ b \in Nat
          /\ rate' = rate /\ asked' = asked /\ frames' = frames /\ count' = count
          /\ buffer' = buffer /\ buffer \in Nat
      BY <1>0, <1>4 DEF Double, TypeOK
    <2>2. b' = 2 * b /\ 2 * b <= Cap
      BY <2>1, DoublingStays
    <2>3. Cap < Word
      BY <1>0, GeometryAssumption
    <2>4. TypeOK' /\ FloorHolds' /\ FloorIsTight' /\ ProbeMatchesOpen'
      BY <1>0, <2>1, <2>2, <2>3 DEF TypeOK, FloorHolds, FloorIsTight, ProbeMatchesOpen
    <2>5. \E k \in Nat \ {0} : b = k * buffer
      BY <2>1 DEF LoopInv
    <2>6. \E k \in Nat \ {0} : 2 * b = k * buffer
      BY <2>1, <2>5, NextMultiple
    <2>7. \E k \in Nat \ {0} : b' = k * buffer'
      BY <2>1, <2>2, <2>6
    <2>8. buffer <= Cap
      BY <1>0, <2>1, <2>2 DEF LoopInv
    <2>9. /\ buffer' <= Cap => b' <= Cap
          /\ ~ (buffer' > Cap)
      BY <1>0, <2>1, <2>2, <2>8
    <2>10. LoopInv'
      BY <2>1, <2>7, <2>9 DEF LoopInv
    <2> QED
      BY <2>4, <2>10
  <1>5. ASSUME SwParams PROVE IInv'
    <2>1. UNCHANGED <<rate, asked, frames, count, buffer, b>> /\ pc = "boundary" /\ pc' = "set"
          /\ (buffer = 0 \/ b > Cap \div 2)
      BY <1>5 DEF SwParams
    <2> QED
      BY <2>1 DEF TypeOK, Steps, FloorHolds, FloorIsTight, ProbeMatchesOpen, LoopInv
  <1>6. ASSUME UNCHANGED vars PROVE IInv'
    BY <1>6 DEF vars, TypeOK, FloorHolds, FloorIsTight, ProbeMatchesOpen, LoopInv,
                DefaultSize, DefaultSizeOf, DefaultCount
  <1> QED
    BY <1>1, <1>2, <1>3, <1>4, <1>5, <1>6 DEF Next

\* The inductive invariant of an open.
THEOREM OpenInvariant == Spec => []IInv
  BY InitIInv, NextIInv, PTL DEF Spec

\* The numbers stay in the width of uframes, and the geometry is never zero.
THEOREM GeometryTypes == Spec => []TypeOK
  BY OpenInvariant, PTL DEF IInv

\* applyGeometryFloor: the geometry to negotiate holds a millisecond a period and 20 ms
\* a buffer, whatever the rate and the request.
THEOREM FloorIsMet == Spec => []FloorHolds
  BY OpenInvariant, PTL DEF IInv

\* And raises no size or count further than that takes.
THEOREM FloorStaysTight == Spec => []FloorIsTight
  BY OpenInvariant, PTL DEF IInv

\* VerifyRate commits the geometry that an open with the defaults negotiates.
THEOREM ProbeIsTheOpen == Spec => []ProbeMatchesOpen
  BY OpenInvariant, PTL DEF IInv

\* boundary returns the largest doubling of the buffer within the cap, with no wrap.
THEOREM BoundaryIsRight == Spec => []BoundaryIsLargest
  <1>1. IInv => BoundaryIsLargest
    <2> SUFFICES ASSUME IInv, pc = "set", buffer # 0
                 PROVE  /\ b >= buffer /\ b % buffer = 0
                        /\ buffer <= Cap => b <= Cap /\ 2 * b > Cap
                        /\ buffer > Cap => b = buffer
      BY DEF BoundaryIsLargest
    <2>1. b \in Nat /\ buffer \in Nat \ {0} /\ Cap \in Nat
      BY GeometryAssumption DEF IInv, TypeOK
    <2>2. PICK k \in Nat \ {0} : b = k * buffer
      BY DEF IInv, LoopInv
    <2>3. b >= buffer
      BY <2>1, <2>2
    <2>4. b % buffer = 0
      BY <2>1, <2>2, MultipleDivides
    <2>5. 2 * b > Cap
      BY <2>1, PastHalf DEF IInv, LoopInv
    <2> QED
      BY <2>3, <2>4, <2>5 DEF IInv, LoopInv
  <1> QED
    BY OpenInvariant, <1>1, PTL

-----------------------------------------------------------------------------
\* The least and the greatest of a set of numbers.
LEMMA Least ==
  ASSUME NEW S, S \subseteq Nat, S # {}
  PROVE  \E x \in S : \A y \in S : x <= y
<1> DEFINE T == {0 .. y : y \in S}
<1>1. T \subseteq FiniteSubsetsOf(Nat) /\ T # {}
  <2>1. ASSUME NEW y \in S PROVE IsFiniteSet(0 .. y) /\ 0 .. y \in SUBSET Nat
    <3>1. 0 \in Int /\ y \in Int /\ 0 .. y \in SUBSET Nat
      OBVIOUS
    <3> QED
      BY <3>1, FS_Interval
  <2>2. T \subseteq FiniteSubsetsOf(Nat)
    BY <2>1 DEF FiniteSubsetsOf
  <2> QED
    BY <2>2
<1>2. IsWellFoundedOn(StrictSubsetOrdering(Nat), FiniteSubsetsOf(Nat))
  BY FS_StrictSubsetOrderingWellFounded
<1> HIDE DEF T
<1>3. PICK X \in T : \A Y \in T : ~ (<<Y, X>> \in StrictSubsetOrdering(Nat))
  BY <1>1, <1>2, WFMin
<1> USE DEF T
<1>4. PICK x \in S : X = 0 .. x
  BY <1>3
<1>5. ASSUME NEW y \in S, y < x PROVE FALSE
  <2>1. 0 .. y \in SUBSET Nat /\ 0 .. x \in SUBSET Nat /\ 0 .. y \subseteq 0 .. x /\ x \in 0 .. x /\ x \notin 0 .. y
    BY <1>5
  <2>2. 0 .. y # 0 .. x /\ 0 .. y \in T
    BY <2>1
  <2>3. <<0 .. y, 0 .. x>> \in StrictSubsetOrdering(Nat)
    BY <2>1, <2>2 DEF StrictSubsetOrdering
  <2> QED
    BY <1>3, <1>4, <2>2, <2>3
<1> QED
  BY <1>5

LEMMA MinFound ==
  ASSUME NEW S, S \subseteq Nat, S # {}
  PROVE  N!Min(S) \in S /\ \A y \in S : N!Min(S) <= y
BY Least DEF N!Min

LEMMA MaxFound ==
  ASSUME NEW m \in Nat, NEW S, S \subseteq 0 .. m, S # {}
  PROVE  N!Max(S) \in S /\ \A y \in S : y <= N!Max(S)
<1> DEFINE T == {m - y : y \in S}
<1>1. T \subseteq Nat /\ T # {}
  OBVIOUS
<1>2. PICK t \in T : \A u \in T : t <= u
  BY <1>1, Least
<1>3. PICK x \in S : t = m - x
  BY <1>2
<1>4. \A y \in S : y <= x
  <2> TAKE y \in S
  <2>1. m - x <= m - y
    BY <1>2, <1>3
  <2> QED
    BY <2>1
<1> QED
  BY <1>4 DEF N!Max

LEMMA OfTwo ==
  ASSUME NEW x \in Int, NEW y \in Int
  PROVE  /\ N!Max({x, y}) = IF x >= y THEN x ELSE y
         /\ N!Min({x, y}) = IF x <= y THEN x ELSE y
BY DEF N!Max, N!Min

-----------------------------------------------------------------------------
\* What a device makes of intervals.  It leaves values it accepts, inside what was asked,
Geometries == [N!Params -> N!Intervals]
Limit      == [size |-> MaxSize, count |-> MaxCount]

LEMMA Limits == \A q \in N!Params : Limit[q] \in Nat \ {0} /\ N!Top[q] = Limit[q] + 1
BY OpeningAssumption DEF N!Params, N!Top, Limit

LEMMA LeftInside ==
  ASSUME NEW d \in N!AllDrivers, NEW c, NEW q \in N!Params
  PROVE  N!Left(d, c)[q] \subseteq (1 .. Limit[q]) \cap N!Values(c[q])
<1>1. d.pairs \subseteq (1 .. MaxSize) \X (1 .. MaxCount)
  BY DEF N!AllDrivers
<1>2. N!SizesOf(d.pairs) \subseteq 1 .. MaxSize /\ N!CountsOf(d.pairs) \subseteq 1 .. MaxCount
  BY <1>1 DEF N!SizesOf, N!CountsOf
<1> DEFINE both == {p \in d.pairs : p[1] \in N!Values(c.size) /\ p[2] \in N!Values(c.count)}
<1>3. /\ N!SizesOf(both) \subseteq (1 .. MaxSize) \cap N!Values(c.size)
      /\ N!CountsOf(both) \subseteq (1 .. MaxCount) \cap N!Values(c.count)
  BY <1>1 DEF N!SizesOf, N!CountsOf
<1> HIDE DEF both
<1>4. N!Left(d, c) = IF d.exact THEN [size |-> N!SizesOf(both), count |-> N!CountsOf(both)]
                     ELSE [size |-> N!SizesOf(d.pairs) \cap N!Values(c.size),
                           count |-> N!CountsOf(d.pairs) \cap N!Values(c.count)]
  BY DEF N!Left, both
<1>5. q = "size" \/ q = "count"
  BY DEF N!Params
<1> QED
  BY <1>2, <1>3, <1>4, <1>5 DEF Limit

\* What the probe below the target takes a highest value of.
Proposes(iv) == ~ (iv.openMax /\ iv.max = 0)

\* and reports an interval that holds them, hardly wider.
LEMMA NarrowedBounds ==
  ASSUME NEW d \in N!AllDrivers, NEW lo \in Int, NEW hi \in Int, NEW low \in Int, NEW high \in Int,
         lo <= low, low <= high, high <= hi, 0 < low,
         NEW min, min = IF d.exact THEN low ELSE N!Max({lo, low - 1}),
         NEW max, max = IF d.exact THEN high ELSE N!Min({hi, high + 1})
  PROVE  /\ min \in Nat /\ low - 1 <= min /\ min <= low /\ lo <= min
         /\ max \in Nat /\ high <= max /\ max <= high + 1 /\ max <= hi
         /\ d.exact => min = low /\ max = high
<1>1. CASE d.exact
  BY <1>1
<1>2. CASE ~ d.exact
  <2>1. low - 1 \in Int /\ high + 1 \in Int
    OBVIOUS
  <2>2. /\ N!Max({lo, low - 1}) = IF lo >= low - 1 THEN lo ELSE low - 1
        /\ N!Min({hi, high + 1}) = IF hi <= high + 1 THEN hi ELSE high + 1
    BY <2>1, OfTwo
  <2> QED
    BY <1>2, <2>2
<1> QED
  BY <1>1, <1>2

LEMMA NarrowedHolds ==
  ASSUME NEW d \in N!AllDrivers, NEW iv \in N!Intervals, NEW m \in Nat,
         NEW left, left # {}, left \subseteq (1 .. m) \cap N!Values(iv),
         NEW n, n = N!Narrowed(d, iv, left)
  PROVE  /\ n \in N!Intervals /\ Proposes(n)
         /\ 0 <= N!Lowest(n) /\ N!Lowest(n) <= N!Min(left)
         /\ N!Max(left) <= N!Highest(n) /\ N!Highest(n) <= m + 1
         /\ N!Lowest(iv) <= N!Lowest(n) /\ N!Highest(n) <= N!Highest(iv)
         /\ d.exact => N!Lowest(n) = N!Min(left) /\ N!Highest(n) = N!Max(left)
<1>1. left \subseteq Nat /\ left \subseteq 0 .. m
  OBVIOUS
<1>2. PICK low, high : low = N!Min(left) /\ high = N!Max(left)
  OBVIOUS
<1>3. /\ low \in left /\ high \in left /\ \A y \in left : low <= y /\ y <= high
      /\ low \in 1 .. m /\ high \in 1 .. m /\ low <= high
  BY <1>1, <1>2, MinFound, MaxFound
<1>4. /\ N!Lowest(iv) \in Int /\ N!Highest(iv) \in Int
      /\ N!Lowest(iv) <= low /\ high <= N!Highest(iv)
  BY <1>3 DEF N!Intervals, N!Values, N!Lowest, N!Highest
<1>5. PICK min, max : /\ min = IF d.exact THEN low ELSE N!Max({N!Lowest(iv), low - 1})
                      /\ max = IF d.exact THEN high ELSE N!Min({N!Highest(iv), high + 1})
  OBVIOUS
<1>6. n = IF d.open /\ 0 < min /\ min < max THEN N!Interval(min - 1, max + 1, TRUE, TRUE)
          ELSE N!Interval(min, max, FALSE, FALSE)
  BY <1>2, <1>5 DEF N!Narrowed
<1>7. low \in Int /\ high \in Int /\ 0 < low
  BY <1>3
<1>8. /\ min \in Nat /\ low - 1 <= min /\ min <= low /\ N!Lowest(iv) <= min
      /\ max \in Nat /\ high <= max /\ max <= high + 1 /\ max <= N!Highest(iv)
      /\ d.exact => min = low /\ max = high
  BY <1>3, <1>4, <1>5, <1>7, NarrowedBounds
<1>9. n \in N!Intervals /\ Proposes(n) /\ N!Lowest(n) = min /\ N!Highest(n) = max
  <2>1. CASE d.open /\ 0 < min /\ min < max
    <3>1. n = [min |-> min - 1, max |-> max + 1, openMin |-> TRUE, openMax |-> TRUE]
      BY <1>6, <2>1 DEF N!Interval
    <3> QED
      BY <3>1, <1>8, <2>1 DEF Proposes, N!Intervals, N!Lowest, N!Highest
  <2>2. CASE ~ (d.open /\ 0 < min /\ min < max)
    <3>1. n = [min |-> min, max |-> max, openMin |-> FALSE, openMax |-> FALSE]
      BY <1>6, <2>2 DEF N!Interval
    <3> QED
      BY <3>1, <1>8 DEF Proposes, N!Intervals, N!Lowest, N!Highest
  <2> QED
    BY <2>1, <2>2
<1>10. /\ 0 <= min /\ min <= low /\ high <= max /\ max <= m + 1
  BY <1>3, <1>8
<1> QED
  BY <1>2, <1>8, <1>9, <1>10

\* A single value is reported as itself.
LEMMA ExactlyOne ==
  ASSUME NEW v \in Nat
  PROVE  N!Exactly(v) \in N!Intervals /\ N!Values(N!Exactly(v)) = {v} /\ N!Min({v}) = v /\ N!Max({v}) = v
         /\ N!Lowest(N!Exactly(v)) = v /\ N!Highest(N!Exactly(v)) = v
<1>1. N!Exactly(v) \in N!Intervals /\ N!Lowest(N!Exactly(v)) = v /\ N!Highest(N!Exactly(v)) = v
  BY DEF N!Exactly, N!Interval, N!Intervals, N!Lowest, N!Highest
<1>2. {v} \subseteq Nat /\ {v} \subseteq 0 .. v /\ {v} # {}
  OBVIOUS
<1>3. N!Min({v}) = v
  BY <1>2, MinFound
<1>4. N!Max({v}) = v
  BY <1>2, MaxFound
<1>5. N!Values(N!Exactly(v)) = {v}
  BY <1>1 DEF N!Values
<1> QED
  BY <1>1, <1>3, <1>4, <1>5

LEMMA NarrowedSingle ==
  ASSUME NEW d \in N!AllDrivers, NEW v \in Nat, 0 < v, NEW left, left = {v}
  PROVE  N!Narrowed(d, N!Exactly(v), left) = N!Exactly(v)
<1>1. N!Min(left) = v /\ N!Max(left) = v /\ N!Lowest(N!Exactly(v)) = v /\ N!Highest(N!Exactly(v)) = v
  BY ExactlyOne
<1>2. PICK min, max : /\ min = IF d.exact THEN v ELSE N!Max({v, v - 1})
                      /\ max = IF d.exact THEN v ELSE N!Min({v, v + 1})
  OBVIOUS
<1>3. v \in Int /\ v <= v
  OBVIOUS
<1>4. min \in Nat /\ max \in Nat /\ v <= min /\ min <= v /\ v <= max /\ max <= v
  BY <1>2, <1>3, NarrowedBounds
<1>5. min = v /\ max = v /\ ~ (min < max)
  BY <1>4
<1>6. N!Narrowed(d, N!Exactly(v), left) =
        IF d.open /\ 0 < min /\ min < max THEN N!Interval(min - 1, max + 1, TRUE, TRUE)
        ELSE N!Interval(min, max, FALSE, FALSE)
  BY <1>1, <1>2 DEF N!Narrowed
<1>7. N!Narrowed(d, N!Exactly(v), left) = N!Interval(min, max, FALSE, FALSE)
  BY <1>5, <1>6
<1> QED
  BY <1>5, <1>7 DEF N!Exactly

\* So a refine that is not refused leaves every parameter some values.
Bounded(h) ==
  /\ h \in Geometries
  /\ \A q \in N!Params : 0 <= N!Lowest(h[q]) /\ N!Lowest(h[q]) <= N!Highest(h[q]) /\ N!Highest(h[q]) <= N!Top[q]

LEMMA RefinedHolds ==
  ASSUME NEW d \in N!AllDrivers, NEW c \in Geometries, ~ N!Refused(d, c)
  PROVE  /\ Bounded(N!Refined(d, c))
         /\ \A q \in N!Params : Proposes(N!Refined(d, c)[q])
<1> DEFINE R == N!Refined(d, c)
<1>1. R = [q \in N!Params |-> N!Narrowed(d, c[q], N!Left(d, c)[q])]
  BY DEF N!Refined
<1> HIDE DEF R
<1>2. ASSUME NEW q \in N!Params
      PROVE  /\ R[q] \in N!Intervals /\ Proposes(R[q])
             /\ 0 <= N!Lowest(R[q]) /\ N!Lowest(R[q]) <= N!Highest(R[q]) /\ N!Highest(R[q]) <= N!Top[q]
  <2>1. PICK left, iv, n, m : left = N!Left(d, c)[q] /\ iv = c[q] /\ n = R[q] /\ m = Limit[q]
    OBVIOUS
  <2>2. n = N!Narrowed(d, iv, left) /\ iv \in N!Intervals /\ m \in Nat /\ N!Top[q] = m + 1
    BY <1>1, <2>1, Limits DEF Geometries
  <2>3. left # {} /\ left \subseteq (1 .. m) \cap N!Values(iv)
    BY <2>1, LeftInside DEF N!Refused
  <2>4. left \subseteq Nat /\ left \subseteq 0 .. m
    BY <2>2, <2>3
  <2>5. N!Min(left) \in Nat /\ N!Max(left) \in Nat /\ N!Min(left) <= N!Max(left)
    BY <2>2, <2>3, <2>4, MinFound, MaxFound
  <2>6. /\ n \in N!Intervals /\ Proposes(n)
        /\ 0 <= N!Lowest(n) /\ N!Lowest(n) <= N!Min(left)
        /\ N!Max(left) <= N!Highest(n) /\ N!Highest(n) <= m + 1
    BY <2>2, <2>3, NarrowedHolds
  <2>7. N!Lowest(n) \in Int /\ N!Highest(n) \in Int
    BY <2>6 DEF N!Lowest, N!Highest, N!Intervals
  <2>8. N!Lowest(n) <= N!Highest(n)
    BY <2>5, <2>6, <2>7
  <2> QED
    BY <2>1, <2>2, <2>6, <2>8
<1>3. R \in Geometries
  BY <1>1, <1>2 DEF Geometries
<1> QED
  BY <1>2, <1>3 DEF Bounded, R

LEMMA Widest == Bounded(N!AnyGeometry)
<1>1. \A q \in N!Params : N!Top[q] \in Nat
  BY Limits
<1> QED
  BY <1>1 DEF Bounded, Geometries, N!AnyGeometry, N!Interval, N!Intervals, N!Lowest, N!Highest

LEMMA AskingKeeps ==
  ASSUME NEW h \in Geometries, NEW q \in N!Params, NEW iv \in N!Intervals
  PROVE  /\ N!Asking(h, q, iv) \in Geometries
         /\ N!Asking(h, q, iv)[q] = iv
         /\ \A r \in N!Params : r # q => N!Asking(h, q, iv)[r] = h[r]
BY DEF Geometries, N!Asking

-----------------------------------------------------------------------------
\* refineNear as a whole.  The pin that holds first among candidates c,
First(d, h, q, c, v) ==
  \E i \in DOMAIN c : /\ c[i] = v /\ N!Pins(d, h, q, v)
                      /\ \A j \in DOMAIN c : j < i => ~ N!Pins(d, h, q, c[j])

\* the candidates, and the value it ends with near t.
Candidates(d, h, q, t) == N!Ordered(t, N!Up(d, h, q, t), N!Down(d, h, q, t))

Picks(d, h, q, t, v) ==
  IF N!TargetPins(d, h, q, t) THEN v = t ELSE First(d, h, q, Candidates(d, h, q, t), v)

Lists(q) == {c \in Seq(0 .. N!Top[q]) : Len(c) <= 2}

\* A pin that holds leaves sound intervals, the pinned one a single value.
LEMMA PinHolds ==
  ASSUME NEW d \in N!AllDrivers, NEW h, Bounded(h), NEW q \in N!Params, NEW v \in Nat,
         N!Pins(d, h, q, v)
  PROVE  Bounded(N!Pinned(d, h, q, v)) /\ N!Pinned(d, h, q, v)[q] = N!Exactly(v)
<1>1. N!Exactly(v) \in N!Intervals /\ h \in Geometries
  BY DEF N!Exactly, N!Interval, N!Intervals, Bounded
<1>2. N!Asking(h, q, N!Exactly(v)) \in Geometries
  BY <1>1, AskingKeeps
<1> QED
  BY <1>2, RefinedHolds DEF N!Pins, N!Pinned

\* The intervals either probe asks with,
LEMMA ProbesAsk ==
  ASSUME NEW h, Bounded(h), NEW q \in N!Params, NEW t \in Nat
  PROVE  /\ N!AboveOf(h, q, t) \in N!Intervals /\ N!BelowOf(h, q, t) \in N!Intervals
         /\ N!Asking(h, q, N!AboveOf(h, q, t)) \in Geometries
         /\ N!Asking(h, q, N!BelowOf(h, q, t)) \in Geometries
<1>1. h \in Geometries /\ h[q] \in N!Intervals
  BY DEF Bounded, Geometries
<1>2. /\ h[q].min \in Nat /\ h[q].max \in Nat
      /\ h[q].openMin \in BOOLEAN /\ h[q].openMax \in BOOLEAN
  BY <1>1 DEF N!Intervals
<1>3a. h[q].min \in Int /\ h[q].max \in Int /\ t \in Int
  BY <1>2
<1>3. /\ N!Max({t, h[q].min}) = IF t >= h[q].min THEN t ELSE h[q].min
      /\ N!Min({t, h[q].max}) = IF t <= h[q].max THEN t ELSE h[q].max
  BY <1>3a, OfTwo
<1>4. N!Max({t, h[q].min}) \in Nat /\ N!Min({t, h[q].max}) \in Nat
  BY <1>2, <1>3
<1>5. N!AboveOf(h, q, t) \in N!Intervals
  BY <1>2, <1>4 DEF N!AboveOf, N!Interval, N!Intervals
<1>6. N!BelowOf(h, q, t) \in N!Intervals
  BY <1>2, <1>4 DEF N!BelowOf, N!Interval, N!Intervals
<1> QED
  BY <1>1, <1>5, <1>6, AskingKeeps

\* and what it proposes: a value in range, or none.
LEMMA LowestIn ==
  ASSUME NEW h, Bounded(h), NEW q \in N!Params
  PROVE  N!Lowest(h[q]) \in 0 .. N!Top[q] /\ N!Highest(h[q]) \in 0 .. N!Top[q]
<1>1. h[q] \in N!Intervals /\ N!Top[q] \in Nat
  BY Limits DEF Bounded, Geometries
<1>2. N!Lowest(h[q]) \in Int /\ N!Highest(h[q]) \in Int
  BY <1>1 DEF N!Intervals, N!Lowest, N!Highest
<1>3. 0 <= N!Lowest(h[q]) /\ N!Lowest(h[q]) <= N!Highest(h[q]) /\ N!Highest(h[q]) <= N!Top[q]
  BY DEF Bounded
<1> QED
  BY <1>1, <1>2, <1>3

LEMMA ProbesPropose ==
  ASSUME NEW d \in N!AllDrivers, NEW h, Bounded(h), NEW q \in N!Params, NEW t \in Nat
  PROVE  /\ N!Up(d, h, q, t) = <<>> \/ \E x \in 0 .. N!Top[q] : N!Up(d, h, q, t) = <<x>>
         /\ N!Down(d, h, q, t) = <<>> \/ \E x \in 0 .. N!Top[q] : N!Down(d, h, q, t) = <<x>>
<1>1. N!Up(d, h, q, t) = <<>> \/ \E x \in 0 .. N!Top[q] : N!Up(d, h, q, t) = <<x>>
  <2>1. PICK c : c = N!Asking(h, q, N!AboveOf(h, q, t))
    OBVIOUS
  <2>2. c \in Geometries
    BY <2>1, ProbesAsk
  <2>3. ~ N!Refused(d, c) => N!Lowest(N!Refined(d, c)[q]) \in 0 .. N!Top[q]
    BY <2>2, RefinedHolds, LowestIn
  <2> QED
    BY <2>1, <2>3 DEF N!Up
<1>2. N!Down(d, h, q, t) = <<>> \/ \E x \in 0 .. N!Top[q] : N!Down(d, h, q, t) = <<x>>
  <2>1. PICK c : c = N!Asking(h, q, N!BelowOf(h, q, t))
    OBVIOUS
  <2>2. c \in Geometries
    BY <2>1, ProbesAsk
  <2>3. ~ N!Refused(d, c) => N!Highest(N!Refined(d, c)[q]) \in 0 .. N!Top[q]
    BY <2>2, RefinedHolds, LowestIn
  <2> QED
    BY <2>1, <2>3 DEF N!Down
<1> QED
  BY <1>1, <1>2

LEMMA OrderedLists ==
  ASSUME NEW q \in N!Params, NEW t \in Nat, NEW up, NEW down,
         up = <<>> \/ \E x \in 0 .. N!Top[q] : up = <<x>>,
         down = <<>> \/ \E x \in 0 .. N!Top[q] : down = <<x>>
  PROVE  up \in Lists(q) /\ N!Ordered(t, up, down) \in Lists(q)
<1>0. ASSUME NEW S, NEW s, s = <<>> \/ \E x \in S : s = <<x>>
      PROVE  s \in Seq(S) /\ Len(s) <= 1 /\ Len(s) \in Nat
  <2>1. CASE s = <<>>
    BY <2>1
  <2>2. CASE \E x \in S : s = <<x>>
    <3>1. PICK x \in S : s = <<x>>
      BY <2>2
    <3> QED
      BY <3>1
  <2> QED
    BY <1>0, <2>1, <2>2
<1>1. /\ up \in Seq(0 .. N!Top[q]) /\ Len(up) <= 1 /\ Len(up) \in Nat
      /\ down \in Seq(0 .. N!Top[q]) /\ Len(down) <= 1 /\ Len(down) \in Nat
  BY <1>0
<1>2. /\ up \o down \in Seq(0 .. N!Top[q]) /\ Len(up \o down) <= 2
      /\ down \o up \in Seq(0 .. N!Top[q]) /\ Len(down \o up) <= 2
  BY <1>1
<1> QED
  BY <1>1, <1>2 DEF N!Ordered, Lists

LEMMA CandidatesListed ==
  ASSUME NEW d \in N!AllDrivers, NEW h, Bounded(h), NEW q \in N!Params, NEW t \in Nat
  PROVE  N!Up(d, h, q, t) \in Lists(q) /\ Candidates(d, h, q, t) \in Lists(q)
BY ProbesPropose, OrderedLists DEF Candidates

\* The pin that holds first, found from the head of a list.
LEMMA FirstOfNone ==
  ASSUME NEW d, NEW h, NEW q, NEW v
  PROVE  ~ First(d, h, q, <<>>, v)
BY DEF First

LEMMA FirstIsHead ==
  ASSUME NEW d, NEW h, NEW q \in N!Params, NEW c \in Lists(q), c # <<>>, N!Pins(d, h, q, Head(c))
  PROVE  First(d, h, q, c, Head(c))
<1>1. 1 \in DOMAIN c /\ Head(c) = c[1] /\ \A j \in DOMAIN c : ~ (j < 1)
  BY DEF Lists
<1> QED
  BY <1>1 DEF First

LEMMA FirstIsLater ==
  ASSUME NEW d, NEW h, NEW q \in N!Params, NEW c \in Lists(q), c # <<>>, ~ N!Pins(d, h, q, Head(c)), NEW v
  PROVE  Tail(c) \in Lists(q) /\ (First(d, h, q, Tail(c), v) <=> First(d, h, q, c, v))
<1>1. /\ c \in Seq(0 .. N!Top[q]) /\ Len(c) \in Nat /\ Len(c) <= 2 /\ Len(c) >= 1 /\ Head(c) = c[1]
      /\ Tail(c) \in Seq(0 .. N!Top[q]) /\ Len(Tail(c)) = Len(c) - 1
      /\ DOMAIN c = 1 .. Len(c) /\ DOMAIN Tail(c) = 1 .. Len(c) - 1
      /\ \A i \in 1 .. Len(c) - 1 : Tail(c)[i] = c[i + 1]
  BY DEF Lists
<1>2. ASSUME First(d, h, q, Tail(c), v) PROVE First(d, h, q, c, v)
  <2>1. PICK i \in DOMAIN Tail(c) : /\ Tail(c)[i] = v /\ N!Pins(d, h, q, v)
                                    /\ \A j \in DOMAIN Tail(c) : j < i => ~ N!Pins(d, h, q, Tail(c)[j])
    BY <1>2 DEF First
  <2>2. i + 1 \in DOMAIN c /\ c[i + 1] = v
    BY <1>1, <2>1
  <2>3. ASSUME NEW j \in DOMAIN c, j < i + 1 PROVE ~ N!Pins(d, h, q, c[j])
    <3>1. CASE j = 1
      BY <3>1, <1>1
    <3>2. CASE j # 1
      <4>1. j - 1 \in DOMAIN Tail(c) /\ j - 1 < i /\ Tail(c)[j - 1] = c[j]
        BY <3>2, <2>3, <1>1
      <4> QED
        BY <4>1, <2>1
    <3> QED
      BY <3>1, <3>2
  <2> QED
    BY <2>1, <2>2, <2>3 DEF First
<1>3. ASSUME First(d, h, q, c, v) PROVE First(d, h, q, Tail(c), v)
  <2>1. PICK i \in DOMAIN c : /\ c[i] = v /\ N!Pins(d, h, q, v)
                              /\ \A j \in DOMAIN c : j < i => ~ N!Pins(d, h, q, c[j])
    BY <1>3 DEF First
  <2>2. i # 1
    BY <1>1, <2>1
  <2>3. i - 1 \in DOMAIN Tail(c) /\ Tail(c)[i - 1] = v
    BY <1>1, <2>1, <2>2
  <2>4. ASSUME NEW j \in DOMAIN Tail(c), j < i - 1 PROVE ~ N!Pins(d, h, q, Tail(c)[j])
    <3>1. j + 1 \in DOMAIN c /\ j + 1 < i /\ Tail(c)[j] = c[j + 1]
      BY <2>4, <1>1, <2>1
    <3> QED
      BY <3>1, <2>1
  <2> QED
    BY <2>1, <2>3, <2>4 DEF First
<1> QED
  BY <1>1, <1>2, <1>3 DEF Lists

LEMMA FirstIsUnique ==
  ASSUME NEW d, NEW h, NEW q \in N!Params, NEW c \in Lists(q), NEW v, NEW w,
         First(d, h, q, c, v), First(d, h, q, c, w)
  PROVE  v = w /\ N!Pins(d, h, q, v) /\ v \in Nat
<1>1. PICK i \in DOMAIN c : /\ c[i] = v /\ N!Pins(d, h, q, v)
                            /\ \A j \in DOMAIN c : j < i => ~ N!Pins(d, h, q, c[j])
  BY DEF First
<1>2. PICK k \in DOMAIN c : /\ c[k] = w /\ N!Pins(d, h, q, w)
                            /\ \A j \in DOMAIN c : j < k => ~ N!Pins(d, h, q, c[j])
  BY DEF First
<1>3. c \in Seq(0 .. N!Top[q]) /\ i \in Nat /\ k \in Nat /\ c[i] \in 0 .. N!Top[q] /\ N!Top[q] \in Nat
  BY Limits DEF Lists
<1>4. i = k
  BY <1>1, <1>2, <1>3
<1> QED
  BY <1>1, <1>2, <1>3, <1>4

\* What refineNear ends with is one value, and its pin holds.
LEMMA PicksOne ==
  ASSUME NEW d \in N!AllDrivers, NEW h, Bounded(h), NEW q \in N!Params, NEW t \in Nat,
         NEW v, NEW w, Picks(d, h, q, t, v), Picks(d, h, q, t, w)
  PROVE  v = w /\ N!Pins(d, h, q, v) /\ v \in Nat
<1>1. CASE N!TargetPins(d, h, q, t)
  BY <1>1 DEF Picks, N!TargetPins
<1>2. CASE ~ N!TargetPins(d, h, q, t)
  BY <1>2, CandidatesListed, FirstIsUnique DEF Picks
<1> QED
  BY <1>1, <1>2

-----------------------------------------------------------------------------
\* A driver that knows that A is what is left for parameter q of intervals h.
Knows(d, h, q, A) ==
  \A iv \in N!Intervals :
    LET c == N!Asking(h, q, iv)
    IN N!Left(d, c)[q] = A \cap N!Values(iv) /\ (N!Refused(d, c) <=> A \cap N!Values(iv) = {})

From(A, t) == {a \in A : t <= a}
UpTo(A, t) == {a \in A : a <= t}

\* Its pins hold just for the values of A,
LEMMA ExactPins ==
  ASSUME NEW d \in N!AllDrivers, NEW h, Bounded(h), NEW q \in N!Params,
         NEW A, \A a \in A : a \in 1 .. Limit[q], Knows(d, h, q, A), NEW v \in Nat
  PROVE  N!Pins(d, h, q, v) <=> v \in A
<1>1. PICK c : c = N!Asking(h, q, N!Exactly(v))
  OBVIOUS
<1>2. h \in Geometries /\ N!Exactly(v) \in N!Intervals
  BY ExactlyOne DEF Bounded
<1>3. c \in Geometries /\ c[q] = N!Exactly(v)
  BY <1>1, <1>2, AskingKeeps
<1>4. N!Left(d, c)[q] = A \cap {v} /\ (N!Refused(d, c) <=> A \cap {v} = {})
  BY <1>1, <1>2, ExactlyOne DEF Knows
<1>5. ASSUME v \in A PROVE N!Pinned(d, h, q, v)[q] = N!Exactly(v)
  <2>1. PICK left : left = N!Left(d, c)[q]
    OBVIOUS
  <2>2. left = {v} /\ 0 < v
    <3>1. Limit[q] \in Nat
      BY Limits
    <3> QED
      BY <1>4, <1>5, <2>1, <3>1
  <2>3. N!Narrowed(d, N!Exactly(v), left) = N!Exactly(v)
    BY <2>2, NarrowedSingle
  <2> QED
    BY <1>1, <1>3, <2>1, <2>3 DEF N!Pinned, N!Refined
<1> QED
  BY <1>1, <1>4, <1>5 DEF N!Pins

\* its probes look at the values of A from t on, and up to t,
LEMMA ProbesLook ==
  ASSUME NEW h, Bounded(h), NEW q \in N!Params, NEW t \in Nat,
         NEW A, \A a \in A : a \in 1 .. Limit[q] /\ a \in N!Values(h[q])
  PROVE  /\ A \cap N!Values(N!AboveOf(h, q, t)) = From(A, t)
         /\ A \cap N!Values(N!BelowOf(h, q, t)) = UpTo(A, t)
         /\ t > h[q].max => From(A, t) = {}
         /\ t < h[q].min => UpTo(A, t) = {}
<1>1. PICK iv : iv = h[q]
  OBVIOUS
<1>2. iv.min \in Nat /\ iv.max \in Nat /\ iv.openMin \in BOOLEAN /\ iv.openMax \in BOOLEAN
  BY <1>1 DEF Bounded, Geometries, N!Intervals
<1>3. \A a \in A : /\ a \in Nat /\ iv.min <= a /\ a <= iv.max
                   /\ iv.openMin => iv.min < a
                   /\ iv.openMax => a < iv.max
  <2> TAKE a \in A
  <2>1. a \in Nat /\ a \in N!Values(iv) /\ Limit[q] \in Nat
    BY <1>1, Limits
  <2> QED
    BY <2>1, <1>2 DEF N!Values, N!Lowest, N!Highest
<1>4. iv.min \in Int /\ iv.max \in Int /\ t \in Int
  BY <1>2
<1>5. PICK lo, hi : /\ lo = IF t >= iv.min THEN t ELSE iv.min
                    /\ hi = IF t <= iv.max THEN t ELSE iv.max
  OBVIOUS
<1>6. lo = N!Max({t, iv.min}) /\ hi = N!Min({t, iv.max}) /\ lo \in Nat /\ hi \in Nat
  BY <1>2, <1>4, <1>5, OfTwo
<1>7. PICK above, below : above = N!AboveOf(h, q, t) /\ below = N!BelowOf(h, q, t)
  OBVIOUS
<1>8. ASSUME NEW a \in A PROVE a \in N!Values(above) <=> t <= a
  <2>1. /\ above.min = lo /\ above.max = iv.max
        /\ above.openMin <=> lo = iv.min /\ iv.openMin
        /\ above.openMax <=> iv.openMax
    BY <1>1, <1>6, <1>7 DEF N!AboveOf, N!Interval
  <2>2. /\ N!Lowest(above) = IF lo = iv.min /\ iv.openMin THEN lo + 1 ELSE lo
        /\ N!Highest(above) = IF iv.openMax THEN iv.max - 1 ELSE iv.max
    BY <2>1 DEF N!Lowest, N!Highest
  <2> QED
    BY <2>2, <1>2, <1>3, <1>5 DEF N!Values
<1>9. ASSUME NEW a \in A PROVE a \in N!Values(below) <=> a <= t
  <2>1. /\ below.min = iv.min /\ below.max = hi
        /\ below.openMin <=> iv.openMin
        /\ below.openMax <=> hi = iv.max /\ iv.openMax
    BY <1>1, <1>6, <1>7 DEF N!BelowOf, N!Interval
  <2>2. /\ N!Lowest(below) = IF iv.openMin THEN iv.min + 1 ELSE iv.min
        /\ N!Highest(below) = IF hi = iv.max /\ iv.openMax THEN hi - 1 ELSE hi
    BY <2>1 DEF N!Lowest, N!Highest
  <2> QED
    BY <2>2, <1>2, <1>3, <1>5 DEF N!Values
<1>10. A \cap N!Values(N!AboveOf(h, q, t)) = From(A, t)
  BY <1>7, <1>8, Zenon DEF From
<1>11. A \cap N!Values(N!BelowOf(h, q, t)) = UpTo(A, t)
  BY <1>7, <1>9, Zenon DEF UpTo
<1>12. /\ t > h[q].max => From(A, t) = {}
       /\ t < h[q].min => UpTo(A, t) = {}
  BY <1>1, <1>2, <1>3 DEF From, UpTo
<1> QED
  BY <1>10, <1>11, <1>12

\* and propose the nearest of them on either side.
LEMMA ExactProbes ==
  ASSUME NEW d \in N!AllDrivers, d.exact, NEW h, Bounded(h), NEW q \in N!Params, NEW t \in Nat,
         NEW A, \A a \in A : a \in 1 .. Limit[q] /\ a \in N!Values(h[q]), Knows(d, h, q, A)
  PROVE  /\ N!Up(d, h, q, t) = IF From(A, t) = {} THEN <<>> ELSE <<N!Min(From(A, t))>>
         /\ N!Down(d, h, q, t) = IF UpTo(A, t) = {} THEN <<>> ELSE <<N!Max(UpTo(A, t))>>
<1>0. /\ From(A, t) \subseteq 1 .. Limit[q] /\ UpTo(A, t) \subseteq 1 .. Limit[q] /\ Limit[q] \in Nat
      /\ h[q].min \in Nat /\ h[q].max \in Nat
  BY Limits DEF From, UpTo, Bounded, Geometries, N!Intervals
<1>1. N!Up(d, h, q, t) = IF From(A, t) = {} THEN <<>> ELSE <<N!Min(From(A, t))>>
  <2>1. PICK iv, c : iv = N!AboveOf(h, q, t) /\ c = N!Asking(h, q, iv)
    OBVIOUS
  <2>2. iv \in N!Intervals /\ c \in Geometries /\ c[q] = iv
    BY <2>1, ProbesAsk, AskingKeeps DEF Bounded
  <2>3. N!Left(d, c)[q] = From(A, t) /\ (N!Refused(d, c) <=> From(A, t) = {})
    <3>1. N!Left(d, c)[q] = A \cap N!Values(iv) /\ (N!Refused(d, c) <=> A \cap N!Values(iv) = {})
      BY <2>1, <2>2 DEF Knows
    <3>2. A \cap N!Values(iv) = From(A, t)
      BY <2>1, ProbesLook
    <3> QED
      BY <3>1, <3>2
  <2>4. From(A, t) # {} => N!Lowest(N!Refined(d, c)[q]) = N!Min(From(A, t))
    <3> SUFFICES ASSUME From(A, t) # {} PROVE N!Lowest(N!Refined(d, c)[q]) = N!Min(From(A, t))
      OBVIOUS
    <3>1. PICK n : n = N!Narrowed(d, iv, From(A, t))
      OBVIOUS
    <3>2. N!Refined(d, c)[q] = n
      BY <2>2, <2>3, <3>1 DEF N!Refined
    <3>3. From(A, t) \subseteq (1 .. Limit[q]) \cap N!Values(iv)
      BY <1>0, <2>1, ProbesLook
    <3>4. N!Lowest(n) = N!Min(From(A, t))
      BY <1>0, <2>2, <3>1, <3>3, NarrowedHolds
    <3> QED
      BY <3>2, <3>4
  <2>5. From(A, t) # {} => t <= h[q].max
    BY <1>0, ProbesLook
  <2>6. N!Up(d, h, q, t) = IF t <= h[q].max /\ ~ N!Refused(d, c) THEN <<N!Lowest(N!Refined(d, c)[q])>> ELSE <<>>
    BY <2>1 DEF N!Up
  <2> QED
    BY <2>3, <2>4, <2>5, <2>6
<1>2. N!Down(d, h, q, t) = IF UpTo(A, t) = {} THEN <<>> ELSE <<N!Max(UpTo(A, t))>>
  <2>1. PICK iv, c : iv = N!BelowOf(h, q, t) /\ c = N!Asking(h, q, iv)
    OBVIOUS
  <2>2. iv \in N!Intervals /\ c \in Geometries /\ c[q] = iv
    BY <2>1, ProbesAsk, AskingKeeps DEF Bounded
  <2>3. N!Left(d, c)[q] = UpTo(A, t) /\ (N!Refused(d, c) <=> UpTo(A, t) = {})
    <3>1. N!Left(d, c)[q] = A \cap N!Values(iv) /\ (N!Refused(d, c) <=> A \cap N!Values(iv) = {})
      BY <2>1, <2>2 DEF Knows
    <3>2. A \cap N!Values(iv) = UpTo(A, t)
      BY <2>1, ProbesLook
    <3> QED
      BY <3>1, <3>2
  <2>4. UpTo(A, t) # {} => /\ N!Highest(N!Refined(d, c)[q]) = N!Max(UpTo(A, t))
                           /\ Proposes(N!Refined(d, c)[q])
    <3> SUFFICES ASSUME UpTo(A, t) # {} PROVE /\ N!Highest(N!Refined(d, c)[q]) = N!Max(UpTo(A, t))
                                              /\ Proposes(N!Refined(d, c)[q])
      OBVIOUS
    <3>1. PICK n : n = N!Narrowed(d, iv, UpTo(A, t))
      OBVIOUS
    <3>2. N!Refined(d, c)[q] = n
      BY <2>2, <2>3, <3>1 DEF N!Refined
    <3>3. UpTo(A, t) \subseteq (1 .. Limit[q]) \cap N!Values(iv)
      BY <1>0, <2>1, ProbesLook
    <3>4. N!Highest(n) = N!Max(UpTo(A, t)) /\ Proposes(n)
      BY <1>0, <2>2, <3>1, <3>3, NarrowedHolds
    <3> QED
      BY <3>2, <3>4
  <2>5. UpTo(A, t) # {} => t >= h[q].min
    BY <1>0, ProbesLook
  <2>6. N!Down(d, h, q, t) = IF /\ t >= h[q].min /\ ~ N!Refused(d, c)
                                /\ Proposes(N!Refined(d, c)[q])
                             THEN <<N!Highest(N!Refined(d, c)[q])>> ELSE <<>>
    BY <2>1 DEF N!Down, Proposes
  <2> QED
    BY <2>3, <2>4, <2>5, <2>6
<1> QED
  BY <1>1, <1>2

LEMMA HeadOfBoth ==
  ASSUME NEW x, NEW y
  PROVE  /\ 1 \in DOMAIN (<<x>> \o <<>>) /\ (<<x>> \o <<>>)[1] = x
         /\ 1 \in DOMAIN (<<>> \o <<x>>) /\ (<<>> \o <<x>>)[1] = x
         /\ 1 \in DOMAIN (<<x>> \o <<y>>) /\ (<<x>> \o <<y>>)[1] = x
OBVIOUS

\* The first of the two is the nearest value of A.
LEMMA FirstIsNearest ==
  ASSUME NEW m \in Nat, NEW A, A # {}, \A a \in A : a \in 1 .. m, NEW t \in Nat, t \notin A,
         NEW up, up = IF From(A, t) = {} THEN <<>> ELSE <<N!Min(From(A, t))>>,
         NEW down, down = IF UpTo(A, t) = {} THEN <<>> ELSE <<N!Max(UpTo(A, t))>>,
         NEW c, c = N!Ordered(t, up, down)
  PROVE  1 \in DOMAIN c /\ c[1] \in A /\ N!NearestOf(c[1], A, t)
<1>1. /\ From(A, t) \subseteq 0 .. m /\ UpTo(A, t) \subseteq 0 .. m
      /\ From(A, t) \subseteq Nat /\ UpTo(A, t) \subseteq Nat
  BY DEF From, UpTo
<1>2. From(A, t) # {} => N!Min(From(A, t)) \in A /\ N!Min(From(A, t)) > t /\ \A a \in A : a < t \/ N!Min(From(A, t)) <= a
  <2>1. From(A, t) # {} => N!Min(From(A, t)) \in From(A, t) /\ \A a \in From(A, t) : N!Min(From(A, t)) <= a
    BY <1>1, MinFound
  <2> QED
    BY <2>1 DEF From
<1>3. UpTo(A, t) # {} => N!Max(UpTo(A, t)) \in A /\ N!Max(UpTo(A, t)) < t /\ \A a \in A : a > t \/ N!Max(UpTo(A, t)) >= a
  <2>1. UpTo(A, t) # {} => N!Max(UpTo(A, t)) \in UpTo(A, t) /\ \A a \in UpTo(A, t) : N!Max(UpTo(A, t)) >= a
    BY <1>1, MaxFound
  <2> QED
    BY <2>1 DEF UpTo
<1>4. From(A, t) # {} \/ UpTo(A, t) # {}
  BY DEF From, UpTo
<1>5. PICK x, y : x = N!Min(From(A, t)) /\ y = N!Max(UpTo(A, t))
  OBVIOUS
<1>6. CASE UpTo(A, t) = {}
  <2>1. up = <<x>> /\ down = <<>> /\ x \in A /\ x > t /\ \A a \in A : a < t \/ x <= a
    BY <1>2, <1>4, <1>5, <1>6
  <2>2. \A a \in A : a > t
    BY <1>6 DEF UpTo
  <2>3. c = up \o down /\ 1 \in DOMAIN c /\ c[1] = x
    <3>1. c = up \o down
      BY <2>1 DEF N!Ordered
    <3> QED
      BY <2>1, <3>1, HeadOfBoth
  <2>4. N!NearestOf(x, A, t)
    BY <2>1, <2>2 DEF N!NearestOf
  <2> QED
    BY <2>1, <2>3, <2>4
<1>7. CASE From(A, t) = {}
  <2>1. up = <<>> /\ down = <<y>> /\ y \in A /\ y < t /\ \A a \in A : a > t \/ y >= a
    BY <1>3, <1>4, <1>5, <1>7
  <2>2. \A a \in A : a < t
    BY <1>7 DEF From
  <2>3. c = up \o down /\ 1 \in DOMAIN c /\ c[1] = y
    <3>1. c = up \o down
      BY <2>1 DEF N!Ordered
    <3> QED
      BY <2>1, <3>1, HeadOfBoth
  <2>4. N!NearestOf(y, A, t)
    BY <2>1, <2>2 DEF N!NearestOf
  <2> QED
    BY <2>1, <2>3, <2>4
<1>8. CASE UpTo(A, t) # {} /\ From(A, t) # {}
  <2>1. /\ up = <<x>> /\ x \in A /\ x > t /\ \A a \in A : a < t \/ x <= a
        /\ down = <<y>> /\ y \in A /\ y < t /\ \A a \in A : a > t \/ y >= a
    BY <1>2, <1>3, <1>5, <1>8
  <2>2. N!Distance(down[1], t) = t - y /\ N!Distance(up[1], t) = x - t
    BY <2>1 DEF N!Distance
  <2>3. 1 \in DOMAIN c /\ c[1] = IF t - y < x - t THEN y ELSE x
    <3>1. c = IF t - y < x - t THEN down \o up ELSE up \o down
      BY <2>1, <2>2 DEF N!Ordered
    <3> QED
      BY <2>1, <3>1, HeadOfBoth
  <2>4. \A a \in A : a \in Nat
    OBVIOUS
  <2>5. IF t - y < x - t THEN N!NearestOf(y, A, t) ELSE N!NearestOf(x, A, t)
    BY <2>1, <2>4 DEF N!NearestOf
  <2> QED
    BY <2>1, <2>3, <2>5
<1> QED
  BY <1>6, <1>7, <1>8

\* So an exact driver is given the nearest value it accepts.
LEMMA ExactNear ==
  ASSUME NEW d \in N!AllDrivers, d.exact, NEW h, Bounded(h), NEW q \in N!Params, NEW t \in Nat,
         NEW A, A # {}, \A a \in A : a \in 1 .. Limit[q] /\ a \in N!Values(h[q]), Knows(d, h, q, A)
  PROVE  \E v \in A : Picks(d, h, q, t, v) /\ N!NearestOf(v, A, t)
<1>1. \A v \in Nat : N!Pins(d, h, q, v) <=> v \in A
  BY ExactPins
<1>2. A \subseteq Nat /\ Limit[q] \in Nat
  BY Limits
<1>3. CASE t \in A
  <2>1. h[q].min <= t /\ t <= h[q].max
    <3>1. h[q] \in N!Intervals /\ t \in N!Values(h[q])
      BY <1>3 DEF Bounded, Geometries
    <3> QED
      BY <3>1 DEF N!Intervals, N!Values, N!Lowest, N!Highest
  <2>2. N!TargetPins(d, h, q, t)
    BY <1>1, <1>3, <2>1 DEF N!TargetPins
  <2>3. N!NearestOf(t, A, t)
    BY <1>2, <1>3 DEF N!NearestOf
  <2> QED
    BY <1>3, <2>2, <2>3 DEF Picks
<1>4. CASE t \notin A
  <2>1. ~ N!TargetPins(d, h, q, t)
    BY <1>1, <1>4 DEF N!TargetPins
  <2>2. PICK c : c = Candidates(d, h, q, t)
    OBVIOUS
  <2>3. 1 \in DOMAIN c /\ c[1] \in A /\ N!NearestOf(c[1], A, t)
    <3>1. PICK up, down : up = N!Up(d, h, q, t) /\ down = N!Down(d, h, q, t)
      OBVIOUS
    <3>2. /\ up = IF From(A, t) = {} THEN <<>> ELSE <<N!Min(From(A, t))>>
          /\ down = IF UpTo(A, t) = {} THEN <<>> ELSE <<N!Max(UpTo(A, t))>>
      BY <3>1, ExactProbes
    <3>3. c = N!Ordered(t, up, down)
      BY <2>2, <3>1 DEF Candidates
    <3>4. \A a \in A : a \in 1 .. Limit[q]
      OBVIOUS
    <3> QED
      BY <1>2, <1>4, <3>2, <3>3, <3>4, FirstIsNearest
  <2>4. c \in Lists(q)
    BY <2>2, CandidatesListed
  <2>5. c # <<>> /\ Head(c) = c[1]
    BY <2>3, <2>4 DEF Lists
  <2>6. First(d, h, q, c, c[1])
    BY <1>1, <1>2, <2>3, <2>4, <2>5, FirstIsHead
  <2> QED
    BY <2>1, <2>2, <2>3, <2>6 DEF Picks
<1> QED
  BY <1>3, <1>4

-----------------------------------------------------------------------------
\* A negotiation as a whole: what the format leaves, and what it comes to for a size
\* and for a count.
Offered(d)       == N!Refined(d, N!AnyGeometry)
Sized(d, s)      == N!Pinned(d, Offered(d), "size", s)
Counted(d, s, c) == N!Pinned(d, Sized(d, s), "count", c)
Hopeless(d)      == N!Refused(d, N!AnyGeometry)

\* s and c are the size and the count that a negotiation near w ends with.
Chosen(d, w, s, c) ==
  /\ Picks(d, Offered(d), "size", w.size, s)
  /\ Picks(d, Sized(d, s), "count", w.count, c)

Accepted(d, h) == <<h.size.min, h.count.min>> \in d.pairs

Fits(d, w) == \E s, c \in Nat : Chosen(d, w, s, c) /\ Accepted(d, Counted(d, s, c))

\* "a rate commits here iff the streaming open can deliver it" (rates.go:121).
Deliverable(d, r, w) == ~ Hopeless(d) /\ d.rates[r] = "kept" /\ Fits(d, w)

\* What is left for a parameter is kept by the refine, and a single value as itself.
LEMMA LeftStays ==
  ASSUME NEW d \in N!AllDrivers, NEW c \in Geometries, ~ N!Refused(d, c), NEW q \in N!Params
  PROVE  /\ N!Left(d, c)[q] # {}
         /\ \A x \in N!Left(d, c)[q] : x \in 1 .. Limit[q] /\ x \in N!Values(c[q]) /\ x \in N!Values(N!Refined(d, c)[q])
         /\ \A v \in Nat : c[q] = N!Exactly(v) => N!Refined(d, c)[q] = N!Exactly(v)
<1>1. PICK left, iv, n, m : left = N!Left(d, c)[q] /\ iv = c[q] /\ n = N!Refined(d, c)[q] /\ m = Limit[q]
  OBVIOUS
<1>2. n = N!Narrowed(d, iv, left) /\ iv \in N!Intervals /\ m \in Nat
  BY <1>1, Limits DEF N!Refined, Geometries
<1>3. left # {} /\ left \subseteq (1 .. m) \cap N!Values(iv)
  BY <1>1, LeftInside DEF N!Refused
<1>4. /\ n \in N!Intervals /\ N!Lowest(n) <= N!Min(left) /\ N!Max(left) <= N!Highest(n)
  <2>1. n \in N!Intervals
    BY <1>2, <1>3, NarrowedHolds
  <2>2. N!Lowest(n) <= N!Min(left) /\ N!Max(left) <= N!Highest(n)
    BY <1>2, <1>3, NarrowedHolds
  <2> QED
    BY <2>1, <2>2
<1>5. /\ \A x \in left : x \in 1 .. m /\ x \in N!Values(iv)
      /\ left \subseteq Nat /\ left \subseteq 0 .. m
  BY <1>2, <1>3
<1>6. /\ N!Min(left) \in left /\ N!Max(left) \in left
      /\ \A x \in left : N!Min(left) <= x /\ x <= N!Max(left)
  BY <1>2, <1>3, <1>5, MinFound, MaxFound
<1>7. ASSUME NEW x \in left PROVE x \in N!Values(n)
  <2>1. N!Lowest(n) \in Int /\ N!Highest(n) \in Int
    BY <1>4 DEF N!Intervals, N!Lowest, N!Highest
  <2>2. x \in Nat /\ N!Min(left) \in Nat /\ N!Max(left) \in Nat
    BY <1>5, <1>6, Zenon
  <2>3. N!Min(left) <= x /\ x <= N!Max(left)
    BY <1>6
  <2> QED
    BY <2>1, <2>2, <2>3, <1>4 DEF N!Values
<1>8. ASSUME NEW v \in Nat, iv = N!Exactly(v) PROVE n = N!Exactly(v)
  <2>1. N!Values(iv) = {v}
    BY <1>8, ExactlyOne
  <2>2. left = {v} /\ 0 < v
    <3>1. \A x \in left : x = v
      BY <2>1, <1>5
    <3>2. left = {v}
      BY <3>1, <1>3
    <3>3. v \in 1 .. m
      BY <3>2, <1>5
    <3> QED
      BY <3>2, <3>3, <1>2
  <2>3. N!Narrowed(d, N!Exactly(v), left) = N!Exactly(v)
    BY <2>2, NarrowedSingle
  <2> QED
    BY <1>2, <1>8, <2>3
<1> QED
  BY <1>1, <1>3, <1>5, <1>7, <1>8

LEMMA SidesOfPairs ==
  ASSUME NEW P, \A p \in P : p = <<p[1], p[2]>>
  PROVE  /\ \A x : x \in N!SizesOf(P) <=> \E y : <<x, y>> \in P
         /\ \A y : y \in N!CountsOf(P) <=> \E x : <<x, y>> \in P
<1>1. \A x : x \in N!SizesOf(P) <=> \E y : <<x, y>> \in P
  BY DEF N!SizesOf
<1>2. \A y : y \in N!CountsOf(P) <=> \E x : <<x, y>> \in P
  BY DEF N!CountsOf
<1> QED
  BY <1>1, <1>2

\* An exact driver leaves the pairs it accepts inside the intervals.
LEMMA ExactLeft ==
  ASSUME NEW d \in N!AllDrivers, d.exact, NEW c
  PROVE  /\ \A x : x \in N!Left(d, c)["size"] <=>
               \E y : <<x, y>> \in d.pairs /\ x \in N!Values(c.size) /\ y \in N!Values(c.count)
         /\ \A y : y \in N!Left(d, c)["count"] <=>
               \E x : <<x, y>> \in d.pairs /\ x \in N!Values(c.size) /\ y \in N!Values(c.count)
         /\ N!Refused(d, c) <=>
               ~ \E x, y : <<x, y>> \in d.pairs /\ x \in N!Values(c.size) /\ y \in N!Values(c.count)
<1>1. PICK both : both = {p \in d.pairs : p[1] \in N!Values(c.size) /\ p[2] \in N!Values(c.count)}
  OBVIOUS
<1>2. N!Left(d, c) = [size |-> N!SizesOf(both), count |-> N!CountsOf(both)]
  BY <1>1 DEF N!Left
<1>3. \A p \in both : p = <<p[1], p[2]>>
  BY <1>1 DEF N!AllDrivers
<1>4. \A x, y : <<x, y>> \in both <=> <<x, y>> \in d.pairs /\ x \in N!Values(c.size) /\ y \in N!Values(c.count)
  BY <1>1
<1>5. \A x : x \in N!SizesOf(both) <=> \E y : <<x, y>> \in both
  BY <1>3, SidesOfPairs
<1>6. \A y : y \in N!CountsOf(both) <=> \E x : <<x, y>> \in both
  BY <1>3, SidesOfPairs
<1>7a. N!Left(d, c)["size"] = N!SizesOf(both) /\ N!Left(d, c)["count"] = N!CountsOf(both)
  BY <1>2
<1>7. /\ \A x : x \in N!Left(d, c)["size"] <=> \E y : <<x, y>> \in both
      /\ \A y : y \in N!Left(d, c)["count"] <=> \E x : <<x, y>> \in both
  BY <1>5, <1>6, <1>7a
<1>8. N!Refused(d, c) <=> ~ \E x, y : <<x, y>> \in both
  BY <1>7 DEF N!Refused, N!Params
<1> QED
  BY <1>4, <1>7, <1>8

LEMMA PairsAre ==
  ASSUME NEW d \in N!AllDrivers, NEW x, NEW y, <<x, y>> \in d.pairs
  PROVE  x \in 1 .. MaxSize /\ y \in 1 .. MaxCount /\ x \in Nat /\ y \in Nat
<1>1. <<x, y>> \in (1 .. MaxSize) \X (1 .. MaxCount)
  BY DEF N!AllDrivers
<1>2. x \in 1 .. MaxSize /\ y \in 1 .. MaxCount
  BY <1>1
<1> QED
  BY <1>2, OpeningAssumption

\* What it leaves of any geometry: every pair it accepts.
LEMMA ExactOffer ==
  ASSUME NEW d \in N!AllDrivers, d.exact
  PROVE  /\ Hopeless(d) <=> ~ \E x, y : <<x, y>> \in d.pairs
         /\ \A x, y : <<x, y>> \in d.pairs => x \in N!Values(Offered(d).size) /\ y \in N!Values(Offered(d).count)
         /\ ~ Hopeless(d) => Bounded(Offered(d))
<1>1. PICK c : c = N!AnyGeometry
  OBVIOUS
<1>2. c \in Geometries
  BY <1>1, Widest DEF Bounded
<1>3. N!Top["size"] = MaxSize + 1 /\ N!Top["count"] = MaxCount + 1
  BY DEF N!Top
<1>4. N!Values(c.size) = 0 .. MaxSize + 1 /\ N!Values(c.count) = 0 .. MaxCount + 1
  BY <1>1, <1>3 DEF N!AnyGeometry, N!Params, N!Values, N!Interval, N!Lowest, N!Highest
<1>5. \A x, y : <<x, y>> \in d.pairs => x \in N!Values(c.size) /\ y \in N!Values(c.count)
  BY <1>4, PairsAre, OpeningAssumption
<1>6. Hopeless(d) <=> ~ \E x, y : <<x, y>> \in d.pairs
  BY <1>1, <1>5, ExactLeft DEF Hopeless
<1>7. ASSUME NEW x, NEW y, <<x, y>> \in d.pairs
      PROVE  x \in N!Values(Offered(d).size) /\ y \in N!Values(Offered(d).count)
  <2>1. ~ N!Refused(d, c) /\ x \in N!Left(d, c)["size"] /\ y \in N!Left(d, c)["count"]
    BY <1>1, <1>5, <1>6, <1>7, ExactLeft DEF Hopeless
  <2>2. "size" \in N!Params /\ "count" \in N!Params
    BY DEF N!Params
  <2> QED
    BY <1>1, <1>2, <2>1, <2>2, LeftStays DEF Offered
<1>8. ~ Hopeless(d) => Bounded(Offered(d))
  BY <1>1, <1>2, RefinedHolds DEF Hopeless, Offered
<1> QED
  BY <1>6, <1>7, <1>8

\* So it knows its sizes,
LEMMA KnowsSizes ==
  ASSUME NEW d \in N!AllDrivers, d.exact, ~ Hopeless(d)
  PROVE  /\ N!SizesOf(d.pairs) # {}
         /\ \A a \in N!SizesOf(d.pairs) : a \in 1 .. Limit["size"] /\ a \in N!Values(Offered(d)["size"])
         /\ \A a : a \in N!SizesOf(d.pairs) <=> \E y : <<a, y>> \in d.pairs
         /\ Knows(d, Offered(d), "size", N!SizesOf(d.pairs))
<1>1. \A p \in d.pairs : p = <<p[1], p[2]>>
  BY DEF N!AllDrivers
<1>2. \A a : a \in N!SizesOf(d.pairs) <=> \E y : <<a, y>> \in d.pairs
  BY <1>1, SidesOfPairs
<1>3. \A a \in N!SizesOf(d.pairs) : a \in 1 .. Limit["size"] /\ a \in N!Values(Offered(d)["size"])
  BY <1>2, PairsAre, ExactOffer DEF Limit
<1>4. N!SizesOf(d.pairs) # {}
  BY <1>2, ExactOffer
<1>5. ASSUME NEW iv \in N!Intervals, NEW c, c = N!Asking(Offered(d), "size", iv)
      PROVE  /\ N!Left(d, c)["size"] = N!SizesOf(d.pairs) \cap N!Values(iv)
             /\ N!Refused(d, c) <=> N!SizesOf(d.pairs) \cap N!Values(iv) = {}
  <2>1. "size" \in N!Params /\ "count" \in N!Params /\ Offered(d) \in Geometries
    BY ExactOffer DEF N!Params, Bounded
  <2>2. c.size = iv /\ c.count = Offered(d).count
    BY <1>5, <2>1, AskingKeeps
  <2>3. \A x, y : <<x, y>> \in d.pairs => y \in N!Values(c.count)
    BY <2>2, ExactOffer
  <2>4. \A x : x \in N!Left(d, c)["size"] <=> (\E y : <<x, y>> \in d.pairs) /\ x \in N!Values(iv)
    BY <2>2, <2>3, ExactLeft
  <2>5. N!Refused(d, c) <=> ~ \E x, y : <<x, y>> \in d.pairs /\ x \in N!Values(iv)
    BY <2>2, <2>3, ExactLeft
  <2> QED
    BY <2>4, <2>5, <1>2
<1> QED
  BY <1>2, <1>3, <1>4, <1>5 DEF Knows

\* and, once a size is pinned, the counts that go with it.
CountsWith(d, s) == {c \in 1 .. MaxCount : <<s, c>> \in d.pairs}

LEMMA KnowsCounts ==
  ASSUME NEW d \in N!AllDrivers, d.exact, ~ Hopeless(d), NEW s \in Nat, N!Pins(d, Offered(d), "size", s)
  PROVE  /\ CountsWith(d, s) # {}
         /\ \A a \in CountsWith(d, s) : a \in 1 .. Limit["count"] /\ a \in N!Values(Sized(d, s)["count"])
         /\ Bounded(Sized(d, s)) /\ Sized(d, s).size = N!Exactly(s)
         /\ Knows(d, Sized(d, s), "count", CountsWith(d, s))
<1>1. "size" \in N!Params /\ "count" \in N!Params /\ Offered(d) \in Geometries /\ Bounded(Offered(d))
  BY ExactOffer DEF N!Params, Bounded
<1>2. Bounded(Sized(d, s)) /\ Sized(d, s).size = N!Exactly(s)
  BY <1>1, PinHolds DEF Sized
<1>3. \A c : c \in CountsWith(d, s) <=> <<s, c>> \in d.pairs
  BY PairsAre DEF CountsWith
<1>4. PICK g : g = N!Asking(Offered(d), "size", N!Exactly(s))
  OBVIOUS
<1>5. /\ g \in Geometries /\ g.size = N!Exactly(s) /\ g.count = Offered(d).count
      /\ ~ N!Refused(d, g) /\ Sized(d, s) = N!Refined(d, g)
  <2>1. N!Exactly(s) \in N!Intervals
    BY ExactlyOne
  <2>2. g \in Geometries /\ g["size"] = N!Exactly(s) /\ g["count"] = Offered(d)["count"]
    BY <1>1, <1>4, <2>1, AskingKeeps
  <2>3. ~ N!Refused(d, g) /\ Sized(d, s) = N!Refined(d, g)
    BY <1>4 DEF N!Pins, N!Pinned, Sized
  <2> QED
    BY <2>2, <2>3
<1>6. \A y : y \in N!Left(d, g)["count"] <=> <<s, y>> \in d.pairs
  <2>1. N!Values(g.size) = {s}
    BY <1>5, ExactlyOne
  <2> QED
    BY <2>1, <1>5, ExactOffer, ExactLeft
<1>7. CountsWith(d, s) # {}
  <2>1. N!Left(d, g)["count"] # {}
    BY <1>1, <1>5, LeftStays
  <2> QED
    BY <2>1, <1>3, <1>6
<1>8. \A a \in CountsWith(d, s) : a \in 1 .. Limit["count"] /\ a \in N!Values(Sized(d, s)["count"])
  BY <1>1, <1>3, <1>5, <1>6, LeftStays
<1>9. ASSUME NEW iv \in N!Intervals, NEW c, c = N!Asking(Sized(d, s), "count", iv)
      PROVE  /\ N!Left(d, c)["count"] = CountsWith(d, s) \cap N!Values(iv)
             /\ N!Refused(d, c) <=> CountsWith(d, s) \cap N!Values(iv) = {}
  <2>1. c.count = iv /\ N!Values(c.size) = {s}
    <3>1. Sized(d, s) \in Geometries
      BY <1>2 DEF Bounded
    <3>2. c["count"] = iv /\ c["size"] = Sized(d, s)["size"]
      BY <1>1, <1>9, <3>1, AskingKeeps
    <3>3. N!Values(N!Exactly(s)) = {s}
      BY ExactlyOne
    <3> QED
      BY <1>2, <3>2, <3>3
  <2>2. \A y : y \in N!Left(d, c)["count"] <=> <<s, y>> \in d.pairs /\ y \in N!Values(iv)
    BY <2>1, ExactLeft
  <2>3. N!Refused(d, c) <=> ~ \E y : <<s, y>> \in d.pairs /\ y \in N!Values(iv)
    BY <2>1, ExactLeft
  <2> QED
    BY <2>2, <2>3, <1>3
<1> QED
  BY <1>2, <1>7, <1>8, <1>9 DEF Knows

\* A device that is not hopeless is given the nearest size and the nearest count that
\* goes with it, and accepts them.
LEMMA ExactChoice ==
  ASSUME NEW d \in N!AllDrivers, d.exact, ~ Hopeless(d), NEW w \in N!Requests,
         NEW s, NEW c, Chosen(d, w, s, c)
  PROVE  /\ N!NearestOf(s, N!SizesOf(d.pairs), w.size) /\ N!NearestOf(c, CountsWith(d, s), w.count)
         /\ Counted(d, s, c).size = N!Exactly(s) /\ Counted(d, s, c).count = N!Exactly(c)
         /\ <<s, c>> \in d.pairs
<1>1. /\ "size" \in N!Params /\ "count" \in N!Params /\ w.size \in Nat /\ w.count \in Nat
      /\ Bounded(Offered(d))
  BY ExactOffer DEF N!Params, N!Requests
<1>2. N!NearestOf(s, N!SizesOf(d.pairs), w.size) /\ s \in Nat /\ N!Pins(d, Offered(d), "size", s)
  <2>1. \E v \in N!SizesOf(d.pairs) : Picks(d, Offered(d), "size", w.size, v) /\ N!NearestOf(v, N!SizesOf(d.pairs), w.size)
    BY <1>1, KnowsSizes, ExactNear
  <2> QED
    BY <2>1, <1>1, PicksOne DEF Chosen
<1>3. N!NearestOf(c, CountsWith(d, s), w.count) /\ c \in Nat /\ N!Pins(d, Sized(d, s), "count", c)
  <2>1. Bounded(Sized(d, s))
    BY <1>2, KnowsCounts
  <2>2. \E v \in CountsWith(d, s) : Picks(d, Sized(d, s), "count", w.count, v) /\ N!NearestOf(v, CountsWith(d, s), w.count)
    BY <1>1, <1>2, <2>1, KnowsCounts, ExactNear
  <2> QED
    BY <2>1, <2>2, <1>1, PicksOne DEF Chosen
<1>4. <<s, c>> \in d.pairs
  BY <1>3 DEF N!NearestOf, CountsWith
<1>5. Counted(d, s, c).size = N!Exactly(s) /\ Counted(d, s, c).count = N!Exactly(c)
  <2>1. PICK g : g = N!Asking(Sized(d, s), "count", N!Exactly(c))
    OBVIOUS
  <2>2. Bounded(Sized(d, s)) /\ Sized(d, s).size = N!Exactly(s) /\ Sized(d, s) \in Geometries
    BY <1>2, KnowsCounts DEF Bounded
  <2>3. g \in Geometries /\ g.size = N!Exactly(s) /\ ~ N!Refused(d, g) /\ Counted(d, s, c) = N!Refined(d, g)
    <3>1. N!Exactly(c) \in N!Intervals
      BY <1>3, ExactlyOne
    <3>2. g \in Geometries /\ g["size"] = Sized(d, s)["size"]
      BY <1>1, <2>1, <2>2, <3>1, AskingKeeps
    <3>3. ~ N!Refused(d, g) /\ Counted(d, s, c) = N!Refined(d, g)
      BY <1>3, <2>1 DEF N!Pins, N!Pinned, Counted
    <3> QED
      BY <2>2, <3>2, <3>3
  <2>4. Counted(d, s, c).size = N!Exactly(s)
    BY <1>1, <1>2, <2>3, LeftStays
  <2>5. Counted(d, s, c).count = N!Exactly(c)
    BY <1>3 DEF N!Pins, Counted
  <2> QED
    BY <2>4, <2>5
<1> QED
  BY <1>2, <1>3, <1>4, <1>5

LEMMA ExactFits ==
  ASSUME NEW d \in N!AllDrivers, d.exact, ~ Hopeless(d), NEW w \in N!Requests
  PROVE  Fits(d, w)
<1>1. /\ "size" \in N!Params /\ "count" \in N!Params /\ w.size \in Nat /\ w.count \in Nat
      /\ Bounded(Offered(d))
  BY ExactOffer DEF N!Params, N!Requests
<1>2. PICK s \in N!SizesOf(d.pairs) : Picks(d, Offered(d), "size", w.size, s)
  BY <1>1, KnowsSizes, ExactNear
<1>3. s \in Nat /\ N!Pins(d, Offered(d), "size", s)
  BY <1>1, <1>2, PicksOne
<1>4. PICK c \in CountsWith(d, s) : Picks(d, Sized(d, s), "count", w.count, c)
  BY <1>1, <1>3, KnowsCounts, ExactNear
<1>5. Chosen(d, w, s, c) /\ c \in Nat
  BY <1>2, <1>4, OpeningAssumption DEF Chosen, CountsWith
<1>6. Accepted(d, Counted(d, s, c))
  <2>1. <<s, c>> \in d.pairs
    BY <1>5, ExactChoice
  <2>2. Counted(d, s, c).size = N!Exactly(s) /\ Counted(d, s, c).count = N!Exactly(c)
    BY <1>5, ExactChoice
  <2>3. Counted(d, s, c).size.min = s /\ Counted(d, s, c).count.min = c
    BY <2>2 DEF N!Exactly, N!Interval
  <2> QED
    BY <2>1, <2>3 DEF Accepted
<1> QED
  BY <1>3, <1>5, <1>6 DEF Fits

-----------------------------------------------------------------------------
Refining == {"target", "up", "down", "candidates"}
Settled  == {"commit", "release", "judge", "committed"}

Types ==
  /\ driver \in Drivers /\ want \in N!Requests
  /\ call \in {"none", "Query", "Open"}
  /\ trial \in Rates \cup {0} /\ endpoint \in Rates \cup {0}
  /\ todo \subseteq Rates /\ verified \subseteq Rates
  /\ queried \in {"none", "ok", "BadFormat", "ioctlError"}
  /\ Bounded(hw)
  /\ param \in N!Params /\ cands \in Lists(param)
  /\ phase \in {"idle", "advertise", "next", "format", "rate"} \cup Refining \cup Settled
  /\ outcome \in {"none", "ok", "BadFormat", "BadRate", "BadGeometry", "ioctlError"}

\* What refineNear begins with for parameter q, when w is wanted of device d.
Prior(d, w, q, h) ==
  IF q = "size" THEN h = Offered(d)
  ELSE \E s \in Nat : Picks(d, Offered(d), "size", w.size, s) /\ h = Sized(d, s)

\* What it leaves when both are pinned.
Final(d, w, h) == \E s, c \in Nat : Chosen(d, w, s, c) /\ h = Counted(d, s, c)

\* Where a negotiation is: the intervals follow from the device and the request, the
\* candidates left are those whose pin was not tried, and past each refusal nothing is
\* left to refuse.
Course ==
  /\ phase \in {"format", "rate"} => param = "size"
  /\ phase = "format" => hw = N!AnyGeometry
  /\ phase = "rate" => hw = Offered(driver)
  /\ phase \in {"rate"} \cup Refining \cup Settled => ~ Hopeless(driver)
  /\ phase \in Refining => Prior(driver, want, param, hw)
  /\ phase \in Refining \ {"target"} => ~ N!TargetPins(driver, hw, param, N!target)
  /\ phase = "down" => cands = N!Up(driver, hw, param, N!target)
  /\ phase = "candidates" =>
       \A v \in Nat : First(driver, hw, param, Candidates(driver, hw, param, N!target), v)
                        <=> First(driver, hw, param, cands, v)
  /\ phase \in Refining \cup Settled => driver.rates[trial] # "refused"
  /\ phase \in Settled => Final(driver, want, hw)
  /\ phase \in Settled \ {"commit"} => Accepted(driver, hw) /\ driver.rates[trial] # "uncommitted"
  /\ phase = "committed" => driver.rates[trial] = "kept"

\* What the result e of a negotiation of rate r near w says of device d.
Truth(d, r, w, e) ==
  /\ e = "ok" => Deliverable(d, r, w)
  /\ e = "BadFormat" => Hopeless(d)
  /\ e = "BadRate" => d.rates[r] # "kept"
  /\ e = "BadGeometry" => ~ Hopeless(d) /\ (d.rates[r] = "uncommitted" \/ ~ Fits(d, w))

\* The rates a query is done with are verified just if they can be delivered.
Sorted(d, v, t) == \A r \in Rates : r \in v <=> r \notin t /\ Deliverable(d, r, Probed(r))

Querying ==
  /\ phase = "idle" <=> call = "none"
  /\ phase \in {"advertise", "next", "release"} => call = "Query"
  /\ phase = "committed" => call = "Open"
  /\ endpoint = 0 \/ phase = "release" \/ (call = "Open" /\ phase \in {"judge", "committed"})
  /\ call = "Query" => queried = "none" /\ pc = "defaults"
  /\ queried = "none" /\ (call = "none" \/ phase = "advertise") => hw = N!AnyGeometry /\ verified = {}
  /\ call = "Query" /\ phase # "advertise" => Sorted(driver, verified, todo)
  /\ call = "Query" /\ phase \notin {"advertise", "next"} => trial \in todo /\ want = Probed(trial)
  /\ queried = "ok" => Sorted(driver, verified, {})

OpensWith ==
  /\ call = "Open" => /\ pc \in {"negotiate", "boundary", "set"}
                      /\ trial = rate /\ want = [size |-> frames, count |-> count]
                      /\ asked.size = 0 /\ asked.count = 0 => want = Probed(rate)
  /\ pc \in {"boundary", "set"} => phase = "committed" /\ buffer = Granted
  /\ outcome # "none" => call = "Open" /\ Truth(driver, rate, want, outcome)
  /\ outcome = "ok" => pc = "set"

OpeningInv == Types /\ Course /\ Querying /\ OpensWith

\* The results of a negotiation, each with what it says of the device,
Results == {"ok", "BadFormat", "BadRate", "BadGeometry", "ioctlError"}

Concludes == \E e \in Results : N!Returns(e) /\ Truth(driver, trial, want, e)

\* and a step of it that is not its last.
Moves ==
  /\ UNCHANGED <<driver, want, call, trial, todo, verified, queried, outcome>>
  /\ Types' /\ Course'
  /\ phase' \notin {"idle", "advertise", "next", "format"}
  /\ phase' = "release" => call = "Query"
  /\ phase' = "committed" => call = "Open"
  /\ endpoint' = 0 \/ phase' = "release" \/ (call = "Open" /\ phase' \in {"judge", "committed"})

\* The device and the request of a negotiation that goes on.
LEMMA Known ==
  ASSUME Types
  PROVE  /\ driver \in N!AllDrivers /\ want \in N!Requests
         /\ want.size \in Nat /\ want.count \in Nat
         /\ param \in N!Params /\ N!target \in Nat /\ N!target = want[param]
         /\ "size" \in N!Params /\ "count" \in N!Params
         /\ param = "size" \/ param = "count"
         /\ Bounded(hw) /\ hw \in Geometries
<1>1. driver \in N!AllDrivers
  BY OpeningAssumption DEF Types
<1>2. want \in N!Requests /\ want.size \in Nat /\ want.count \in Nat
  BY DEF Types, N!Requests
<1>3. param = "size" \/ param = "count"
  BY DEF Types, N!Params
<1>4. want[param] \in Nat /\ N!target = want[param]
  BY <1>2, <1>3 DEF N!target
<1> QED
  BY <1>1, <1>2, <1>3, <1>4 DEF Types, N!Params, Bounded

LEMMA OfferedBounded ==
  ASSUME NEW d \in N!AllDrivers, ~ Hopeless(d)
  PROVE  Bounded(Offered(d))
BY Widest, RefinedHolds DEF Bounded, Hopeless, Offered

\* The size and the count chosen are one pair.
LEMMA SizeChosen ==
  ASSUME NEW d \in N!AllDrivers, ~ Hopeless(d), NEW w \in N!Requests,
         NEW s, Picks(d, Offered(d), "size", w.size, s)
  PROVE  s \in Nat /\ Bounded(Sized(d, s)) /\ \A u : Picks(d, Offered(d), "size", w.size, u) => u = s
<1>1. "size" \in N!Params /\ w.size \in Nat /\ Bounded(Offered(d))
  BY OfferedBounded DEF N!Params, N!Requests
<1>2. s \in Nat /\ N!Pins(d, Offered(d), "size", s) /\ \A u : Picks(d, Offered(d), "size", w.size, u) => u = s
  BY <1>1, PicksOne
<1> QED
  BY <1>1, <1>2, PinHolds DEF Sized

LEMMA ChosenOne ==
  ASSUME NEW d \in N!AllDrivers, ~ Hopeless(d), NEW w \in N!Requests,
         NEW s, NEW c, Chosen(d, w, s, c), NEW u, NEW v, Chosen(d, w, u, v)
  PROVE  s = u /\ c = v
<1>1. s = u /\ Bounded(Sized(d, s))
  BY SizeChosen DEF Chosen
<1>2. "count" \in N!Params /\ w.count \in Nat
  BY DEF N!Params, N!Requests
<1>3. c = v
  BY <1>1, <1>2, PicksOne DEF Chosen
<1> QED
  BY <1>1, <1>3

LEMMA FormatStep ==
  ASSUME Types, Course, Querying, N!Format
  PROVE  Concludes \/ Moves
<1>1. phase = "format" /\ hw = N!AnyGeometry /\ param = "size" /\ endpoint = 0 /\ call # "none"
  BY DEF N!Format, Course, Querying
<1>2. CASE Hopeless(driver)
  <2>1. N!Returns("BadFormat")
    BY <1>1, <1>2 DEF N!Format, Hopeless
  <2>2. Truth(driver, trial, want, "BadFormat")
    BY <1>2 DEF Truth
  <2> QED
    BY <2>1, <2>2 DEF Concludes, Results
<1>3. CASE ~ Hopeless(driver)
  <2>1. /\ phase' = "rate" /\ hw' = Offered(driver) /\ param' = param /\ cands' = cands
        /\ UNCHANGED <<driver, want, call, trial, todo, verified, queried, endpoint, outcome>>
    BY <1>1, <1>3 DEF N!Format, N!Goes, N!query, Hopeless, Offered
  <2>2. Bounded(hw')
    BY <1>3, <2>1, Known, OfferedBounded
  <2>3. Types'
    BY <2>1, <2>2 DEF Types
  <2>4. Course'
    BY <1>1, <1>3, <2>1 DEF Course, Refining, Settled
  <2> QED
    BY <1>1, <2>1, <2>3, <2>4 DEF Moves
<1> QED
  BY <1>2, <1>3

LEMMA RateStep ==
  ASSUME Types, Course, Querying, N!Rate
  PROVE  Concludes \/ Moves
<1>1. phase = "rate" /\ hw = Offered(driver) /\ param = "size" /\ endpoint = 0 /\ ~ Hopeless(driver)
  BY DEF N!Rate, Course, Querying
<1>2. CASE driver.rates[trial] = "refused"
  <2>1. N!Returns("BadRate")
    BY <1>1, <1>2 DEF N!Rate, N!RateLeft
  <2>2. Truth(driver, trial, want, "BadRate")
    BY <1>2 DEF Truth
  <2> QED
    BY <2>1, <2>2 DEF Concludes, Results
<1>3. CASE driver.rates[trial] # "refused"
  <2>1. /\ phase' = "target" /\ hw' = hw /\ param' = param /\ cands' = cands
        /\ UNCHANGED <<driver, want, call, trial, todo, verified, queried, endpoint, outcome>>
    BY <1>1, <1>3 DEF N!Rate, N!RateLeft, N!Goes, N!query
  <2>2. Types'
    BY <2>1 DEF Types, Refining
  <2>3. Prior(driver, want, param, hw)
    BY <1>1 DEF Prior
  <2>4. Course'
    BY <1>1, <1>3, <2>1, <2>3 DEF Course, Refining, Settled
  <2> QED
    BY <1>1, <2>1, <2>2, <2>4 DEF Moves
<1> QED
  BY <1>2, <1>3

\* A pin that holds is kept.
LEMMA KeepStep ==
  ASSUME Types, Course, Querying, phase \in Refining, NEW v \in Nat,
         Picks(driver, hw, param, N!target, v), N!Keep(v)
  PROVE  Moves
<1>1. /\ ~ Hopeless(driver) /\ Prior(driver, want, param, hw) /\ driver.rates[trial] # "refused"
      /\ endpoint = 0
  BY DEF Course, Querying, Refining
<1>2. /\ hw' = N!Pinned(driver, hw, param, v) /\ cands' = <<>>
      /\ UNCHANGED <<driver, want, call, trial, todo, verified, queried, endpoint, outcome>>
      /\ param = "size" => param' = "count" /\ phase' = "target"
      /\ param # "size" => param' = param /\ phase' = "commit"
  BY DEF N!Keep, N!Goes, N!query
<1>3. N!Pins(driver, hw, param, v)
  BY Known, PicksOne
<1>4. Bounded(hw')
  BY <1>2, <1>3, Known, PinHolds
<1>5. param' \in N!Params /\ cands' \in Lists(param')
  <2>1. param' \in N!Params
    BY <1>2, Known
  <2>2. <<>> \in Seq(0 .. N!Top[param']) /\ Len(<<>>) <= 2
    OBVIOUS
  <2> QED
    BY <1>2, <2>1, <2>2 DEF Lists
<1>6. Types'
  BY <1>2, <1>4, <1>5 DEF Types, Refining, Settled
<1>7. CASE param = "size"
  <2>1. hw = Offered(driver) /\ hw' = Sized(driver, v) /\ Picks(driver, Offered(driver), "size", want.size, v)
    BY <1>1, <1>2, <1>7, Known DEF Prior, Sized
  <2>2. Prior(driver, want, "count", hw')
    BY <2>1 DEF Prior
  <2>3. Course'
    BY <1>1, <1>2, <1>7, <2>2 DEF Course, Refining, Settled
  <2> QED
    BY <1>1, <1>2, <1>6, <1>7, <2>3 DEF Moves
<1>8. CASE param = "count"
  <2>1. PICK s \in Nat : Picks(driver, Offered(driver), "size", want.size, s) /\ hw = Sized(driver, s)
    BY <1>1, <1>8 DEF Prior
  <2>2. hw' = Counted(driver, s, v) /\ Chosen(driver, want, s, v)
    BY <1>2, <1>8, <2>1, Known DEF Counted, Chosen
  <2>3. Final(driver, want, hw')
    BY <2>1, <2>2 DEF Final
  <2>4. Course'
    BY <1>1, <1>2, <1>8, <2>3 DEF Course, Refining, Settled
  <2> QED
    BY <1>1, <1>2, <1>6, <1>8, <2>4 DEF Moves
<1> QED
  BY <1>7, <1>8, Known

LEMMA PinTargetStep ==
  ASSUME Types, Course, Querying, N!PinTarget
  PROVE  Concludes \/ Moves
<1>1. phase = "target" /\ phase \in Refining
  BY DEF N!PinTarget, Refining
<1>2. /\ ~ Hopeless(driver) /\ Prior(driver, want, param, hw) /\ driver.rates[trial] # "refused"
      /\ endpoint = 0
  BY <1>1 DEF Course, Querying, Refining
<1>3. CASE N!TargetPins(driver, hw, param, N!target)
  <2>1. Picks(driver, hw, param, N!target, N!target) /\ N!Keep(N!target)
    BY <1>1, <1>3 DEF N!PinTarget, Picks
  <2> QED
    BY <1>1, <2>1, Known, KeepStep
<1>4. CASE ~ N!TargetPins(driver, hw, param, N!target)
  <2>1. /\ phase' = "up" /\ hw' = hw /\ param' = param /\ cands' = cands
        /\ UNCHANGED <<driver, want, call, trial, todo, verified, queried, endpoint, outcome>>
    BY <1>1, <1>4 DEF N!PinTarget, N!Goes, N!query
  <2>2. Types'
    BY <2>1 DEF Types, Refining
  <2>3. N!target' = N!target
    BY <2>1 DEF N!target
  <2>4. Course'
    BY <1>2, <1>4, <2>1, <2>3 DEF Course, Refining, Settled
  <2> QED
    BY <1>2, <2>1, <2>2, <2>4 DEF Moves
<1> QED
  BY <1>3, <1>4

LEMMA ProbeUpStep ==
  ASSUME Types, Course, Querying, N!ProbeUp
  PROVE  Moves
<1>1. /\ phase = "up" /\ phase' = "down" /\ hw' = hw /\ param' = param
      /\ cands' = N!Up(driver, hw, param, N!target)
      /\ UNCHANGED <<driver, want, call, trial, todo, verified, queried, endpoint, outcome>>
  BY DEF N!ProbeUp, N!Goes, N!query
<1>2. /\ ~ Hopeless(driver) /\ Prior(driver, want, param, hw) /\ driver.rates[trial] # "refused"
      /\ ~ N!TargetPins(driver, hw, param, N!target) /\ endpoint = 0
  BY <1>1 DEF Course, Querying, Refining
<1>3. Types'
  <2>1. cands' \in Lists(param)
    BY <1>1, Known, CandidatesListed
  <2> QED
    BY <1>1, <2>1 DEF Types, Refining
<1>4. N!target' = N!target
  BY <1>1 DEF N!target
<1>5. Course'
  BY <1>1, <1>2, <1>4 DEF Course, Refining, Settled
<1> QED
  BY <1>1, <1>2, <1>3, <1>5 DEF Moves

LEMMA ProbeDownStep ==
  ASSUME Types, Course, Querying, N!ProbeDown
  PROVE  Moves
<1>1. /\ phase = "down" /\ phase' = "candidates" /\ hw' = hw /\ param' = param
      /\ cands' = N!Ordered(N!target, cands, N!Down(driver, hw, param, N!target))
      /\ UNCHANGED <<driver, want, call, trial, todo, verified, queried, endpoint, outcome>>
  BY DEF N!ProbeDown, N!Goes, N!query
<1>2. /\ ~ Hopeless(driver) /\ Prior(driver, want, param, hw) /\ driver.rates[trial] # "refused"
      /\ ~ N!TargetPins(driver, hw, param, N!target) /\ endpoint = 0
      /\ cands = N!Up(driver, hw, param, N!target)
  BY <1>1 DEF Course, Querying, Refining
<1>3. cands' = Candidates(driver, hw, param, N!target)
  BY <1>1, <1>2 DEF Candidates
<1>4. Types'
  <2>1. cands' \in Lists(param)
    BY <1>3, Known, CandidatesListed
  <2> QED
    BY <1>1, <2>1 DEF Types, Refining
<1>5. N!target' = N!target
  BY <1>1 DEF N!target
<1>6. Course'
  BY <1>1, <1>2, <1>3, <1>5 DEF Course, Refining, Settled
<1> QED
  BY <1>1, <1>2, <1>4, <1>6 DEF Moves

\* When no candidate is left, no geometry was to be had that way.
LEMMA NoneLeft ==
  ASSUME Types, Course, phase = "candidates", cands = <<>>
  PROVE  ~ Hopeless(driver) /\ ~ Fits(driver, want)
<1>1. /\ ~ Hopeless(driver) /\ Prior(driver, want, param, hw)
      /\ ~ N!TargetPins(driver, hw, param, N!target)
      /\ \A v \in Nat : ~ First(driver, hw, param, Candidates(driver, hw, param, N!target), v)
  BY FirstOfNone DEF Course, Refining
<1>2. \A v \in Nat : ~ Picks(driver, hw, param, N!target, v)
  BY <1>1 DEF Picks
<1>3. ASSUME NEW s \in Nat, NEW c \in Nat, Chosen(driver, want, s, c) PROVE FALSE
  <2>1. Picks(driver, Offered(driver), "size", want.size, s) /\ Picks(driver, Sized(driver, s), "count", want.count, c)
    BY <1>3 DEF Chosen
  <2>2. CASE param = "size"
    BY <1>1, <1>2, <2>1, <2>2, Known DEF Prior
  <2>3. CASE param = "count"
    <3>1. PICK u \in Nat : Picks(driver, Offered(driver), "size", want.size, u) /\ hw = Sized(driver, u)
      BY <1>1, <2>3 DEF Prior
    <3>2. u = s
      BY <1>1, <2>1, <3>1, Known, SizeChosen
    <3> QED
      BY <1>2, <2>1, <2>3, <3>1, <3>2, Known
  <2> QED
    BY <2>2, <2>3, Known
<1> QED
  BY <1>1, <1>3 DEF Fits

LEMMA PinCandidateStep ==
  ASSUME Types, Course, Querying, N!PinCandidate
  PROVE  Concludes \/ Moves
<1>1. phase = "candidates" /\ phase \in Refining
  BY DEF N!PinCandidate, Refining
<1>2. /\ ~ Hopeless(driver) /\ Prior(driver, want, param, hw) /\ driver.rates[trial] # "refused"
      /\ ~ N!TargetPins(driver, hw, param, N!target) /\ endpoint = 0
      /\ \A v \in Nat : First(driver, hw, param, Candidates(driver, hw, param, N!target), v)
                          <=> First(driver, hw, param, cands, v)
      /\ cands \in Lists(param)
  BY <1>1 DEF Types, Course, Querying, Refining
<1>3. CASE cands = <<>>
  <2>1. N!Returns("BadGeometry")
    BY <1>3 DEF N!PinCandidate
  <2>2. Truth(driver, trial, want, "BadGeometry")
    BY <1>1, <1>3, NoneLeft DEF Truth
  <2> QED
    BY <2>1, <2>2 DEF Concludes, Results
<1>4. CASE cands # <<>> /\ N!Pins(driver, hw, param, Head(cands))
  <2>1. N!Keep(Head(cands))
    BY <1>4 DEF N!PinCandidate
  <2>2. Head(cands) \in Nat
    <3>1. Head(cands) \in 0 .. N!Top[param] /\ N!Top[param] \in Nat
      BY <1>2, <1>4, Known, Limits DEF Lists
    <3> QED
      BY <3>1
  <2>3. First(driver, hw, param, cands, Head(cands))
    BY <1>2, <1>4, Known, FirstIsHead
  <2>4. Picks(driver, hw, param, N!target, Head(cands))
    BY <1>2, <2>2, <2>3 DEF Picks
  <2> QED
    BY <1>1, <2>1, <2>2, <2>4, KeepStep
<1>5. CASE cands # <<>> /\ ~ N!Pins(driver, hw, param, Head(cands))
  <2>1. /\ phase' = "candidates" /\ hw' = hw /\ param' = param /\ cands' = Tail(cands)
        /\ UNCHANGED <<driver, want, call, trial, todo, verified, queried, endpoint, outcome>>
    BY <1>5 DEF N!PinCandidate, N!Goes, N!query
  <2>2. /\ cands' \in Lists(param)
        /\ \A v : First(driver, hw, param, cands', v) <=> First(driver, hw, param, cands, v)
    BY <1>2, <1>5, <2>1, Known, FirstIsLater
  <2>3. Types'
    BY <2>1, <2>2 DEF Types, Refining
  <2>4. N!target' = N!target
    BY <2>1 DEF N!target
  <2>5. Course'
    BY <1>2, <2>1, <2>2, <2>4 DEF Course, Refining, Settled
  <2> QED
    BY <1>2, <2>1, <2>3, <2>5 DEF Moves
<1> QED
  BY <1>3, <1>4, <1>5

LEMMA CommitStep ==
  ASSUME Types, Course, Querying, N!Commit, trial \in Rates
  PROVE  Concludes \/ Moves
<1>1. /\ phase = "commit" /\ ~ Hopeless(driver) /\ Final(driver, want, hw)
      /\ driver.rates[trial] # "refused" /\ call \in {"Query", "Open"}
  BY DEF N!Commit, Types, Course, Querying, Settled
<1>2. CASE driver.rates[trial] = "uncommitted" \/ ~ Accepted(driver, hw)
  <2>1. N!Returns("BadGeometry")
    BY <1>2 DEF N!Commit, Accepted
  <2>2. PICK s \in Nat, c \in Nat : Chosen(driver, want, s, c) /\ hw = Counted(driver, s, c)
    BY <1>1 DEF Final
  <2>3. ~ Accepted(driver, hw) => ~ Fits(driver, want)
    <3> SUFFICES ASSUME ~ Accepted(driver, hw), NEW u \in Nat, NEW v \in Nat,
                        Chosen(driver, want, u, v), Accepted(driver, Counted(driver, u, v))
                 PROVE  FALSE
      BY DEF Fits
    <3>1. s = u /\ c = v
      BY <1>1, <2>2, Known, ChosenOne
    <3> QED
      BY <2>2, <3>1
  <2>4. Truth(driver, trial, want, "BadGeometry")
    BY <1>1, <1>2, <2>3 DEF Truth
  <2> QED
    BY <2>1, <2>4 DEF Concludes, Results
<1>3. CASE driver.rates[trial] # "uncommitted" /\ Accepted(driver, hw)
  <2>1. /\ endpoint' = trial /\ phase' = (IF call = "Query" THEN "release" ELSE "judge")
        /\ hw' = hw /\ param' = param /\ cands' = cands
        /\ UNCHANGED <<driver, want, call, trial, todo, verified, queried, outcome>>
    BY <1>1, <1>3 DEF N!Commit, N!query, Accepted
  <2>2. Types'
    BY <2>1 DEF Types, Settled
  <2>3. Course'
    BY <1>1, <1>3, <2>1 DEF Course, Refining, Settled
  <2> QED
    BY <1>1, <2>1, <2>2, <2>3 DEF Moves
<1> QED
  BY <1>2, <1>3

LEMMA HwFreeStep ==
  ASSUME Types, Course, Querying, N!HwFree
  PROVE  Moves
<1>1. /\ phase = "release" /\ phase' = "judge" /\ endpoint' = 0 /\ hw' = hw /\ param' = param /\ cands' = cands
      /\ UNCHANGED <<driver, want, call, trial, todo, verified, queried, outcome>>
  BY DEF N!HwFree, N!query
<1>2. /\ ~ Hopeless(driver) /\ Final(driver, want, hw) /\ Accepted(driver, hw)
      /\ driver.rates[trial] # "refused" /\ driver.rates[trial] # "uncommitted"
  BY <1>1 DEF Course, Settled
<1>3. Types'
  BY <1>1 DEF Types, Settled
<1>4. Course'
  BY <1>1, <1>2 DEF Course, Refining, Settled
<1> QED
  BY <1>1, <1>3, <1>4 DEF Moves

\* A device that committed the geometry and kept the rate can deliver it.
LEMMA Delivers ==
  ASSUME Types, Course, trial \in Rates, phase \in {"judge", "committed"}, driver.rates[trial] # "substituted"
  PROVE  Deliverable(driver, trial, want) /\ driver.rates[trial] = "kept"
<1>1. /\ ~ Hopeless(driver) /\ Final(driver, want, hw) /\ Accepted(driver, hw)
      /\ driver.rates[trial] # "refused" /\ driver.rates[trial] # "uncommitted"
  BY DEF Course, Settled
<1>2. driver.rates[trial] \in N!RateKinds
  <2>1. driver.rates \in [Rates -> N!RateKinds]
    BY Known DEF N!AllDrivers
  <2> QED
    BY <2>1
<1>3. driver.rates[trial] = "kept"
  BY <1>1, <1>2 DEF N!RateKinds
<1>4. Fits(driver, want)
  BY <1>1 DEF Final, Fits
<1> QED
  BY <1>1, <1>3, <1>4 DEF Deliverable

LEMMA JudgeStep ==
  ASSUME Types, Course, Querying, N!Judge, trial \in Rates
  PROVE  Concludes \/ Moves
<1>1. /\ phase = "judge" /\ ~ Hopeless(driver) /\ Final(driver, want, hw) /\ Accepted(driver, hw)
      /\ driver.rates[trial] # "refused" /\ driver.rates[trial] # "uncommitted" /\ call \in {"Query", "Open"}
  BY DEF N!Judge, Types, Course, Querying, Settled
<1>2. CASE driver.rates[trial] = "substituted"
  <2>1. N!Returns("BadRate")
    BY <1>2 DEF N!Judge
  <2>2. Truth(driver, trial, want, "BadRate")
    BY <1>2 DEF Truth
  <2> QED
    BY <2>1, <2>2 DEF Concludes, Results
<1>3. CASE driver.rates[trial] # "substituted" /\ call = "Query"
  <2>1. N!Returns("ok")
    BY <1>3 DEF N!Judge
  <2>2. Truth(driver, trial, want, "ok")
    BY <1>1, <1>3, Delivers DEF Truth
  <2> QED
    BY <2>1, <2>2 DEF Concludes, Results
<1>4. CASE driver.rates[trial] # "substituted" /\ call = "Open"
  <2>1. /\ phase' = "committed" /\ hw' = hw /\ param' = param /\ cands' = cands
        /\ UNCHANGED <<driver, want, call, trial, todo, verified, queried, endpoint, outcome>>
    BY <1>4 DEF N!Judge, N!Goes, N!query
  <2>2. driver.rates[trial] = "kept"
    BY <1>1, <1>4, Delivers
  <2>3. Types'
    BY <2>1 DEF Types, Settled
  <2>4. Course'
    BY <1>1, <2>1, <2>2 DEF Course, Refining, Settled
  <2> QED
    BY <1>4, <2>1, <2>3, <2>4 DEF Moves
<1> QED
  BY <1>1, <1>2, <1>3, <1>4

\* Every step of a negotiation goes on with it or ends it with a result that is true.
LEMMA NegotiationStep ==
  ASSUME Types, Course, Querying, trial \in Rates, N!Negotiation
  PROVE  Concludes \/ Moves
<1>1. ASSUME N!Fails PROVE Concludes
  BY <1>1 DEF N!Fails, Concludes, Results, Truth
<1> QED
  BY <1>1, FormatStep, RateStep, PinTargetStep, ProbeUpStep, ProbeDownStep, PinCandidateStep,
     CommitStep, JudgeStep DEF N!Negotiation

-----------------------------------------------------------------------------
\* The rates of a query are numbers a negotiation can go near.
LEMMA ProbedIsAsked ==
  ASSUME NEW r \in Rates
  PROVE  Probed(r) \in N!Requests
<1>1. r \in Nat \ {0}
  BY GeometryAssumption
<1>2. DefaultSizeOf(r) \in Nat /\ DefaultCount \in Nat
  BY <1>1, DivBounds DEF DefaultSizeOf, DefaultCount, Larger
<1> QED
  BY <1>2 DEF Probed, N!Requests

LEMMA InitOpening == OpenInit => OpeningInv
<1> SUFFICES ASSUME OpenInit PROVE OpeningInv
  OBVIOUS
<1>1. /\ want = [size |-> 0, count |-> 0] /\ call = "none" /\ trial = 0 /\ endpoint = 0
      /\ todo = {} /\ verified = {} /\ queried = "none" /\ hw = N!AnyGeometry
      /\ param = "size" /\ phase = "idle" /\ cands = <<>> /\ outcome = "none" /\ driver \in Drivers
      /\ pc = "defaults"
  BY DEF OpenInit, Init, N!Init
<1>2. cands \in Lists(param)
  <2>1. <<>> \in Seq(0 .. N!Top["size"]) /\ Len(<<>>) <= 2
    OBVIOUS
  <2> QED
    BY <1>1, <2>1 DEF Lists
<1>3. want \in N!Requests /\ param \in N!Params
  BY <1>1 DEF N!Requests, N!Params
<1>4. Types
  BY <1>1, <1>2, <1>3, Widest DEF Types
<1>5. Course /\ Querying /\ OpensWith
  BY <1>1 DEF Course, Querying, OpensWith, Refining, Settled
<1> QED
  BY <1>4, <1>5 DEF OpeningInv

\* What a step that moves a negotiation on keeps.
LEMMA MovesKeep ==
  ASSUME OpeningInv, Moves, call \in {"Query", "Open"}, phase \notin {"advertise", "next"},
         UNCHANGED vars, outcome = "none", pc \notin {"boundary", "set"}
  PROVE  OpeningInv'
<1>1. /\ UNCHANGED <<driver, want, call, trial, todo, verified, queried, outcome, rate, asked, frames, count, buffer, b, pc>>
      /\ Types' /\ Course'
  BY DEF Moves, vars, request
<1>2. \A d, v, t : Sorted(d, v, t)' = Sorted(d, v, t)
  OBVIOUS
<1>3. Querying'
  BY <1>1 DEF OpeningInv, Querying, Moves
<1>4. OpensWith'
  BY <1>1 DEF OpeningInv, OpensWith
<1> QED
  BY <1>1, <1>3, <1>4 DEF OpeningInv

\* The negotiation of an open ends with its outcome.
LEMMA OpenConcludes ==
  ASSUME OpeningInv, call = "Open", UNCHANGED vars, NEW e \in Results, N!Returns(e),
         Truth(driver, trial, want, e), e = "ok" => pc = "set"
  PROVE  OpeningInv'
<1>1. /\ outcome' = e
      /\ UNCHANGED <<driver, want, call, trial, todo, verified, queried, endpoint, hw, param, phase, cands,
                     rate, asked, frames, count, buffer, b, pc>>
  BY DEF N!Returns, N!query, vars, request
<1>2. Types'
  BY <1>1 DEF OpeningInv, Types, Results
<1>3. N!target' = N!target /\ Granted' = Granted
  BY <1>1 DEF N!target, Granted
<1>4. Course'
  BY <1>1, <1>3 DEF OpeningInv, Course
<1>5. Querying'
  BY <1>1 DEF OpeningInv, Querying
<1>6. trial = rate
  BY DEF OpeningInv, OpensWith
<1>7. OpensWith'
  BY <1>1, <1>3, <1>6 DEF OpeningInv, OpensWith
<1> QED
  BY <1>2, <1>4, <1>5, <1>7 DEF OpeningInv

\* The query returns.
LEMMA QueryReturned ==
  ASSUME OpeningInv, call = "Query", UNCHANGED vars, NEW e \in {"ok", "BadFormat", "ioctlError"},
         N!QueryReturns(e), verified' \subseteq Rates, e = "ok" => Sorted(driver, verified', {})
  PROVE  OpeningInv'
<1>1. /\ queried' = e /\ call' = "none" /\ phase' = "idle" /\ todo' = {} /\ endpoint' = 0
      /\ UNCHANGED <<driver, want, trial, hw, param, cands, outcome, rate, asked, frames, count, buffer, b, pc>>
  BY DEF N!QueryReturns, vars, request
<1>2. queried = "none" /\ pc = "defaults"
  BY DEF OpeningInv, Querying
<1>3. outcome = "none"
  BY DEF OpeningInv, OpensWith, Types
<1>4. Types'
  BY <1>1 DEF OpeningInv, Types
<1>5. Course'
  BY <1>1 DEF Course, Refining, Settled
<1>6. Querying'
  BY <1>1 DEF Querying
<1>7. OpensWith'
  BY <1>1, <1>2, <1>3 DEF OpensWith
<1> QED
  BY <1>4, <1>5, <1>6, <1>7 DEF OpeningInv

\* A rate of a query is decided, the way an open of it would be.
LEMMA QueryConcludes ==
  ASSUME OpeningInv, call = "Query", phase \notin {"advertise", "next"}, UNCHANGED vars,
         NEW e \in Results, N!Returns(e), Truth(driver, trial, want, e),
         phase = "release" => e = "ioctlError"
  PROVE  OpeningInv'
<1>1. CASE e = "ioctlError"
  <2>1. N!QueryReturns(e) /\ verified' = {}
    BY <1>1 DEF N!Returns
  <2> QED
    BY <1>1, <2>1, QueryReturned
<1>2. CASE e # "ioctlError"
  <2>1. /\ verified' = IF e = "ok" THEN verified \cup {trial} ELSE verified
        /\ todo' = todo \ {trial} /\ phase' = "next"
        /\ UNCHANGED <<driver, want, call, trial, queried, endpoint, hw, param, cands, outcome,
                       rate, asked, frames, count, buffer, b, pc>>
    BY <1>2 DEF N!Returns, vars, request
  <2>2. /\ trial \in todo /\ trial \in Rates /\ want = Probed(trial) /\ queried = "none" /\ pc = "defaults"
        /\ Sorted(driver, verified, todo) /\ endpoint = 0
    BY <1>2 DEF OpeningInv, Types, Querying
  <2>3. e = "ok" <=> Deliverable(driver, trial, Probed(trial))
    BY <1>2, <2>2 DEF Truth, Deliverable, Results
  <2>4. Sorted(driver, verified', todo')
    <3> SUFFICES ASSUME NEW r \in Rates
                 PROVE  r \in verified' <=> r \notin todo' /\ Deliverable(driver, r, Probed(r))
      BY DEF Sorted
    <3>1. r \in verified <=> r \notin todo /\ Deliverable(driver, r, Probed(r))
      BY <2>2 DEF Sorted
    <3> QED
      BY <2>1, <2>2, <2>3, <3>1
  <2>5. Types'
    BY <2>1, <2>2 DEF OpeningInv, Types
  <2>6. Course'
    BY <2>1 DEF Course, Refining, Settled
  <2>7. Querying'
    BY <2>1, <2>2, <2>4 DEF Querying
  <2>8. OpensWith'
    BY <2>1, <2>2 DEF OpeningInv, OpensWith
  <2> QED
    BY <2>5, <2>6, <2>7, <2>8 DEF OpeningInv
<1> QED
  BY <1>1, <1>2

\* The steps of a query.
LEMMA QuerySteps ==
  ASSUME OpeningInv, Queries, outcome = "none"
  PROVE  OpeningInv'
<1>0. pc = "defaults" /\ UNCHANGED vars
      /\ UNCHANGED <<rate, asked, frames, count, buffer, b, pc>>
  BY DEF Queries, vars, request
<1>1. ASSUME N!BeginQuery PROVE OpeningInv'
  <2>1. /\ call = "none" /\ queried = "none" /\ call' = "Query" /\ phase' = "advertise"
        /\ UNCHANGED <<driver, want, trial, todo, verified, queried, endpoint, hw, param, cands, outcome>>
    BY <1>1 DEF N!BeginQuery, N!query
  <2>2. hw = N!AnyGeometry /\ verified = {} /\ endpoint = 0
    BY <2>1 DEF OpeningInv, Querying
  <2>3. Types'
    BY <2>1 DEF OpeningInv, Types
  <2>4. Course'
    BY <2>1 DEF Course, Refining, Settled
  <2>5. Querying'
    BY <1>0, <2>1, <2>2 DEF Querying
  <2>6. OpensWith'
    BY <1>0, <2>1 DEF OpeningInv, OpensWith
  <2> QED
    BY <2>3, <2>4, <2>5, <2>6 DEF OpeningInv
<1>2. ASSUME N!Advertise PROVE OpeningInv'
  <2>1. phase = "advertise" /\ call = "Query" /\ hw = N!AnyGeometry /\ verified = {} /\ endpoint = 0 /\ queried = "none"
    BY <1>2 DEF N!Advertise, OpeningInv, Querying
  <2>2. CASE N!Refused(driver, hw)
    <3>1. N!QueryReturns("BadFormat") /\ verified' = verified
      BY <1>2, <2>2 DEF N!Advertise
    <3> QED
      BY <1>0, <2>1, <3>1, QueryReturned
  <2>3. CASE ~ N!Refused(driver, hw)
    <3>1. /\ todo' = {r \in Rates : N!RateLeft(r)} /\ phase' = "next"
          /\ UNCHANGED <<driver, want, call, trial, verified, queried, endpoint, hw, param, cands, outcome>>
      BY <1>2, <2>3 DEF N!Advertise
    <3>2. Sorted(driver, verified', todo')
      BY <2>1, <3>1 DEF Sorted, N!RateLeft, Deliverable
    <3>3. Types'
      BY <3>1 DEF OpeningInv, Types
    <3>4. Course'
      BY <3>1 DEF Course, Refining, Settled
    <3>5. Querying'
      BY <1>0, <2>1, <3>1, <3>2 DEF Querying
    <3>6. OpensWith'
      BY <1>0, <2>1, <3>1 DEF OpeningInv, OpensWith
    <3> QED
      BY <3>3, <3>4, <3>5, <3>6 DEF OpeningInv
  <2> QED
    BY <2>2, <2>3
<1>3. ASSUME N!NextRate PROVE OpeningInv'
  <2>1. /\ phase = "next" /\ call = "Query" /\ queried = "none" /\ endpoint = 0
        /\ Sorted(driver, verified, todo)
    BY <1>3 DEF N!NextRate, OpeningInv, Querying
  <2>2. CASE todo = {}
    <3>1. N!QueryReturns("ok") /\ verified' = verified /\ driver' = driver
      BY <1>3, <2>2 DEF N!NextRate, N!QueryReturns
    <3>2. verified' \subseteq Rates
      BY <3>1 DEF OpeningInv, Types
    <3> QED
      BY <1>0, <2>1, <2>2, <3>1, <3>2, QueryReturned
  <2>3. CASE todo # {}
    <3>1. PICK r : r = N!Min(todo)
      OBVIOUS
    <3>2. r \in todo /\ r \in Rates
      <4>1. todo \subseteq Rates /\ todo \subseteq Nat
        BY GeometryAssumption DEF OpeningInv, Types
      <4> QED
        BY <2>3, <3>1, <4>1, MinFound
    <3>3. /\ trial' = r /\ want' = Probed(r)
          /\ hw' = N!AnyGeometry /\ param' = "size" /\ phase' = "format" /\ cands' = <<>>
          /\ UNCHANGED <<driver, call, todo, verified, queried, endpoint, outcome>>
      BY <1>3, <2>3, <3>1 DEF N!NextRate, N!Fresh, N!query
    <3>4. Types'
      <4>1. <<>> \in Seq(0 .. N!Top["size"]) /\ Len(<<>>) <= 2
        OBVIOUS
      <4>2. cands' \in Lists(param') /\ param' \in N!Params
        BY <3>3, <4>1 DEF Lists, N!Params
      <4>3. Bounded(hw') /\ want' \in N!Requests
        BY <3>2, <3>3, Widest, ProbedIsAsked
      <4> QED
        BY <3>2, <3>3, <4>2, <4>3 DEF OpeningInv, Types
    <3>5. Course'
      BY <3>3 DEF Course, Refining, Settled
    <3>6. Querying'
      BY <1>0, <2>1, <3>2, <3>3 DEF Querying
    <3>7. OpensWith'
      BY <1>0, <2>1, <3>3 DEF OpeningInv, OpensWith
    <3> QED
      BY <3>4, <3>5, <3>6, <3>7 DEF OpeningInv
  <2> QED
    BY <2>2, <2>3
<1>4. ASSUME N!HwFree PROVE OpeningInv'
  <2>1. phase = "release" /\ call = "Query"
    BY <1>4 DEF N!HwFree, OpeningInv, Querying
  <2> QED
    BY <1>0, <1>4, <2>1, HwFreeStep, MovesKeep DEF OpeningInv
<1>5. ASSUME N!Fails PROVE OpeningInv'
  <2>1. call # "none" /\ N!Returns("ioctlError")
    BY <1>5 DEF N!Fails
  <2>2. call = "Query"
    BY <1>0, <2>1 DEF OpeningInv, Types, OpensWith
  <2>3. N!QueryReturns("ioctlError") /\ verified' = {}
    BY <2>1, <2>2 DEF N!Returns
  <2> QED
    BY <1>0, <2>2, <2>3, QueryReturned
<1>6. ASSUME N!Negotiation, ~ N!Fails PROVE OpeningInv'
  <2>1. phase \in {"format", "rate", "target", "up", "down", "candidates", "commit", "judge"}
    BY <1>6 DEF N!Negotiation, N!Format, N!Rate, N!PinTarget, N!ProbeUp, N!ProbeDown, N!PinCandidate, N!Commit, N!Judge
  <2>2. call = "Query" /\ trial \in Rates
    BY <1>0, <2>1 DEF OpeningInv, Types, Querying, OpensWith
  <2>3. Concludes \/ Moves
    BY <1>6, <2>2, NegotiationStep DEF OpeningInv
  <2>4. CASE Moves
    BY <1>0, <2>1, <2>2, <2>4, MovesKeep
  <2>5. CASE Concludes
    BY <1>0, <2>1, <2>2, <2>5, QueryConcludes DEF Concludes
  <2> QED
    BY <2>3, <2>4, <2>5
<1> QED
  BY <1>1, <1>2, <1>3, <1>4, <1>5, <1>6 DEF Queries, N!QueryStep

-----------------------------------------------------------------------------
\* An open is Geometry's, whatever the device does.
LEMMA OpenStepIsGeometry ==
  ASSUME [OpenNext]_<<vars, negotiation>>
  PROVE  [Next]_vars
BY DEF OpenNext, Queries, Completes, Asks, Negotiates, SetsSoftware, Prepares, Next

\* openResolved goes through the steps of Geometry, with a device between two of them.
THEOREM OpenIsGeometry == OpenSpec => Spec
<1>1. OpenInit => Init
  BY DEF OpenInit
<1>2. [OpenNext]_<<vars, negotiation>> => [Next]_vars
  BY OpenStepIsGeometry
<1> QED
  BY <1>1, <1>2, PTL DEF OpenSpec, Spec

\* What a step that leaves the negotiation alone keeps.
LEMMA AsideKeeps ==
  ASSUME OpeningInv, UNCHANGED negotiation
  PROVE  /\ Types' /\ Course' /\ Granted' = Granted
         /\ UNCHANGED <<driver, want, call, trial, todo, verified, queried, endpoint, hw, param, phase, cands, outcome>>
<1>1. UNCHANGED <<driver, want, call, trial, todo, verified, queried, endpoint, hw, param, phase, cands, outcome>>
  BY DEF negotiation
<1>2. N!target' = N!target /\ Granted' = Granted
  BY <1>1 DEF N!target, Granted
<1>3. Types'
  BY <1>1 DEF OpeningInv, Types
<1>4. Course'
  BY <1>1, <1>2 DEF OpeningInv, Course
<1> QED
  BY <1>1, <1>2, <1>3, <1>4

LEMMA CompletesStep ==
  ASSUME OpeningInv, Completes, outcome = "none"
  PROVE  OpeningInv'
<1>1. /\ call = "none" /\ pc \in {"defaults", "floor"} /\ pc' \in {"floor", "negotiate"} /\ UNCHANGED negotiation
  BY DEF Completes, Defaults, Floor
<1>2. /\ Types' /\ Course'
      /\ UNCHANGED <<driver, want, call, trial, todo, verified, queried, endpoint, hw, param, phase, cands, outcome>>
  BY <1>1, AsideKeeps
<1>3. Querying'
  BY <1>1, <1>2 DEF OpeningInv, Querying
<1>4. OpensWith'
  BY <1>1, <1>2 DEF OpensWith
<1> QED
  BY <1>2, <1>3, <1>4 DEF OpeningInv

LEMMA AsksStep ==
  ASSUME IInv, OpeningInv, Asks, outcome = "none"
  PROVE  OpeningInv'
<1>1. /\ pc = "negotiate" /\ call = "none" /\ call' = "Open" /\ trial' = rate
      /\ want' = [size |-> frames, count |-> count]
      /\ hw' = N!AnyGeometry /\ param' = "size" /\ phase' = "format" /\ cands' = <<>>
      /\ UNCHANGED <<driver, todo, verified, queried, endpoint, outcome, rate, asked, frames, count, buffer, b, pc>>
  BY DEF Asks, N!BeginOpen, N!Fresh, N!query, vars, request
<1>2. rate \in Rates /\ frames \in Nat /\ count \in Nat /\ ProbeMatchesOpen
  BY DEF IInv, TypeOK
<1>3. Types'
  <2>1. <<>> \in Seq(0 .. N!Top["size"]) /\ Len(<<>>) <= 2
    OBVIOUS
  <2>2. cands' \in Lists(param') /\ param' \in N!Params
    BY <1>1, <2>1 DEF Lists, N!Params
  <2>3. Bounded(hw') /\ want' \in N!Requests
    BY <1>1, <1>2, Widest DEF N!Requests
  <2> QED
    BY <1>1, <1>2, <2>2, <2>3 DEF OpeningInv, Types
<1>4. Course'
  BY <1>1 DEF Course, Refining, Settled
<1>5. Querying'
  BY <1>1 DEF OpeningInv, Querying
<1>6. asked.size = 0 /\ asked.count = 0 => want' = Probed(rate)
  BY <1>1, <1>2 DEF ProbeMatchesOpen, DefaultSize, Probed
<1>7. OpensWith'
  BY <1>1, <1>6 DEF OpensWith
<1> QED
  BY <1>3, <1>4, <1>5, <1>7 DEF OpeningInv

LEMMA NegotiatesStep ==
  ASSUME IInv, OpeningInv, Negotiates, outcome = "none"
  PROVE  OpeningInv'
<1>1. call = "Open" /\ UNCHANGED vars /\ trial \in Rates
  BY DEF Negotiates, IInv, TypeOK, OpeningInv, OpensWith
<1>2. CASE N!Fails
  <2>1. N!Returns("ioctlError") /\ Truth(driver, trial, want, "ioctlError") /\ "ioctlError" \in Results
    BY <1>2 DEF N!Fails, Truth, Results
  <2> QED
    BY <1>1, <2>1, OpenConcludes
<1>3. CASE N!Negotiation /\ ~ N!Fails
  <2>1. phase \in {"format", "rate", "target", "up", "down", "candidates", "commit", "judge"}
    BY <1>3 DEF N!Negotiation, N!Format, N!Rate, N!PinTarget, N!ProbeUp, N!ProbeDown, N!PinCandidate, N!Commit, N!Judge
  <2>2. pc \notin {"boundary", "set"}
    BY <2>1 DEF OpeningInv, OpensWith
  <2>3. Concludes \/ Moves
    BY <1>1, <1>3, NegotiationStep DEF OpeningInv
  <2>4. CASE Moves
    BY <1>1, <2>1, <2>2, <2>4, MovesKeep
  <2>5. CASE Concludes
    <3>1. PICK e \in Results : N!Returns(e) /\ Truth(driver, trial, want, e)
      BY <2>5 DEF Concludes
    <3>2. e # "ok"
      <4> SUFFICES ASSUME e = "ok" PROVE FALSE
        OBVIOUS
      <4>1. outcome' = "ok"
        BY <1>1, <3>1 DEF N!Returns
      <4> QED
        BY <1>1, <1>3, <4>1 DEF N!Negotiation, N!Format, N!Rate, N!PinTarget, N!ProbeUp, N!ProbeDown,
           N!PinCandidate, N!Commit, N!Judge, N!Returns, N!Goes, N!Keep, OpeningInv, Types
    <3> QED
      BY <1>1, <3>1, <3>2, OpenConcludes
  <2> QED
    BY <2>3, <2>4, <2>5
<1> QED
  BY <1>2, <1>3 DEF Negotiates

LEMMA SetsSoftwareStep ==
  ASSUME IInv, OpeningInv, SetsSoftware, outcome = "none"
  PROVE  OpeningInv'
<1>1. /\ phase = "committed" /\ UNCHANGED negotiation /\ UNCHANGED <<rate, asked, frames, count>>
      /\ pc' \in {"boundary", "set"}
      /\ (pc \in {"boundary", "set"} /\ buffer' = buffer) \/ buffer' = Granted
  BY DEF SetsSoftware, Grant, Double, SwParams, request
<1>2. /\ Types' /\ Course' /\ Granted' = Granted
      /\ UNCHANGED <<driver, want, call, trial, todo, verified, queried, endpoint, hw, param, phase, cands, outcome>>
  BY <1>1, AsideKeeps
<1>3. call = "Open"
  BY <1>1 DEF OpeningInv, Querying
<1>4. Querying'
  BY <1>1, <1>2, <1>3 DEF OpeningInv, Querying
<1>5. OpensWith'
  BY <1>1, <1>2, <1>3 DEF OpeningInv, OpensWith
<1> QED
  BY <1>2, <1>4, <1>5 DEF OpeningInv

LEMMA PreparesStep ==
  ASSUME IInv, OpeningInv, Prepares, outcome = "none"
  PROVE  OpeningInv'
<1>1. pc = "set" /\ phase = "committed" /\ N!Returns("ok") /\ UNCHANGED vars
  BY DEF Prepares, N!Prepare
<1>2. call = "Open" /\ trial \in Rates
  BY <1>1 DEF IInv, TypeOK, OpeningInv, Querying, OpensWith
<1>3. driver.rates[trial] = "kept"
  BY <1>1 DEF OpeningInv, Course
<1>4. Truth(driver, trial, want, "ok") /\ "ok" \in Results
  BY <1>1, <1>2, <1>3, Delivers DEF OpeningInv, Truth, Results
<1> QED
  BY <1>1, <1>2, <1>4, OpenConcludes

LEMMA NextOpening == IInv /\ OpeningInv /\ [OpenNext]_<<vars, negotiation>> => OpeningInv'
<1> SUFFICES ASSUME IInv, OpeningInv, [OpenNext]_<<vars, negotiation>> PROVE OpeningInv'
  OBVIOUS
<1>1. CASE OpenNext
  BY <1>1, QuerySteps, CompletesStep, AsksStep, NegotiatesStep, SetsSoftwareStep, PreparesStep DEF OpenNext
<1>2. CASE UNCHANGED <<vars, negotiation>>
  <2>1. UNCHANGED <<rate, asked, frames, count, buffer, b, pc>> /\ UNCHANGED negotiation
    BY <1>2 DEF vars, request
  <2>2. /\ Types' /\ Course' /\ Granted' = Granted
        /\ UNCHANGED <<driver, want, call, trial, todo, verified, queried, endpoint, hw, param, phase, cands, outcome>>
    BY <2>1, AsideKeeps
  <2>3. Querying'
    BY <2>1, <2>2 DEF OpeningInv, Querying
  <2>4. OpensWith'
    BY <2>1, <2>2 DEF OpeningInv, OpensWith
  <2> QED
    BY <2>2, <2>3, <2>4 DEF OpeningInv
<1> QED
  BY <1>1, <1>2

\* The inductive invariant of a query and an open: where the negotiation is follows from
\* the device and the request, and every result says what is true of them.
THEOREM OpeningInvariant == OpenSpec => [](IInv /\ OpeningInv)
<1>1. OpenInit => IInv /\ OpeningInv
  BY InitIInv, InitOpening DEF OpenInit
<1>2. IInv /\ OpeningInv /\ [OpenNext]_<<vars, negotiation>> => IInv' /\ OpeningInv'
  BY NextIInv, NextOpening, OpenStepIsGeometry
<1> QED
  BY <1>1, <1>2, PTL DEF OpenSpec

-----------------------------------------------------------------------------
LEMMA ExactFinal ==
  ASSUME NEW d \in N!AllDrivers, d.exact, ~ Hopeless(d), NEW w \in N!Requests, NEW h, Final(d, w, h)
  PROVE  /\ N!NearestOf(h.size.min, N!SizesOf(d.pairs), w.size)
         /\ N!NearestOf(h.count.min, CountsWith(d, h.size.min), w.count)
<1>1. PICK s, c : Chosen(d, w, s, c) /\ h = Counted(d, s, c)
  BY DEF Final
<1>2. N!NearestOf(s, N!SizesOf(d.pairs), w.size) /\ N!NearestOf(c, CountsWith(d, s), w.count)
  BY <1>1, ExactChoice
<1>3. h.size.min = s /\ h.count.min = c
  <2>1. Counted(d, s, c).size = N!Exactly(s) /\ Counted(d, s, c).count = N!Exactly(c)
    BY <1>1, ExactChoice
  <2> QED
    BY <1>1, <2>1 DEF N!Exactly, N!Interval
<1> QED
  BY <1>1, <1>2, <1>3

\* A stream is opened with a pair of size and count the device accepts; an exact device
\* is given its size nearest the completed request and the nearest count that goes with
\* it; and setSwParams sees the buffer that was committed.
THEOREM GrantsTheNearest == OpenSpec => []GrantedIsNearest
<1>1. IInv /\ OpeningInv => GrantedIsNearest
  <2> SUFFICES ASSUME IInv, OpeningInv, outcome = "ok" PROVE
                 /\ Accepted(driver, hw) /\ buffer = Granted
                 /\ driver.exact => /\ N!NearestOf(hw.size.min, N!SizesOf(driver.pairs), frames)
                                    /\ N!NearestOf(hw.count.min, CountsWith(driver, hw.size.min), count)
    BY DEF GrantedIsNearest, Accepted, CountsWith
  <2>1. /\ call = "Open" /\ pc = "set" /\ phase = "committed" /\ buffer = Granted
        /\ want = [size |-> frames, count |-> count]
    BY DEF OpeningInv, OpensWith
  <2>2. ~ Hopeless(driver) /\ Final(driver, want, hw) /\ Accepted(driver, hw)
    BY <2>1 DEF OpeningInv, Course, Settled
  <2>3. /\ driver \in N!AllDrivers /\ want \in N!Requests
        /\ want.size = frames /\ want.count = count
    BY <2>1, Known DEF OpeningInv
  <2>4. ASSUME driver.exact
        PROVE  /\ N!NearestOf(hw.size.min, N!SizesOf(driver.pairs), want.size)
               /\ N!NearestOf(hw.count.min, CountsWith(driver, hw.size.min), want.count)
    BY <2>2, <2>3, <2>4, ExactFinal
  <2> QED
    BY <2>1, <2>2, <2>3, <2>4
<1> QED
  BY <1>1, OpeningInvariant, PTL

\* A device that knows its limits is refused for its geometry only when it refuses to
\* commit a rate it advertised, however far from its limits the request is.
THEOREM RefusesTheHopeless == OpenSpec => []RefusedIsHopeless
<1>1. IInv /\ OpeningInv => RefusedIsHopeless
  <2> SUFFICES ASSUME IInv, OpeningInv PROVE RefusedIsHopeless
    OBVIOUS
  <2>1. N!TypeOK
    <3>1. Len(cands) <= 2 /\ \A i \in DOMAIN cands : cands[i] \in 0 .. N!Top[param]
      <4>1. PICK S : S = 0 .. N!Top[param]
        OBVIOUS
      <4>2. cands \in Seq(S) /\ Len(cands) <= 2
        BY <4>1 DEF OpeningInv, Types, Lists
      <4>3. \A i \in DOMAIN cands : cands[i] \in S
        BY <4>2
      <4> QED
        BY <4>1, <4>2, <4>3
    <3> QED
      BY <3>1 DEF OpeningInv, Types, Bounded, Geometries, Refining, Settled, N!TypeOK
  <2>2. ASSUME outcome = "BadGeometry", driver.exact PROVE driver.rates[rate] = "uncommitted"
    <3>1. ~ Hopeless(driver) /\ (driver.rates[rate] = "uncommitted" \/ ~ Fits(driver, want))
      BY <2>2 DEF OpeningInv, OpensWith, Truth
    <3> QED
      BY <2>2, <3>1, Known, ExactFits DEF OpeningInv
  <2> QED
    BY <2>1, <2>2 DEF RefusedIsHopeless
<1> QED
  BY <1>1, OpeningInvariant, PTL

\* SupportedRatesVerified tells an open with the defaults in advance: a rate it verified
\* is not refused, and one it did not is not opened, whatever it committed in between.
THEOREM QueryPredicts == OpenSpec => []PredictsTheOpen
<1>1. IInv /\ OpeningInv => PredictsTheOpen
  <2> SUFFICES ASSUME IInv, OpeningInv, queried = "ok", asked.size = 0, asked.count = 0, outcome # "none"
               PROVE  /\ outcome = "ok" => rate \in verified
                      /\ outcome \in {"BadFormat", "BadRate", "BadGeometry"} => rate \notin verified
    BY DEF PredictsTheOpen
  <2>1. rate \in Rates /\ Sorted(driver, verified, {})
    BY DEF IInv, TypeOK, OpeningInv, Querying
  <2>2. rate \in verified <=> Deliverable(driver, rate, Probed(rate))
    BY <2>1 DEF Sorted
  <2>3. want = Probed(rate) /\ Truth(driver, rate, want, outcome)
    BY DEF OpeningInv, OpensWith
  <2> QED
    BY <2>2, <2>3 DEF Truth, Deliverable
<1> QED
  BY <1>1, OpeningInvariant, PTL

\* So the numbers of every open are Geometry's: the floors are met and no higher than
\* that takes, and the boundary is the largest doubling of the buffer granted.
THEOREM OpenedGeometry == OpenSpec => [](FloorIsTight /\ BoundaryIsLargest)
BY OpenIsGeometry, FloorStaysTight, BoundaryIsRight, PTL
=============================================================================
