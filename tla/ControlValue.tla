---------------------------- MODULE ControlValue ----------------------------
(***************************************************************************)
(* Which raw values of a control element may be written, and which one a   *)
(* percentage stands for (controls.go, and interpolate of                  *)
(* controls_linux.go).  Raw values are signed and the kernel's step rule   *)
(* takes their remainder as unsigned words.  A percentage is worked out in *)
(* floating point: numbers of so many digits, times a power of two, each   *)
(* result rounded to the nearest such number and to the even one of two.   *)
(***************************************************************************)
EXTENDS Integers, FiniteSetsExt

CONSTANTS Word,      \* the number of values of a machine word (2^64 in the code)
          MaxProbe,  \* how far nearestValid looks on either side (2^20 in the code)
          MaxExact,  \* the integers up to it are floats (2^53 in the code)
          Grids,     \* the powers of two
          Full       \* percentage p is the share p / Full of the range

Abs(x) == IF x < 0 THEN - x ELSE x

\* Floats as large as m are the multiples of u, as far as they are integers.
Spacing(m, u) == Abs(m) <= MaxExact * u /\ (u > 1 => MaxExact * u < 2 * Abs(m))

\* The float of p / Full is a fraction of d, which is as fine as its digits allow.
Fineness(p, d) == p * d <= MaxExact * Full /\ (p > 0 => MaxExact * Full < 2 * p * d)

ASSUME ValueAssumption == Word \in Nat \ {0} /\ MaxProbe \in Nat

ASSUME FloatAssumption ==
  /\ MaxExact \in Nat /\ MaxExact >= 8 /\ Full \in Nat \ {0}
  /\ Grids \subseteq Nat \ {0} /\ 1 \in Grids
  /\ \A m \in 0 .. 2 * MaxExact * Word : \E u \in Grids : Spacing(m, u)
  /\ \A p \in 0 .. Full : \E d \in Grids : Fineness(p, d)

\* stepOK, the kernel's validate_integer.  Faulty: the remainder from the minimum, and
\* of the signed value's magnitude.
StepOfOffset(v, s) == s.step = 0 \/ (v - s.min) % s.step = 0
StepOK(v, s) == s.step = 0 \/ (v % Word) % s.step = 0

\* set: what a description lets through.
Valid(v, s) == v \in s.min .. s.max /\ StepOK(v, s)

\* m / d rounded to the nearest integer, to the even one of two.
Quotient(m, d) ==
  LET k == (2 * m + d) \div (2 * d)
  IN IF (2 * m + d) % (2 * d) = 0 /\ k % 2 = 1 THEN k - 1 ELSE k

\* float64 of the integer m, which may be a numerator over a power of two.
Float(m) == LET u == CHOOSE u \in Grids : Spacing(m, u) IN u * Quotient(m, u)

Parts(p) == CHOOSE d \in Grids : Fineness(p, d)

\* percent / 100 * (float64(hi) - float64(lo)), the numerator over the parts of the share;
\* math.Round of it.  Faulty: the share of the maximum, which is right of a range from 0.
ProductOfMax(s, p) == Float(Quotient(p * Parts(p), Full) * Float(s.max))
Product(s, p) == Float(Quotient(p * Parts(p), Full) * Float(Float(s.max) - Float(s.min)))
Steps(s, p) == (2 * Product(s, p) + Parts(p)) \div (2 * Parts(p))

\* interpolate, of a range that is not empty.
Interpolate(s, p) ==
  LET f == Float(Float(s.min) + Steps(s, p))
  IN CASE f <= Float(s.min)                     -> s.min
       [] f > Float(s.min) /\ f >= Float(s.max) -> s.max
       [] OTHER                                 -> f

\* The distances nearestValid tries and finds a valid value at, below or above.
Distances(target, s) ==
  {d \in 0 .. MaxProbe - 1 : Valid(target - d, s) \/ Valid(target + d, s)}

HasValid(target, s) == s.min <= s.max /\ target \in s.min .. s.max /\ Distances(target, s) # {}

\* nearestValid, the lower value on a tie.
Nearest(target, s) ==
  LET d == Min(Distances(target, s))
  IN IF Valid(target - d, s) THEN target - d ELSE target + d
=============================================================================
