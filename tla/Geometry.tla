------------------------------ MODULE Geometry ------------------------------
(***************************************************************************)
(* The numbers of an open: openResolved of stream_linux.go fills in the    *)
(* default period size and count, applyGeometryFloor raises them to what   *)
(* the kernel can track, the device grants a buffer (Negotiate says how    *)
(* near), and setSwParams derives the pointer boundary from it with the    *)
(* doubling loop of boundary in internal/alsa/pcm.go.                      *)
(***************************************************************************)
EXTENDS Integers

CONSTANTS Rates,     \* sample rates asked for
          Sizes,     \* period sizes a Config may ask for; 0 is "the default"
          Counts,    \* period counts a Config may ask for; 0 is "the default"
          Buffers,   \* buffer sizes the device may grant
          Cap,       \* boundaryCap: 2^30 or 2^60
          Word       \* one past the largest uframes: 2^32 or 2^64

ASSUME GeometryAssumption ==
  /\ Rates \subseteq Nat \ {0}
  /\ Sizes \subseteq Nat /\ Counts \subseteq Nat
  /\ Word \in Nat
  /\ Cap \in Nat \ {0} /\ 2 * Cap <= Word
  /\ Buffers \subseteq 0 .. Word - 1

VARIABLES rate,     \* Config.Rate
          asked,    \* Config.PeriodFrames and Config.Periods
          frames,   \* the period size to negotiate
          count,    \* the period count to negotiate
          buffer,   \* the buffer granted
          b,        \* the variable of boundary's loop
          pc        \* the step the open is at

request == <<rate, asked>>
vars    == <<rate, asked, frames, count, buffer, b, pc>>

Init ==
  /\ rate \in Rates
  /\ asked \in [size : Sizes, count : Counts]
  /\ frames = 0 /\ count = 0 /\ buffer = 0 /\ b = 0
  /\ pc = "defaults"

-----------------------------------------------------------------------------
Larger(x, y) == IF x >= y THEN x ELSE y

\* DefaultPeriodFrames and DefaultPeriods.  Faulty variants, each of which a property
\* has to catch, stand before the definition they are variants of.  Here: ten times
\* shorter a period, which the floor then has to pad.
DefaultSizeShort(r) == Larger(r \div 500, 1)
DefaultSizeOf(r)    == Larger(r \div 50, 1)
DefaultSize         == DefaultSizeOf(rate)
DefaultCount        == 4

\* The floors of applyGeometryFloor: a millisecond a period,
SizeFloor == 1 + (rate - 1) \div 1000

\* and 20 ms a buffer, in periods.
BufferFloor == 1 + (rate - 1) \div 50
CountFloor(f) == 1 + (BufferFloor - 1) \div f

-----------------------------------------------------------------------------
\* A zero of the Config stands for the default.
Defaults ==
  /\ pc = "defaults"
  /\ frames' = IF asked.size = 0 THEN DefaultSize ELSE asked.size
  /\ count' = IF asked.count = 0 THEN DefaultCount ELSE asked.count
  /\ pc' = "floor"
  /\ UNCHANGED <<request, buffer, b>>

\* The floor of the count follows from the raised size.  Faulty: from the one asked for.
FloorOfAsked ==
  /\ pc = "floor"
  /\ frames' = Larger(frames, SizeFloor)
  /\ count' = Larger(count, CountFloor(frames))
  /\ pc' = "negotiate"
  /\ UNCHANGED <<request, buffer, b>>

Floor ==
  /\ pc = "floor"
  /\ frames' = Larger(frames, SizeFloor)
  /\ count' = Larger(count, CountFloor(frames'))
  /\ pc' = "negotiate"
  /\ UNCHANGED <<request, buffer, b>>

\* The geometry asked for is a target: the device grants what it can.
Grant ==
  /\ pc = "negotiate"
  /\ buffer' \in Buffers
  /\ b' = buffer'
  /\ pc' = "boundary"
  /\ UNCHANGED <<request, frames, count>>

\* boundary's loop, in the width of uframes.  Faulty: it goes one doubling past the cap.
DoubleOnceMore ==
  /\ pc = "boundary"
  /\ buffer # 0
  /\ b <= Cap
  /\ b' = (2 * b) % Word
  /\ UNCHANGED <<request, frames, count, buffer, pc>>

Double ==
  /\ pc = "boundary"
  /\ buffer # 0
  /\ b <= Cap \div 2
  /\ b' = (2 * b) % Word
  /\ UNCHANGED <<request, frames, count, buffer, pc>>

SwParams ==
  /\ pc = "boundary"
  /\ buffer = 0 \/ b > Cap \div 2
  /\ pc' = "set"
  /\ UNCHANGED <<request, frames, count, buffer, b>>

Next == Defaults \/ Floor \/ Grant \/ Double \/ SwParams

Spec == Init /\ [][Next]_vars

-----------------------------------------------------------------------------
Steps == {"defaults", "floor", "negotiate", "boundary", "set"}

TypeOK ==
  /\ rate \in Rates
  /\ asked \in [size : Sizes, count : Counts]
  /\ frames \in Nat /\ count \in Nat
  /\ buffer \in 0 .. Word - 1
  /\ b \in 0 .. Word - 1
  /\ pc \in Steps
  /\ pc # "defaults" => frames > 0 /\ count > 0

\* applyGeometryFloor: what is negotiated is at least a millisecond a period and
\* 20 ms a buffer, and no less than what was asked for.
FloorHolds ==
  pc \in {"negotiate", "boundary", "set"} =>
    /\ frames * 1000 >= rate
    /\ frames * count * 50 >= rate
    /\ frames >= asked.size /\ count >= asked.count

\* And it raises no further than it has to: a period or a count above the one asked for
\* is the smallest that meets the floor.
FloorIsTight ==
  /\ FloorHolds
  /\ pc \in {"negotiate", "boundary", "set"} =>
       /\ asked.size # 0 /\ frames > asked.size => (frames - 1) * 1000 < rate
       /\ asked.count # 0 /\ count > asked.count => frames * (count - 1) * 50 < rate

\* The rate probe of VerifyRate commits the default geometry without the floor: an open
\* that asks for the defaults negotiates the very same one.
ProbeMatchesOpen ==
  pc = "negotiate" /\ asked.size = 0 /\ asked.count = 0 => frames = DefaultSize /\ count = DefaultCount

\* boundary's value: no smaller than the buffer, a multiple of it, and for a buffer
\* within the cap the largest doubling of it that is within the cap.
BoundaryIsLargest ==
  pc = "set" /\ buffer # 0 =>
    /\ b >= buffer /\ b % buffer = 0
    /\ buffer <= Cap => b <= Cap /\ 2 * b > Cap
    /\ buffer > Cap => b = buffer
=============================================================================
