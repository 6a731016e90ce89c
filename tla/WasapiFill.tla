----------------------------- MODULE WasapiFill -----------------------------
(***************************************************************************)
(* Client.Read and Client.fill of internal/wasapi/client.go: how the       *)
(* packets of IAudioCaptureClient::GetBuffer become the frames a Read      *)
(* returns.  The driver may present a packet again, wholly or in part,     *)
(* skip frames it dropped, flag a discontinuity, present nothing, or       *)
(* report a device position that never moves.                              *)
(*                                                                         *)
(* A frame is the number of frames the device captured before it; the      *)
(* frames of a packet, of the carry and of a Read are runs of frames.      *)
(* fill holds the client's mutex, so each fill is one action.              *)
(***************************************************************************)
EXTENDS Naturals

CONSTANTS Drivers,   \* the drivers: whether devicePosition moves with the frames, the
                     \* frame counts of their packets, and (a bound) the frames they capture
          Buffers,   \* the capacities, in frames, of the caller's buffers
          MaxGap     \* the most frames a driver drops at once

ASSUME DriverAssumption ==
  /\ Drivers \subseteq [moving : BOOLEAN, sizes : SUBSET (Nat \ {0}), horizon : Nat]
  /\ Buffers \subseteq Nat \ {0}
  /\ MaxGap \in Nat

VARIABLES driver,    \* the driver in use, one of Drivers
          head,      \* the frames the device has presented or dropped so far
          nextPos,   \* Client.nextPos
          havePos,   \* Client.havePos
          posLive,   \* Client.posLive
          carry,     \* Client.carryBuf from carryOff on
          want,      \* capacity of the Read in progress; 0 outside Read
          flagged,   \* this Read took a packet with DATA_DISCONTINUITY
          cursor,    \* one past the newest frame a Read returned, or dropped with its error
          read,      \* what the last Read returned: carried frames, new ones, xrun
          failed     \* the last Read returned an error

fillVars == <<driver, head, nextPos, havePos, posLive, carry, want, flagged, cursor, read, failed>>

\* The frames from lo up to, but not including, hi.
Run(lo, hi) == [lo |-> lo, hi |-> hi]
NoFrames == Run(0, 0)
Rest(lo, hi) == IF lo < hi THEN Run(lo, hi) ELSE NoFrames
Size(r) == r.hi - r.lo

Lesser(a, b)  == IF a < b THEN a ELSE b
Greater(a, b) == IF a < b THEN b ELSE a

Moving == driver.moving
Sizes  == driver.sizes

Runs == {r \in [lo : Nat, hi : Nat] : r.lo <= r.hi}

FillTypeOK ==
  /\ driver \in Drivers
  /\ head \in Nat
  /\ nextPos \in Nat
  /\ havePos \in BOOLEAN
  /\ posLive \in BOOLEAN
  /\ carry \in Runs
  /\ want \in Buffers \cup {0}
  /\ flagged \in BOOLEAN
  /\ cursor \in Nat
  /\ read \in [old : Runs, new : Runs, xrun : BOOLEAN]
  /\ failed \in BOOLEAN

FillInit ==
  /\ driver \in Drivers
  /\ head = 0
  /\ nextPos = 0 /\ havePos = FALSE /\ posLive = FALSE
  /\ carry = NoFrames
  /\ want = 0 /\ flagged = FALSE
  /\ cursor = 0
  /\ read = [old |-> NoFrames, new |-> NoFrames, xrun |-> FALSE]
  /\ failed = FALSE

-----------------------------------------------------------------------------
\* A packet: its first frame, its frame count, and its DATA_DISCONTINUITY flag.  A
\* driver whose position moves presents frames again or drops some; one whose
\* position stands still is only known to work when it presents each frame once.
Packets ==
  {p \in [first : 0 .. head + MaxGap, frames : Sizes, flag : BOOLEAN] :
     /\ p.first + p.frames <= driver.horizon
     /\ ~ Moving => p.first = head}

devPos(p) == IF Moving THEN p.first ELSE 0
End(p)    == devPos(p) + p.frames

\* The packet extends past the high-water mark: the position is seen to move.
Arms(p) == havePos /\ End(p) > nextPos

\* The frames of the packet that were delivered already, and whether some between
\* the high-water mark and the packet never were.  The gap follows a faulty variant that a
\* property has to catch: taking no notice of it.
Armed(p) == havePos /\ (posLive \/ Arms(p))
Skip(p) == IF Armed(p) /\ devPos(p) < nextPos THEN Lesser(nextPos - devPos(p), p.frames) ELSE 0
GapIgnored(p) == FALSE
Gap(p) == Armed(p) /\ devPos(p) > nextPos

\* The high-water mark the packet leaves; faulty: one a repeated packet rewinds.
MarkRewound(p) == End(p)
Mark(p) == IF ~ havePos \/ End(p) > nextPos THEN End(p) ELSE nextPos

-----------------------------------------------------------------------------
BeginRead(b) ==
  /\ want = 0
  /\ want' = b
  /\ flagged' = FALSE /\ failed' = FALSE
  /\ UNCHANGED <<driver, head, nextPos, havePos, posLive, carry, cursor, read>>

\* The Read returns the runs old and new.
Deliver(old, new, xrun) ==
  /\ read' = [old |-> old, new |-> new, xrun |-> xrun]
  /\ cursor' = Greater(cursor, Greater(old.hi, new.hi))
  /\ want' = 0

\* A fill that produced nothing: the Read waits for the next audio event.
Wait == UNCHANGED <<read, cursor, want>>

\* Faulty: the carry's rest is dropped.
FromCarryDropping ==
  /\ want > 0
  /\ Size(carry) >= want
  /\ Deliver(Run(carry.lo, carry.lo + want), NoFrames, FALSE)
  /\ carry' = NoFrames
  /\ UNCHANGED <<driver, head, nextPos, havePos, posLive, flagged, failed>>

\* The carry alone fills the buffer.
FromCarry ==
  /\ want > 0
  /\ Size(carry) >= want
  /\ Deliver(Run(carry.lo, carry.lo + want), NoFrames, FALSE)
  /\ carry' = Rest(carry.lo + want, carry.hi)
  /\ UNCHANGED <<driver, head, nextPos, havePos, posLive, flagged, failed>>

\* The carry leaves room, and GetBuffer is asked once.
Asks == want > Size(carry)

\* GetBuffer fails: the Read returns the error, and the carry it took goes with it.
\* Nothing keeps the caller from reading on.
GetFails ==
  /\ Asks
  /\ failed' = TRUE
  /\ want' = 0
  /\ cursor' = Greater(cursor, carry.hi)
  /\ carry' = NoFrames
  /\ UNCHANGED <<driver, head, nextPos, havePos, posLive, flagged, read>>

\* No packet, or one without frames.
GetsNothing ==
  /\ Asks
  /\ IF carry # NoFrames THEN Deliver(carry, NoFrames, FALSE) ELSE Wait
  /\ carry' = NoFrames
  /\ UNCHANGED <<driver, head, nextPos, havePos, posLive, flagged, failed>>

\* A packet: its overlap is skipped, what the buffer does not hold is carried, and
\* a gap or the flag makes a Read that returns frames an xrun.
Take(p) ==
  LET start  == p.first + Skip(p)
      copied == Lesser(p.frames - Skip(p), want - Size(carry))
  IN /\ Asks
     /\ IF Size(carry) + copied > 0
        THEN Deliver(carry, Rest(start, start + copied), p.flag \/ Gap(p))
        ELSE Wait
     /\ carry' = Rest(start + copied, p.first + p.frames)
     /\ nextPos' = Mark(p)
     /\ havePos' = TRUE
     /\ posLive' = (posLive \/ Arms(p))
     /\ head' = Greater(head, p.first + p.frames)
     /\ flagged' = (flagged \/ p.flag)
     /\ UNCHANGED <<driver, failed>>

FillNext ==
  \/ \E b \in Buffers : BeginRead(b)
  \/ FromCarry
  \/ GetFails
  \/ GetsNothing
  \/ \E p \in Packets : Take(p)

FillSpec == FillInit /\ [][FillNext]_fillVars

-----------------------------------------------------------------------------
\* The end of the newest frame the caller has or will get from the carry.
Served == Greater(cursor, carry.hi)

Returned == want > 0 /\ want' = 0 /\ ~ failed'

\* What Reads returned, or dropped with an error they returned, and what waits in the
\* carry reach to the last frame the device presented: no skip, overflow, short buffer or
\* failed GetBuffer holds the stream back.
NothingHeldBack == Served = head

\* Frames in order, none of them returned before.
InOrder(r) ==
  /\ r.old # NoFrames => r.old.lo >= cursor
  /\ r.new # NoFrames => r.new.lo >= Greater(cursor, r.old.hi)

\* Frames that leave none out.
Gapless(r) ==
  /\ r.old # NoFrames => r.old.lo <= cursor
  /\ r.new # NoFrames => r.new.lo <= Greater(cursor, r.old.hi)

\* Once the position has moved, no frame is returned twice, however the driver
\* fragments or repeats what it presents; nor from a driver whose position stands still
\* and that presents each frame once, for no packet of it is taken for an overlap.  A
\* frame dropped with an error does not come back after frames that are newer.
NoneTwice == [][Returned /\ (posLive \/ ~ Moving) => InOrder(read')]_fillVars

\* Frames the device dropped make the very Read that skips them an xrun: after the
\* first packet a caller never gets audio spliced without notice, an error being one.
JumpsAreXruns == [][Returned /\ havePos => read'.xrun \/ Gapless(read')]_fillVars

\* "A DATA_DISCONTINUITY is counted as an xrun" (stream_windows.go:132), of any
\* packet the Read took.
FlagsAreXruns == [][Returned => (flagged' => read'.xrun)]_fillVars
=============================================================================
