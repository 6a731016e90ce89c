------------------------------- MODULE Opening -------------------------------
(***************************************************************************)
(* An open of stream_linux.go from its Config to a prepared device, after  *)
(* a rate query or without one: Geometry's defaults and floors are what    *)
(* Negotiate negotiates, the geometry the device commits is the buffer     *)
(* setSwParams derives the boundary from, and the query verifies each rate *)
(* at the defaults of Geometry but without its floors.                     *)
(***************************************************************************)
EXTENDS Geometry

CONSTANTS MaxSize, MaxCount, Drivers,   \* of Negotiate
          Tried      \* bound: the devices, rates and requests that meet

VARIABLES driver, want, call, trial, todo, verified, queried, endpoint, hw, param, phase,
          cands, outcome    \* of Negotiate, its rate being trial

\* What VerifyRate asks for.
Probed(r) == [size |-> DefaultSizeOf(r), count |-> DefaultCount]

N == INSTANCE Negotiate WITH rate <- trial, Default <- Probed

ASSUME OpeningAssumption ==
  /\ MaxSize \in Nat \ {0} /\ MaxCount \in Nat \ {0}
  /\ Drivers \subseteq N!AllDrivers
  /\ Tried \subseteq [driver : Drivers, rate : Rates, asked : [size : Sizes, count : Counts]]

negotiation == <<driver, want, call, trial, todo, verified, queried, endpoint, hw, param, phase,
                 cands, outcome>>

OpenInit ==
  /\ \E t \in Tried : driver = t.driver /\ rate = t.rate /\ asked = t.asked
  /\ Init /\ N!Init

-----------------------------------------------------------------------------
\* SupportedRatesVerified, on a descriptor of its own, before the open.
Queries == pc = "defaults" /\ N!QueryStep /\ UNCHANGED vars

\* openResolved completes the Config before it opens the device,
Completes == call = "none" /\ (Defaults \/ Floor) /\ UNCHANGED negotiation

\* and hands Negotiate what it came to.
Asks == pc = "negotiate" /\ N!BeginOpen(rate, [size |-> frames, count |-> count]) /\ UNCHANGED vars

Negotiates == call = "Open" /\ N!Negotiation /\ UNCHANGED vars

\* HW_PARAMS left the buffer it committed, and setSwParams derives the boundary of it.
Granted == hw.size.min * hw.count.min

SetsSoftware ==
  /\ phase = "committed"
  /\ (Grant /\ buffer' = Granted) \/ Double \/ SwParams
  /\ UNCHANGED negotiation

\* PREPARE comes last.
Prepares == pc = "set" /\ N!Prepare /\ UNCHANGED vars

OpenNext ==
  /\ outcome = "none"
  /\ Queries \/ Completes \/ Asks \/ Negotiates \/ SetsSoftware \/ Prepares

OpenSpec == OpenInit /\ [][OpenNext]_<<vars, negotiation>>

-----------------------------------------------------------------------------
\* A stream is opened with a geometry the device accepts; from an exact driver it is
\* the period size nearest the request, as the defaults and the floors completed it,
\* and the nearest count that goes with it.  The buffer is what that geometry holds.
GrantedIsNearest ==
  outcome = "ok" =>
    /\ <<hw.size.min, hw.count.min>> \in driver.pairs
    /\ buffer = Granted
    /\ driver.exact =>
         /\ N!NearestOf(hw.size.min, N!SizesOf(driver.pairs), frames)
         /\ N!NearestOf(hw.count.min, {c \in 1 .. MaxCount : <<hw.size.min, c>> \in driver.pairs}, count)

\* A driver that knows its limits is never told that no geometry near the request
\* works, however far the request is from what it accepts; unless it advertised a rate
\* that it refuses to commit, which is reported as the geometry.
RefusedIsHopeless ==
  /\ N!TypeOK
  /\ outcome = "BadGeometry" => ~ driver.exact \/ driver.rates[rate] = "uncommitted"

\* "a rate commits here iff the streaming open can deliver it" (rates.go:121): a rate the
\* query verified can be opened with the defaults, floors and all, and one it did not
\* verify cannot, whatever rates the query committed before on its descriptor.
PredictsTheOpen ==
  queried = "ok" /\ asked.size = 0 /\ asked.count = 0 =>
    /\ outcome = "ok" => rate \in verified
    /\ outcome \in {"BadFormat", "BadRate", "BadGeometry"} => rate \notin verified
=============================================================================
