------------------------------ MODULE Negotiate ------------------------------
(***************************************************************************)
(* PCM.Negotiate of internal/alsa/pcm.go: the rate is pinned, the period   *)
(* size and then the period count move to the nearest value the driver     *)
(* accepts (refineNear), and HW_PARAMS commits what was pinned.  The       *)
(* driver is asked by HW_REFINE only, may vanish before any answer, and    *)
(* knows its limits exactly or only as bounds that not every value inside  *)
(* attains.                                                                *)
(*                                                                         *)
(* SupportedRatesVerified (capabilities_linux.go, and rates.go of          *)
(* internal/alsa) goes the same way for one rate after another on one      *)
(* descriptor, to tell in advance which rates such an open can have.       *)
(***************************************************************************)
EXTENDS Integers, Sequences, FiniteSetsExt

CONSTANTS MaxSize,   \* bound: period sizes a driver may accept
          MaxCount,  \* bound: period counts a driver may accept
          Rates,     \* the candidate rates
          Drivers,   \* what devices accept: see AllDrivers
          Default(_) \* the period size and count an open asks for by default, by rate

\* What a driver makes of a rate: its refine leaves it out, its commit refuses it, its
\* commit puts another in its place, or it is kept.
RateKinds == {"refused", "uncommitted", "substituted", "kept"}

\* The pairs of size and count the device accepts; whether its refines are exact;
\* whether it reports bounds as open; and its rates.
AllDrivers == [pairs : SUBSET ((1 .. MaxSize) \X (1 .. MaxCount)),
               exact : BOOLEAN, open : BOOLEAN, rates : [Rates -> RateKinds]]

VARIABLES driver,    \* the device, one of Drivers
          want,      \* the period size and count to negotiate
          call,      \* the call in progress: "none", "Query" or "Open"
          rate,      \* the rate being negotiated or verified
          todo,      \* the advertised rates the query has not verified yet
          verified,  \* those it has
          queried,   \* what it returned: "none", "ok" or an error
          endpoint,  \* the rate the USB endpoint of this descriptor is committed to, or 0
          hw,        \* the intervals of HwParams for size and count
          param,     \* the parameter refineNear is at: "size" or "count"
          phase,     \* the step it is at
          cands,     \* its candidates, nearest first
          outcome    \* what Open returned, or "none"

query  == <<todo, verified, queried>>
vars   == <<driver, want, call, rate, query, endpoint, hw, param, phase, cands, outcome>>

Params == {"size", "count"}
Top    == [size |-> MaxSize + 1, count |-> MaxCount + 1]

Requests == [size : Nat, count : Nat]

-----------------------------------------------------------------------------
\* An interval of HwParams with its open flags, and the values it leaves.
Interval(min, max, openMin, openMax) ==
  [min |-> min, max |-> max, openMin |-> openMin, openMax |-> openMax]

\* Faulty variants, each of which a property has to catch, stand before the definition
\* they are variants of.  Here: the lowest value of an interval, its flag ignored.
LowestOfClosed(iv) == iv.min
Lowest(iv)  == IF iv.openMin THEN iv.min + 1 ELSE iv.min
Highest(iv) == IF iv.openMax THEN iv.max - 1 ELSE iv.max
Values(iv)  == Lowest(iv) .. Highest(iv)
Exactly(v)  == Interval(v, v, FALSE, FALSE)

SizesOf(pairs)  == {p[1] : p \in pairs}
CountsOf(pairs) == {p[2] : p \in pairs}

\* What device d accepts inside intervals c: exactly, each parameter knows what the
\* other one leaves; else each is looked at alone.
Left(d, c) ==
  LET both == {p \in d.pairs : p[1] \in Values(c.size) /\ p[2] \in Values(c.count)}
  IN IF d.exact THEN [size |-> SizesOf(both), count |-> CountsOf(both)]
     ELSE [size |-> SizesOf(d.pairs) \cap Values(c.size), count |-> CountsOf(d.pairs) \cap Values(c.count)]

\* HW_REFINE refuses what leaves nothing (EINVAL),
Refused(d, c) == \E q \in Params : Left(d, c)[q] = {}

\* and else narrows every interval to what is left, or not quite, inside the interval
\* asked for.  A single value is always reported as itself.
Narrowed(d, iv, left) ==
  LET min == IF d.exact THEN Min(left) ELSE Max({Lowest(iv), Min(left) - 1})
      max == IF d.exact THEN Max(left) ELSE Min({Highest(iv), Max(left) + 1})
  IN IF d.open /\ 0 < min /\ min < max THEN Interval(min - 1, max + 1, TRUE, TRUE)
     ELSE Interval(min, max, FALSE, FALSE)

Refined(d, c) == [q \in Params |-> Narrowed(d, c[q], Left(d, c)[q])]

-----------------------------------------------------------------------------
\* refineNear for parameter q of intervals h, near target t.  A pin holds when the
\* refine keeps exactly the value.
Asking(h, q, iv) == [h EXCEPT ![q] = iv]
Pinned(d, h, q, v) == Refined(d, Asking(h, q, Exactly(v)))
Pins(d, h, q, v) == /\ ~ Refused(d, Asking(h, q, Exactly(v)))
                    /\ Pinned(d, h, q, v)[q] = Exactly(v)

TargetPins(d, h, q, t) == h[q].min <= t /\ t <= h[q].max /\ Pins(d, h, q, t)

\* The probe above the target proposes the lowest value left there,
AboveOf(h, q, t) ==
  LET minV == Max({t, h[q].min})
  IN Interval(minV, h[q].max, minV = h[q].min /\ h[q].openMin, h[q].openMax)

Up(d, h, q, t) ==
  LET c == Asking(h, q, AboveOf(h, q, t))
  IN IF t <= h[q].max /\ ~ Refused(d, c) THEN <<Lowest(Refined(d, c)[q])>> ELSE <<>>

\* and the probe below it the highest.
BelowOf(h, q, t) ==
  LET maxV == Min({t, h[q].max})
  IN Interval(h[q].min, maxV, h[q].openMin, maxV = h[q].max /\ h[q].openMax)

Down(d, h, q, t) ==
  LET c   == Asking(h, q, BelowOf(h, q, t))
      got == Refined(d, c)[q]
  IN IF t >= h[q].min /\ ~ Refused(d, c) /\ ~ (got.openMax /\ got.max = 0) THEN <<Highest(got)>> ELSE <<>>

\* The nearer candidate comes first, and the larger one on a tie.
Distance(v, t) == IF v < t THEN t - v ELSE v - t

OrderedUpFirst(t, up, down) == up \o down
Ordered(t, up, down) ==
  IF up # <<>> /\ down # <<>> /\ Distance(down[1], t) < Distance(up[1], t) THEN down \o up ELSE up \o down

-----------------------------------------------------------------------------
AnyGeometry == [q \in Params |-> Interval(0, Top[q], FALSE, FALSE)]

Init ==
  /\ driver \in Drivers
  /\ want = [size |-> 0, count |-> 0]
  /\ call = "none" /\ rate = 0 /\ endpoint = 0
  /\ todo = {} /\ verified = {} /\ queried = "none"
  /\ hw = AnyGeometry
  /\ param = "size" /\ phase = "idle" /\ cands = <<>>
  /\ outcome = "none"

\* A negotiation of rate r, near the size and count w, begins with nothing pinned.
Fresh(r, w) ==
  /\ rate' = r /\ want' = w
  /\ hw' = AnyGeometry /\ param' = "size" /\ phase' = "format" /\ cands' = <<>>

\* The query returns, and its descriptor is closed.
QueryReturns(e) ==
  /\ queried' = e /\ call' = "none" /\ phase' = "idle" /\ todo' = {} /\ endpoint' = 0
  /\ UNCHANGED <<driver, want, rate, hw, param, cands, outcome>>

\* What a negotiation ends with is Open's result, or decides about one rate of a query:
\* whatever the driver refuses is an unsupported rate, and any other error the query's.
Returns(e) ==
  \/ /\ call = "Open"
     /\ outcome' = e
     /\ UNCHANGED <<driver, want, call, rate, query, endpoint, hw, param, phase, cands>>
  \/ /\ call = "Query" /\ e = "ioctlError"
     /\ QueryReturns(e) /\ verified' = {}
  \/ /\ call = "Query" /\ e # "ioctlError"
     /\ verified' = IF e = "ok" THEN verified \cup {rate} ELSE verified
     /\ todo' = todo \ {rate}
     /\ phase' = "next"
     /\ UNCHANGED <<driver, want, call, rate, queried, endpoint, hw, param, cands, outcome>>

Goes(p) == phase' = p /\ UNCHANGED <<driver, want, call, rate, query, endpoint, outcome>>

\* HW_REFINE of a rate.  An endpoint that is still committed limits it.
RateLeft(r) == driver.rates[r] # "refused" /\ endpoint \in {0, r}

BeginQuery ==
  /\ call = "none" /\ queried = "none"
  /\ call' = "Query" /\ phase' = "advertise"
  /\ UNCHANGED <<driver, want, rate, query, endpoint, hw, param, cands, outcome>>

BeginOpen(r, w) ==
  /\ call = "none"
  /\ call' = "Open"
  /\ Fresh(r, w)
  /\ UNCHANGED <<driver, query, endpoint, outcome>>

\* SupportedRates: the window, and one refine per candidate inside it, none of which
\* changes the device.
Advertise ==
  /\ phase = "advertise"
  /\ IF Refused(driver, hw) THEN QueryReturns("BadFormat") /\ UNCHANGED verified
     ELSE /\ todo' = {r \in Rates : RateLeft(r)}
          /\ phase' = "next"
          /\ UNCHANGED <<driver, want, call, rate, verified, queried, endpoint, hw, param, cands, outcome>>

\* VerifyRate of the lowest rate left, in the order of the list, at the default geometry.
NextRate ==
  /\ phase = "next"
  /\ IF todo = {} THEN QueryReturns("ok") /\ UNCHANGED verified
     ELSE Fresh(Min(todo), Default(Min(todo))) /\ UNCHANGED <<driver, call, query, endpoint, outcome>>

\* The refine that leaves the rate open: a device that accepts nothing is a format
\* problem.
Format ==
  /\ phase = "format"
  /\ IF Refused(driver, hw) THEN Returns("BadFormat")
     ELSE Goes("rate") /\ hw' = Refined(driver, hw) /\ UNCHANGED <<param, cands>>

\* The rate, inside the window and pinned.
Rate ==
  /\ phase = "rate"
  /\ IF RateLeft(rate) THEN Goes("target") /\ UNCHANGED <<hw, param, cands>> ELSE Returns("BadRate")

\* refineNear.  A pin that holds is kept, and the next parameter or the commit follows.
target == want[param]

Keep(v) ==
  /\ hw' = Pinned(driver, hw, param, v)
  /\ cands' = <<>>
  /\ IF param = "size" THEN param' = "count" /\ Goes("target")
     ELSE UNCHANGED param /\ Goes("commit")

PinTarget ==
  /\ phase = "target"
  /\ IF TargetPins(driver, hw, param, target) THEN Keep(target)
     ELSE Goes("up") /\ UNCHANGED <<hw, param, cands>>

ProbeUp ==
  /\ phase = "up"
  /\ cands' = Up(driver, hw, param, target)
  /\ Goes("down")
  /\ UNCHANGED <<hw, param>>

ProbeDown ==
  /\ phase = "down"
  /\ cands' = Ordered(target, cands, Down(driver, hw, param, target))
  /\ Goes("candidates")
  /\ UNCHANGED <<hw, param>>

\* Each candidate is pinned in turn.
PinCandidate ==
  /\ phase = "candidates"
  /\ IF cands = <<>> THEN Returns("BadGeometry")
     ELSE IF Pins(driver, hw, param, Head(cands)) THEN Keep(Head(cands))
     ELSE cands' = Tail(cands) /\ Goes("candidates") /\ UNCHANGED <<hw, param>>

\* HW_PARAMS commits a geometry and a rate the device accepts, and the endpoint with them.
Commit ==
  /\ phase = "commit"
  /\ IF <<hw.size.min, hw.count.min>> \notin driver.pairs \/ driver.rates[rate] = "uncommitted"
     THEN Returns("BadGeometry")
     ELSE /\ endpoint' = rate
          /\ phase' = IF call = "Query" THEN "release" ELSE "judge"
          /\ UNCHANGED <<driver, want, call, rate, query, hw, param, cands, outcome>>

\* VerifyRate releases what it committed.  Faulty: it does not.
HwFreeForgotten ==
  /\ phase = "release"
  /\ Goes("judge")
  /\ UNCHANGED <<hw, param, cands>>

HwFree ==
  /\ phase = "release"
  /\ endpoint' = 0 /\ phase' = "judge"
  /\ UNCHANGED <<driver, want, call, rate, query, hw, param, cands, outcome>>

\* A driver may commit and substitute another rate.
Judge ==
  /\ phase = "judge"
  /\ IF driver.rates[rate] = "substituted" THEN Returns("BadRate")
     ELSE IF call = "Query" THEN Returns("ok")
     ELSE Goes("committed") /\ UNCHANGED <<hw, param, cands>>

\* SW_PARAMS and PREPARE follow.
Prepare == phase = "committed" /\ Returns("ok")

\* Every ioctl may find the device gone, or fail otherwise, and ends the call at once.
Fails == call # "none" /\ Returns("ioctlError")

\* What both calls do, and what each adds to it.
Negotiation ==
  \/ Format \/ Rate \/ PinTarget \/ ProbeUp \/ ProbeDown \/ PinCandidate
  \/ Commit \/ Judge
  \/ Fails

QueryStep == BeginQuery \/ Advertise \/ NextRate \/ HwFree \/ Negotiation

-----------------------------------------------------------------------------
Intervals == [min : Nat, max : Nat, openMin : BOOLEAN, openMax : BOOLEAN]

TypeOK ==
  /\ driver \in Drivers
  /\ want \in Requests
  /\ call \in {"none", "Query", "Open"}
  /\ rate \in Rates \cup {0} /\ endpoint \in Rates \cup {0}
  /\ todo \subseteq Rates /\ verified \subseteq Rates
  /\ queried \in {"none", "ok", "BadFormat", "ioctlError"}
  /\ \A q \in Params : /\ hw[q] \in Intervals
                       /\ 0 <= Lowest(hw[q]) /\ Lowest(hw[q]) <= Highest(hw[q]) /\ Highest(hw[q]) <= Top[q]
  /\ param \in Params
  /\ phase \in {"idle", "advertise", "next", "format", "rate", "target", "up", "down", "candidates",
               "commit", "release", "judge", "committed"}
  /\ Len(cands) <= 2 /\ \A i \in DOMAIN cands : cands[i] \in 0 .. Top[param]
  /\ outcome \in {"none", "ok", "BadFormat", "BadRate", "BadGeometry", "ioctlError"}

\* v is the value of s nearest t, the larger one on a tie.
NearestOf(v, s, t) ==
  LET far(x) == IF x < t THEN t - x ELSE x - t
  IN v \in s /\ \A x \in s : far(v) < far(x) \/ (far(v) = far(x) /\ x <= v)
=============================================================================
