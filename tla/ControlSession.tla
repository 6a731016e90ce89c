--------------------------- MODULE ControlSession ---------------------------
(***************************************************************************)
(* A Controls handle (controls_linux.go) over the guarded control device   *)
(* of internal/alsa/ctl.go: one goroutine's List, Info, Get, Set,          *)
(* CaptureVolume and SetCaptureVolumePercent, ioctl by ioctl, against a    *)
(* Close from another goroutine, an unplug, and programs and drivers that  *)
(* remove elements and add them again with another range meanwhile.        *)
(***************************************************************************)
EXTENDS ControlValue, ControlTlv

CONSTANTS Names,         \* names of elements
          Asked,         \* bound: the names callers ask for
          Volumes,       \* the names the capture volume rule accepts
          Shapes,        \* what an element can be: its range, step, access, item names and TLV
          MaxItems,      \* CtlMaxItems
          Items, Raws,   \* bounds: TLV items drivers have, and values ValueDB is asked for
          Values,        \* the values callers set
          Percents,      \* the percentages callers set, as numerators over Full
          ListAttempts,  \* ctlListAttempts
          Absent, NoName

ASSUME SessionAssumption ==
  /\ Volumes \subseteq Names /\ Asked \subseteq Names
  /\ IsFiniteSet(Names)
  /\ \A s \in Shapes : s.min \in Int /\ s.max \in Int /\ s.step \in Nat /\ s.items \in Nat
                       /\ s.readable \in BOOLEAN /\ s.writable \in BOOLEAN /\ s.tlv \in BOOLEAN
                       /\ - Word <= s.min /\ s.max < Word
  /\ MaxItems \in Nat /\ Values \subseteq Int /\ Percents \subseteq 0 .. Full
  /\ ListAttempts \in Nat \ {0}
  /\ Absent \notin Shapes /\ NoName \notin Names

VARIABLES elems,     \* the card's elements
          health,    \* of the card: "up", "dying" while it is unplugged, "gone"
          sclosed,   \* Controls.closed
          closed,    \* Ctl.closed
          inflight,  \* Ctl.inflight: the caller is inside an ioctl
          fd,        \* the descriptor, "open" or "closed"
          closer,    \* the goroutine that closes: "out", "mark", "drain", "closeFd", "done"
          op,        \* the call in progress: its kind and arguments
          at,        \* the ioctl it is at, or the step between two
          attempts,  \* List's retries
          count,     \* the count the first ELEM_LIST reported
          ids,       \* the listed names that are not described yet
          descs,     \* the elements described so far, by name
          desc,      \* the element the call works on, its description, the value to write
          named,     \* how many of its item names were read
          errno,     \* of the ioctl that failed
          perr,      \* of the probe that classifies it
          result,    \* what the last call returned
          wrote,     \* the write the kernel accepted in this call
          steady,    \* elements that were there, unreplaced, since the call began
          fresh,     \* elements not replaced since the call described them
          dirty      \* an ioctl of this call failed after Close was called

card   == <<elems, health>>
guard  == <<closed, inflight, fd, closer>>
work   == <<attempts, count, ids, descs, desc, named>>
fault  == <<errno, perr>>
vars   == <<card, sclosed, guard, op, at, work, fault, result, wrote, steady, fresh, dirty>>

NoOp    == [kind |-> "none", name |-> NoName, arg |-> 0]
NoDesc  == [name |-> NoName, shape |-> Absent, value |-> 0]
NoWrite == [value |-> 0, shape |-> Absent, same |-> FALSE]

IoctlAt == {"count", "fill", "info", "items", "tlv", "read", "write", "probe"}
Kinds   == {"none", "List", "Info", "Get", "Set", "Volume", "Percent"}

Present == {n \in Names : elems[n] # Absent}

TypeOK ==
  /\ elems \in [Names -> Shapes \cup {Absent}]
  /\ health \in {"up", "dying", "gone"}
  /\ sclosed \in BOOLEAN /\ closed \in BOOLEAN /\ inflight \in BOOLEAN
  /\ fd \in {"open", "closed"}
  /\ closer \in {"out", "mark", "drain", "closeFd", "done"}
  /\ op.kind \in Kinds /\ op.name \in Names \cup {NoName}
  /\ at \in IoctlAt \cup {"idle", "described", "check", "choose", "classify", "decide"}
  /\ attempts \in 0 .. ListAttempts - 1 /\ count \in 0 .. Cardinality(Names)
  /\ ids \subseteq Names
  /\ descs \in [Names -> Shapes \cup {Absent}]
  /\ desc \in [name : Names \cup {NoName}, shape : Shapes \cup {Absent}, value : Int]
  /\ named \in 0 .. MaxItems
  /\ wrote \in [value : Int, shape : Shapes \cup {Absent}, same : BOOLEAN]
  /\ steady \subseteq Names /\ fresh \subseteq Names
  /\ dirty \in BOOLEAN

NoDescs == [n \in Names |-> Absent]

Init ==
  /\ elems \in [Names -> Shapes \cup {Absent}] /\ health = "up"
  /\ sclosed = FALSE /\ closed = FALSE /\ inflight = FALSE /\ fd = "open" /\ closer = "out"
  /\ op = NoOp /\ at = "idle"
  /\ attempts = 0 /\ count = 0 /\ ids = {} /\ descs = NoDescs /\ desc = NoDesc /\ named = 0
  /\ errno = "ok" /\ perr = "ok" /\ result = "none" /\ wrote = NoWrite
  /\ steady = {} /\ fresh = {} /\ dirty = FALSE

-----------------------------------------------------------------------------
\* The card: an element is removed, or added with some range, and the card goes away,
\* its operations failing for a while before its files do.
Remove(n) ==
  /\ elems[n] # Absent
  /\ elems' = [elems EXCEPT ![n] = Absent]
  /\ steady' = steady \ {n} /\ fresh' = fresh \ {n}
  /\ UNCHANGED <<health, sclosed, guard, op, at, work, fault, result, wrote, dirty>>

Add(n) ==
  /\ elems[n] = Absent
  /\ \E s \in Shapes : elems' = [elems EXCEPT ![n] = s]
  /\ UNCHANGED <<health, sclosed, guard, op, at, work, fault, result, wrote, steady, fresh, dirty>>

Unplug ==
  /\ health # "gone"
  /\ health' = IF health = "up" THEN "dying" ELSE "gone"
  /\ UNCHANGED <<elems, sclosed, guard, op, at, work, fault, result, wrote, steady, fresh, dirty>>

-----------------------------------------------------------------------------
\* Controls.Close and, of the goroutine that swapped the flag, Ctl.Close.
Swap ==
  /\ closer = "out"
  /\ sclosed' = TRUE /\ closer' = "mark"
  /\ UNCHANGED <<card, closed, inflight, fd, op, at, work, fault, result, wrote, steady, fresh, dirty>>

Mark ==
  /\ closer = "mark"
  /\ closed' = TRUE /\ closer' = "drain"
  /\ UNCHANGED <<card, sclosed, inflight, fd, op, at, work, fault, result, wrote, steady, fresh, dirty>>

\* Faulty: the descriptor is closed without waiting for the ioctl in flight.
DrainAtOnce ==
  /\ closer = "drain"
  /\ closer' = "closeFd"
  /\ UNCHANGED <<card, sclosed, closed, inflight, fd, op, at, work, fault, result, wrote, steady, fresh, dirty>>

Drain ==
  /\ closer = "drain" /\ ~ inflight
  /\ closer' = "closeFd"
  /\ UNCHANGED <<card, sclosed, closed, inflight, fd, op, at, work, fault, result, wrote, steady, fresh, dirty>>

CloseFd ==
  /\ closer = "closeFd"
  /\ fd' = "closed" /\ closer' = "done"
  /\ UNCHANGED <<card, sclosed, closed, inflight, op, at, work, fault, result, wrote, steady, fresh, dirty>>

Closer == Swap \/ Mark \/ Drain \/ CloseFd

-----------------------------------------------------------------------------
Return(r) ==
  /\ result' = r
  /\ at' = "idle" /\ op' = NoOp
  /\ attempts' = 0 /\ count' = 0 /\ ids' = {} /\ descs' = NoDescs /\ desc' = NoDesc /\ named' = 0
  /\ errno' = "ok" /\ perr' = "ok" /\ wrote' = NoWrite /\ steady' = {} /\ fresh' = {} /\ dirty' = FALSE

\* The calls that list the card.
Scans == {"List", "Volume", "Percent"}

\* A call begins; a closed handle refuses it.
Begin(o) ==
  /\ at = "idle"
  /\ IF sclosed THEN Return("ErrClosed")
     ELSE /\ op' = o /\ result' = "none"
          /\ at' = IF o.kind \in Scans THEN "count" ELSE "info"
          /\ ids' = IF o.kind \in Scans THEN {} ELSE {o.name}
          /\ steady' = Present
          /\ UNCHANGED <<attempts, count, descs, desc, named, fault, wrote, fresh, dirty>>
  /\ UNCHANGED <<card, sclosed, guard>>

\* Ctl.call: in flight, or refused.
Acquire ==
  /\ at \in IoctlAt /\ ~ inflight /\ ~ closed
  /\ inflight' = TRUE
  /\ UNCHANGED <<card, sclosed, closed, fd, closer, op, at, work, fault, result, wrote, steady, fresh, dirty>>

\* An ioctl failed with e: the probe tells what becomes of it, or has failed itself.
Fails(e) ==
  /\ IF at = "probe" THEN at' = "decide" /\ perr' = e /\ UNCHANGED errno
     ELSE at' = "classify" /\ errno' = e /\ UNCHANGED perr
  /\ dirty' = (dirty \/ sclosed)
  /\ UNCHANGED <<work, wrote>>

Refuse ==
  /\ at \in IoctlAt /\ ~ inflight /\ closed
  /\ Fails("EBADF")
  /\ UNCHANGED <<card, sclosed, guard, op, result, steady, fresh>>

Goto(place) == at' = place /\ UNCHANGED <<fault, dirty>>

\* The kernel's answer to the ioctl of a card whose files are still there.
Count ==
  /\ at = "count"
  /\ count' = Cardinality(Present)
  /\ Goto(IF Present = {} THEN "described" ELSE "fill")
  /\ UNCHANGED <<attempts, ids, descs, desc, named, wrote>>

\* The ids have to be as many as were counted, or the list is tried again.
\* Faulty: what fits is taken for the list; trying never ends.
FillUnchecked ==
  /\ at = "fill"
  /\ \E taken \in SUBSET Present :
       /\ Cardinality(taken) = Min({count, Cardinality(Present)})
       /\ ids' = taken
  /\ Goto("info")
  /\ UNCHANGED <<attempts, count, descs, desc, named, wrote>>

FillForever ==
  /\ at = "fill"
  /\ IF Cardinality(Present) = count
     THEN Goto("info") /\ ids' = Present
     ELSE Goto("count") /\ UNCHANGED ids
  /\ UNCHANGED <<attempts, count, descs, desc, named, wrote>>

Fill ==
  /\ at = "fill"
  /\ \/ /\ Cardinality(Present) = count
        /\ Goto("info") /\ ids' = Present /\ UNCHANGED <<attempts, count, descs, desc, named, wrote>>
     \/ /\ Cardinality(Present) # count /\ attempts + 1 < ListAttempts
        /\ Goto("count") /\ attempts' = attempts + 1 /\ UNCHANGED <<count, ids, descs, desc, named, wrote>>
     \/ /\ Cardinality(Present) # count /\ attempts + 1 = ListAttempts
        /\ Fails("errCtlListUnstable")

\* What describe reads besides: item names, unless there are too many, and the TLV item.
Deep      == op.kind \in {"List", "Info"}
DBStep(s) == IF Deep /\ s.tlv THEN "tlv" ELSE "described"

\* describe, of the next listed element or of the one asked for.
Info ==
  /\ at = "info"
  /\ \E n \in ids :
       IF elems[n] = Absent
       THEN /\ desc' = [name |-> n, shape |-> Absent, value |-> 0]
            /\ at' = "classify" /\ errno' = "ENOENT" /\ dirty' = (dirty \/ sclosed)
            /\ UNCHANGED <<attempts, count, ids, descs, named, perr, wrote>>
       ELSE /\ desc' = [name |-> n, shape |-> elems[n], value |-> op.arg]
            /\ Goto(IF Deep /\ elems[n].items \in 1 .. MaxItems THEN "items" ELSE DBStep(elems[n]))
            /\ named' = 0 /\ UNCHANGED <<attempts, count, ids, descs, wrote>>

\* The name of the next item, of whatever has the element's name by now.
ItemName ==
  /\ at = "items"
  /\ IF elems[desc.name] = Absent THEN Fails("ENOENT")
     ELSE /\ named' = named + 1
          /\ Goto(IF named' < desc.shape.items THEN "items" ELSE DBStep(desc.shape))
          /\ UNCHANGED <<attempts, count, ids, descs, desc, wrote>>

\* The dB information is read by the number of the element described, which no other
\* ever has.  ENXIO and ENOMEM mean that there is none; anything else, as a driver's
\* error or an item longer than the buffer, fails the call.
Tlv ==
  /\ at = "tlv"
  /\ IF desc.name \notin fresh THEN Fails("ENOENT")
     ELSE (Goto("described") /\ UNCHANGED <<work, wrote>>) \/ Fails("EIO")

Read ==
  /\ at = "read"
  /\ \/ elems[desc.name] = Absent /\ Fails("ENOENT")
     \/ health = "dying" /\ Fails("EINVAL")
     \/ elems[desc.name] # Absent /\ Goto("described") /\ UNCHANGED <<work, wrote>>

\* The kernel takes what it is given, unless another program locked the element or the
\* driver rejects the value.
Write ==
  /\ at = "write"
  /\ \/ elems[desc.name] = Absent /\ Fails("ENOENT")
     \/ elems[desc.name] # Absent /\ (Fails("EPERM") \/ Fails("EINVAL"))
     \/ /\ elems[desc.name] # Absent /\ health = "up"
        /\ wrote' = [value |-> desc.value, shape |-> elems[desc.name], same |-> desc.name \in fresh]
        /\ Goto("described") /\ UNCHANGED work

Probe == at = "probe" /\ at' = "decide" /\ perr' = "ok" /\ UNCHANGED <<work, errno, wrote, dirty>>

Answer ==
  /\ inflight
  /\ inflight' = FALSE
  /\ IF health = "gone" THEN Fails("ENODEV")
     ELSE Count \/ Fill \/ Info \/ ItemName \/ Tlv \/ Read \/ Write \/ Probe
  /\ fresh' = IF at = "info" /\ at' # "classify" THEN fresh \cup {desc'.name} ELSE fresh
  /\ UNCHANGED <<card, sclosed, closed, fd, closer, op, result, steady>>

-----------------------------------------------------------------------------
Step(place) == at' = place /\ UNCHANGED <<op, fault, result, wrote, steady, fresh, dirty>>

Quiet == UNCHANGED <<card, sclosed, guard>>

\* An element described: on to the next, or to what the call is about.
Described ==
  /\ at = "described" /\ wrote = NoWrite
  /\ \/ /\ op.kind \in Scans /\ ids # {}
        /\ descs' = [descs EXCEPT ![desc.name] = desc.shape]
        /\ ids' = ids \ {desc.name}
        /\ Step(IF ids' # {} THEN "info" ELSE "choose")
        /\ UNCHANGED <<attempts, count, desc, named>>
     \/ /\ op.kind \in Scans /\ ids = {}
        /\ Step("choose") /\ UNCHANGED work
     \/ op.kind = "Info" /\ Return("ok")
     \/ op.kind = "Get" /\ ids # {} /\ ~ desc.shape.readable /\ Return("ControlAccessError")
     \/ /\ op.kind = "Get" /\ ids # {} /\ desc.shape.readable
        /\ Step("read") /\ ids' = {} /\ UNCHANGED <<attempts, count, descs, desc, named>>
     \/ op.kind = "Get" /\ ids = {} /\ Return("ok")
     \/ op.kind = "Set" /\ Step("check") /\ UNCHANGED work
  /\ Quiet

\* Set: the value is checked against the description before it is written.
Check ==
  /\ at = "check"
  /\ IF ~ desc.shape.writable THEN Return("ControlAccessError")
     ELSE IF ~ Valid(op.arg, desc.shape) THEN Return("ControlValueError")
     ELSE Step("write") /\ UNCHANGED work
  /\ Quiet

Listed == at = "choose" /\ op.kind = "List" /\ Return("ok") /\ Quiet

\* captureMatch: the one active volume among the elements described.  Faulty: the first.
IsVolume(s) == s # Absent /\ s.readable /\ s.writable /\ s.items = 0
Matches == {n \in Volumes : IsVolume(descs[n])}

\* interpolate, tabulated.
Target == [s \in Shapes |-> [p \in Percents |-> Interpolate(s, p)]]

ChooseNone == at = "choose" /\ op.kind \in {"Volume", "Percent"} /\ Matches = {} /\ Return("NoVolume") /\ Quiet

ChooseMany ==
  /\ at = "choose" /\ op.kind \in {"Volume", "Percent"} /\ Cardinality(Matches) > 1
  /\ Return("Ambiguous")
  /\ Quiet

ChooseFirst ==
  /\ at = "choose" /\ op.kind = "Percent"
  /\ \E n \in Matches :
       LET target == Target[descs[n]][op.arg]
       IN IF ~ HasValid(target, descs[n]) THEN Return("ControlValueError")
          ELSE /\ at' = "write"
               /\ desc' = [name |-> n, shape |-> descs[n], value |-> Nearest(target, descs[n])]
               /\ UNCHANGED <<op, attempts, count, ids, descs, named, fault, result, wrote, steady, fresh, dirty>>
  /\ Quiet

ChooseOne ==
  /\ at = "choose" /\ op.kind = "Percent" /\ Cardinality(Matches) = 1
  /\ \E n \in Matches :
       LET target == Target[descs[n]][op.arg]
       IN IF ~ HasValid(target, descs[n]) THEN Return("ControlValueError")
          ELSE /\ at' = "write"
               /\ desc' = [name |-> n, shape |-> descs[n], value |-> Nearest(target, descs[n])]
               /\ UNCHANGED <<op, attempts, count, ids, descs, named, fault, result, wrote, steady, fresh, dirty>>
  /\ Quiet

\* CaptureVolume describes the volume it found.
DescribeOne ==
  /\ at = "choose" /\ op.kind = "Volume" /\ Cardinality(Matches) = 1
  /\ op' = [kind |-> "Info", name |-> CHOOSE n \in Matches : TRUE, arg |-> 0]
  /\ ids' = Matches /\ at' = "info"
  /\ UNCHANGED <<attempts, count, descs, desc, named, fault, result, wrote, steady, fresh, dirty>>
  /\ Quiet

Written == at = "described" /\ wrote # NoWrite /\ Return("ok") /\ Quiet

-----------------------------------------------------------------------------
\* classify, up to its probe.
Classify ==
  /\ at = "classify"
  /\ IF sclosed \/ errno = "EBADF" THEN Return("ErrClosed")
     ELSE IF errno = "ENODEV" THEN Return("ErrDeviceGone")
     ELSE Step("probe") /\ UNCHANGED work
  /\ Quiet

\* What an errno is to the caller while the card is there.
Meaning ==
  CASE errno = "ENOENT"                      -> "ControlNotFound"
    [] errno = "EPERM"                       -> "ControlAccessError"
    [] errno = "EINVAL" /\ op.kind # "Get"   -> "ControlValueError"
    [] OTHER                                 -> errno

\* list leaves out an element that was removed since it was listed.
SkipRemoved ==
  /\ ids' = ids \ {desc.name}
  /\ at' = IF ids' # {} THEN "info" ELSE "choose"
  /\ errno' = "ok" /\ perr' = "ok"
  /\ UNCHANGED <<op, attempts, count, descs, desc, named, result, wrote, steady, fresh, dirty>>

Skips == op.kind \in Scans /\ errno = "ENOENT" /\ ids # {}

\* classify after the probe, which a Close or an unplug may have made fail.
\* Faulty: the flag is not looked at again.
DecideUnchecked ==
  /\ at = "decide"
  /\ IF perr = "ENODEV" THEN Return("ErrDeviceGone")
     ELSE IF Skips THEN SkipRemoved
     ELSE Return(Meaning)
  /\ Quiet

Decide ==
  /\ at = "decide"
  /\ IF sclosed THEN Return("ErrClosed")
     ELSE IF perr = "ENODEV" THEN Return("ErrDeviceGone")
     ELSE IF Skips THEN SkipRemoved
     ELSE Return(Meaning)
  /\ Quiet

Caller ==
  \/ Acquire \/ Refuse \/ Answer
  \/ Described \/ Check \/ Listed \/ ChooseNone \/ ChooseMany \/ ChooseOne \/ DescribeOne \/ Written
  \/ Classify \/ Decide

Ops ==
  [kind : {"Info", "Get"}, name : Asked, arg : {0}] \cup [kind : {"Set"}, name : Asked, arg : Values]
    \cup [kind : {"List", "Volume"}, name : {NoName}, arg : {0}] \cup [kind : {"Percent"}, name : {NoName}, arg : Percents]

Next ==
  \/ \E n \in Names : Remove(n) \/ Add(n)
  \/ Unplug
  \/ Closer
  \/ \E o \in Ops : Begin(o)
  \/ Caller

Spec == Init /\ [][Next]_vars

\* The caller's goroutine and the closer's run on, and no control ioctl parks.
FairSpec == Spec /\ WF_vars(Caller) /\ WF_vars(Mark \/ Drain \/ CloseFd)

-----------------------------------------------------------------------------
Returns == at # "idle" /\ at' = "idle"

\* The kernel's step rule: the word of v is a multiple of the step.
KernelAccepts(v, s) ==
  /\ v \in s.min .. s.max
  /\ s.step = 0 \/ \E k \in 0 .. Word : k * s.step = IF v < 0 THEN v + Word ELSE v

\* What a call writes is inside the range of the element, obeys the kernel's step rule
\* and its access, unless the element was replaced after the call described it.
WrittenIsValid ==
  /\ TypeOK
  /\ wrote # NoWrite /\ wrote.same => KernelAccepts(wrote.value, wrote.shape) /\ wrote.shape.writable

\* The ends of a range and the distance between them are floats.
Represented(s) == 2 * Abs(s.min) <= MaxExact /\ 2 * Abs(s.max) <= MaxExact

\* SetCaptureVolumePercent writes the acceptable value nearest to a step of the range,
\* the lower one of two, and that step is within half a step of the percentage of the
\* range, but for what the three roundings of the product add to it (controls_linux.go
\* interpolate: a share that is half a step exactly may come out on either side).
PercentIsNearest ==
  wrote # NoWrite /\ wrote.same /\ op.kind = "Percent" /\ Represented(wrote.shape) =>
    LET s     == wrote.shape
        share == op.arg * (s.max - s.min)
    IN \E t \in s.min .. s.max :
         /\ MaxExact * (2 * Abs(Full * (t - s.min) - share) - Full) <= 6 * share
         /\ \A v \in s.min .. s.max :
              KernelAccepts(v, s) =>
                \/ Abs(wrote.value - t) < Abs(v - t)
                \/ Abs(wrote.value - t) = Abs(v - t) /\ wrote.value <= v

\* SetCaptureVolumePercent never chooses between two volumes that were there all along.
NeverChooses ==
  wrote # NoWrite /\ op.kind = "Percent" =>
    Cardinality({n \in Volumes \cap steady : IsVolume(elems[n])}) <= 1

\* An element that is there from the beginning to the end of List is in the list.
PresentIsListed == [][Returns /\ op.kind = "List" /\ result' = "ok" => \A n \in steady : descs[n] # Absent]_vars

\* Errors are true: a missing element was missing at some time of the call, a handle
\* reported closed was closed, and a device reported gone is gone.  An ioctl that failed
\* after Close was called is reported as ErrClosed.
ErrorsAreTrue ==
  [][Returns =>
       /\ result' = "ControlNotFound" => op.name \notin steady
       /\ result' = "NoVolume" => \A n \in Volumes \cap steady : ~ IsVolume(elems[n])
       /\ result' = "ErrClosed" => sclosed
       /\ dirty => result' = "ErrClosed"
       /\ result' = "ErrDeviceGone" => health = "gone"]_vars

\* Of whatever TLV item the driver has, the parser takes the well-formed ones and no
\* other, and ValueDB reads off its segments what the item says, of any value of the
\* element and of any outside its range: no length that lies, no bound out of order and
\* no child of a container moves a value to another gain.
Agreement == [s \in Shapes |-> \A item \in Items : ReadsRight(item, s.min, s.max, Raws)]

DBIsRight == at = "tlv" => Agreement[desc.shape]

\* The guard of the control device keeps the descriptor as that of the PCM does.
Lifetime == INSTANCE FdLifetime WITH Threads <- {"caller"}, using <- IF inflight THEN {"caller"} ELSE {}
FdLifetimeSpec == Lifetime!Spec

\* Every call returns, however often the elements change under it.
CallsReturn == at # "idle" ~> at = "idle"
=============================================================================
