----------------------------- MODULE WasapiProofs -----------------------------
(***************************************************************************)
(* The Windows stream.  WasapiClient for every set of endpoints and of     *)
(* closers: its types, that nothing is used after its release and nothing  *)
(* leaks, that endpoints which are there are told, and that the stream     *)
(* implements its contract.  WasapiFill, which a Read of it calls, for     *)
(* every driver of the two kinds the code is written for: one whose        *)
(* position moves, and one whose position stands still under packets of    *)
(* one size.                                                               *)
(***************************************************************************)
EXTENDS WasapiClient, WasapiFill, TLAPS

-----------------------------------------------------------------------------
\* The way to an endpoint.  At each place of a call the references it holds are known,
\* and every endpoint that was there all along is still to be read, in hand, in the
\* list, or one of those that could not be read.

Held ==
  /\ place \in {"idle", "enumerator"} => refs = {}
  /\ place \in {"collection", "device"} => refs = {Enum}
  /\ place \in {"count", "item"} => refs = {Enum, Collection}
  /\ place \in {"id", "store"} /\ Lists => refs = {Enum, Collection, Device(dev)}
  /\ place \in {"id", "store"} /\ ~ Lists => refs = {Enum, Device(dev)}
  /\ place = "value" /\ Lists => refs = {Enum, Collection, Device(dev), Store(dev)}
  /\ place = "value" /\ ~ Lists => refs = {Enum, Device(dev), Store(dev)}
  /\ place = "activate" => refs = {Enum, Device(dev)}

InHand == IF place \in {"id", "store", "value"} THEN {dev} ELSE {}

EndpointInv ==
  /\ EndpointTypes
  /\ Held
  /\ place = "idle" <=> task = "none"
  /\ place \in {"idle", "enumerator", "collection"} => listed = {} /\ missed = {}
  /\ place \in {"collection", "count", "item"} => Lists
  /\ place \in {"device", "activate"} => ~ Lists
  /\ place \in {"id", "store", "value"} => task # "Open"
  /\ place = "activate" => task = "Open"
  /\ place \in {"id", "store", "value", "activate"} => dev \in Endpoints
  /\ place = "activate" /\ asked # Default => dev = asked
  /\ task \in {"Resolve", "Open"} => asked \in Endpoints \cup {Default}
  /\ stayed \subseteq active
  /\ place \in {"count", "item", "id", "store", "value"} /\ Lists
       => stayed \subseteq left \cup InHand \cup listed \cup missed

LEMMA RefsDiffer ==
  \A e, f : /\ Device(e) \notin {Enum, Collection, Store(f)}
            /\ Store(e) \notin {Enum, Collection, Device(f)}
  BY DEF Device, Enum, Collection, Store

LEMMA EndpointsBegin == EndpointInit => EndpointInv
  BY EndpointAssumption DEF EndpointInit, EndpointInv, EndpointTypes, Held, FindPlaces, Untold, InHand

LEMMA EndpointsStay == EndpointInv /\ UNCHANGED endpoints => EndpointInv'
  BY DEF endpoints, holding, EndpointInv, EndpointTypes, Held, InHand, Lists

LEMMA EndpointsMove ==
  ASSUME EndpointInv, NEW e \in Endpoints, Come(e) \/ Go(e)
  PROVE  EndpointInv'
<1> USE DEF holding, EndpointInv, EndpointTypes, Held, InHand, Lists
<1>1. CASE Come(e)
  BY <1>1 DEF Come
<1>2. CASE Go(e)
  BY <1>2 DEF Go
<1> QED
  BY <1>1, <1>2

LEMMA EndpointsAsked ==
  ASSUME EndpointInv, NEW kind \in {"Devices", "Resolve", "Open"}, NEW id \in Endpoints \cup {Default, Nothing},
         Ask(kind, id), kind # "Devices" => id # Nothing
  PROVE  EndpointInv'
  BY DEF Ask, holding, EndpointInv, EndpointTypes, Held, InHand, Lists, FindPlaces, Untold

\* A call that returns releases what is left: by its defers, or before them.
LEMMA EndpointsAnswer ==
  ASSUME EndpointInv, NEW r \in {"ok", "NotFound", "ErrDeviceGone", "EDRV"}, NEW found \in SUBSET Endpoints,
         NEW freed, Answer(r, found, freed), refs \subseteq Deferred \cup freed
  PROVE  EndpointInv'
<1>1. refs' = {}
  BY DEF Answer
<1> QED
  BY <1>1 DEF Answer, EndpointInv, EndpointTypes, Held, InHand, FindPlaces

\* The function that reads one endpoint's name is back.
LEMMA EndpointsNamed ==
  ASSUME EndpointInv, place \in {"store", "value"}, Named
  PROVE  EndpointInv'
<1> USE DEF EndpointInv
<1>1. dev \in Endpoints /\ task \in {"Devices", "Resolve"}
  BY DEF EndpointTypes
<1>2. CASE Lists
  <2>1. To("item", refs \ {Device(dev), Store(dev)}) /\ listed' = listed \cup {dev} /\ UNCHANGED <<left, dev, missed>>
    BY <1>2 DEF Named
  <2>2. Lists' /\ refs' = {Enum, Collection}
    BY <1>2, <2>1, RefsDiffer DEF To, Lists, Held
  <2>3. Held'
    BY <2>1, <2>2 DEF Held, To
  <2> QED
    BY <1>1, <1>2, <2>1, <2>2, <2>3 DEF To, EndpointTypes, FindPlaces, InHand
<1>3. CASE ~ Lists
  <2>1. Answer("ok", {dev}, {Store(dev)})
    BY <1>3 DEF Named
  <2>2. Deferred = {Enum, Device(dev)}
    BY <1>1, <1>3 DEF Deferred, Lists
  <2>3. refs \subseteq Deferred \cup {Store(dev)}
    BY <1>3, <2>2 DEF Held
  <2> QED
    BY <1>1, <2>1, <2>3, EndpointsAnswer
<1> QED
  BY <1>2, <1>3

\* One COM call after another.
LEMMA EndpointsEnumerate ==
  ASSUME EndpointInv, Enumerate \/ Activated
  PROVE  EndpointInv'
<1> USE DEF EndpointInv
<1>1. CASE Fails("EDRV") /\ place \in {"enumerator", "collection", "count"}
  <2>1. refs \subseteq Deferred
    BY <1>1 DEF Held, Deferred, EndpointTypes
  <2> QED
    BY <1>1, <2>1, EndpointsAnswer DEF Fails
<1>2. CASE CreateEnumerator
  BY <1>1, <1>2 DEF CreateEnumerator, To, EndpointTypes, Held, InHand, Lists, FindPlaces
<1>3. CASE EnumEndpoints
  BY <1>1, <1>3 DEF EnumEndpoints, To, EndpointTypes, Held, InHand, Lists, FindPlaces
<1>4. CASE CollectionCount
  BY <1>1, <1>4 DEF CollectionCount, To, EndpointTypes, Held, InHand, Lists, FindPlaces
<1>5. CASE CollectionItem
  BY <1>5 DEF CollectionItem, To, EndpointTypes, Held, InHand, Lists, FindPlaces
<1>6. CASE DeviceId
  <2>1. CASE To("store", refs) /\ UNCHANGED <<left, dev, listed, missed>>
    BY <1>6, <2>1 DEF DeviceId, To, EndpointTypes, Held, InHand, Lists, FindPlaces
  <2>2. CASE Lists /\ To("item", refs \ {Device(dev)}) /\ missed' = missed \cup {dev} /\ UNCHANGED <<left, dev, listed>>
    <3>1. Lists' /\ refs' = {Enum, Collection}
      BY <1>6, <2>2, RefsDiffer DEF DeviceId, To, Lists, Held
    <3> QED
      BY <1>6, <2>2, <3>1 DEF DeviceId, To, EndpointTypes, Held, InHand, FindPlaces
  <2>3. CASE ~ Lists /\ Fails("EDRV")
    <3>1. refs \subseteq Deferred
      BY <1>6, <2>3 DEF DeviceId, Held, Deferred, Lists, EndpointTypes
    <3> QED
      BY <2>3, <3>1, EndpointsAnswer DEF Fails
  <2> QED
    BY <1>6, <2>1, <2>2, <2>3 DEF DeviceId
<1>7. CASE OpenPropertyStore
  <2>1. CASE Named
    BY <1>7, <2>1, EndpointsNamed DEF OpenPropertyStore
  <2>2. CASE To("value", refs \cup {Store(dev)}) /\ UNCHANGED <<left, dev, listed, missed>>
    BY <1>7, <2>2 DEF OpenPropertyStore, To, EndpointTypes, Held, InHand, Lists, FindPlaces
  <2> QED
    BY <1>7, <2>1, <2>2 DEF OpenPropertyStore
<1>8. CASE GetValue
  BY <1>8, EndpointsNamed DEF GetValue
<1>9. CASE Listed
  <2>1. refs \subseteq Deferred
    BY <1>9 DEF Listed, Held, Deferred
  <2>2. listed \in SUBSET Endpoints /\ (asked \in listed => {asked} \in SUBSET Endpoints)
    BY DEF EndpointTypes
  <2> QED
    BY <1>9, <2>1, <2>2, EndpointsAnswer DEF Listed, Fails
<1>10. CASE ResolveDevice
  <2>1. ASSUME NEW e \in IF asked = Default THEN active ELSE {asked},
               To(IF task = "Resolve" THEN "id" ELSE "activate", refs \cup {Device(e)}),
               dev' = e /\ UNCHANGED <<left, listed, missed>>
        PROVE  EndpointInv'
    <3>1. e \in Endpoints /\ task \in {"Resolve", "Open"} /\ ~ Lists
      BY <1>10 DEF ResolveDevice, EndpointTypes, Lists
    <3> QED
      BY <1>10, <2>1, <3>1 DEF ResolveDevice, To, EndpointTypes, Held, InHand, Lists, FindPlaces
  <2>2. refs \subseteq Deferred
    BY <1>10 DEF ResolveDevice, Held, Deferred
  <2> QED
    BY <1>10, <2>1, <2>2, EndpointsAnswer DEF ResolveDevice, Fails
<1>11. CASE ActivateFails \/ Activated
  <2>1. refs \subseteq Deferred \cup {Device(dev)} /\ {dev} \in SUBSET Endpoints
    BY <1>11 DEF ActivateFails, Activated, Held, Deferred
  <2> QED
    BY <1>11, <2>1, EndpointsAnswer DEF ActivateFails, Activated
<1> QED
  BY <1>2, <1>3, <1>4, <1>5, <1>6, <1>7, <1>8, <1>9, <1>10, <1>11 DEF Enumerate

-----------------------------------------------------------------------------
\* The client.  A Close that has not finished is the only one, and its place says what
\* the client still holds; a Read that has counted itself in keeps all of it held, since
\* the Close waits for it before the first release; and before the first Close nothing
\* that Negotiate set up is missing.

Everyone == Closers \cup {Opener}
Busy     == {"swap", "drain", "release", "handles"}
Counted  == {"check", "lock", "fill", "wait", "leave"}
Early    == {"format", "initialize", "align", "events"}

\* How far Negotiate came says what the client holds.
SetUp ==
  /\ phase = "activate" => fields = {} /\ live = {}
  /\ phase \in Early => fields = {"device", "client"} /\ live = fields
  /\ phase \in {"arm", "service"} => fields = {"device", "client"} \cup Handles /\ live = fields
  /\ phase = "open" /\ ~ cclosed => fields = Resources /\ live = Resources

\* Who closes, and what is left to release.
Closing ==
  /\ phase \notin {"undo", "refused"} => closer[Opener] = "out"
  /\ phase = "undo" => closer[Opener] # "out"
  /\ phase = "refused" => closer[Opener] = "done"
  /\ closer[Opener] = "done" => cclosed
  /\ phase # "open" \/ ~ sclosed => \A c \in Closers : closer[c] = "out"
  /\ \A c, d \in Everyone : closer[c] \in Busy /\ closer[d] \in Busy => c = d
  /\ \A c \in Everyone :
       /\ closer[c] = "swap" => ~ cclosed
       /\ closer[c] \in {"drain", "release", "handles"} => cclosed
       /\ closer[c] \in Busy => fields = live
       /\ closer[c] = "handles" => live \cap Com = {}
  /\ cclosed /\ (\A c \in Everyone : closer[c] \notin Busy) => live = {}

\* The flags and the event a Close sets.
Flags ==
  /\ cclosed => sclosed \/ phase \in {"undo", "refused"}
  /\ phase # "open" => ~ sclosed
  /\ closeSet => cclosed

\* The consumer's call.
Calling ==
  /\ phase # "open" => call = "none"
  /\ call = "none" <=> at = "idle"
  /\ mu = "start" <=> at = "starting"
  /\ mu = "read" <=> at = "fill"
  /\ readers = IF at \in Counted THEN 1 ELSE 0
  /\ at = "starting" => "client" \in live
  /\ at \in Counted => live = Resources /\ \A c \in Everyone : closer[c] \notin {"release", "handles"}
  /\ late => sclosed /\ at = "entry"
  /\ cause = "closed" => sclosed
  /\ cause = "gone" => gone

ClientInv == TypeOK /\ EndpointInv /\ SetUp /\ Closing /\ Flags /\ Calling

LEMMA ClientBegins == Init => ClientInv
<1> SUFFICES ASSUME Init PROVE ClientInv
  OBVIOUS
<1>1. EndpointInv
  BY EndpointsBegin DEF Init
<1>2. TypeOK
  <2>1. closer \in [Closers \cup {Opener} -> CloserPcs]
    BY DEF Init, CloserPcs
  <2>2. /\ phase \in Phases /\ fields \subseteq Resources /\ live \subseteq Resources
        /\ mu \in {"free", "read", "start"} /\ readers \in 0 .. 1
    BY DEF Init, Phases
  <2>3. cclosed \in BOOLEAN /\ sclosed \in BOOLEAN /\ audio \in BOOLEAN /\ closeSet \in BOOLEAN /\ gone \in BOOLEAN
    BY DEF Init
  <2>4. call \in {"none", "Start", "Read"} /\ at \in Places /\ late \in BOOLEAN
    BY DEF Init, Places
  <2>5. cause \in Causes /\ result \in Results
    BY DEF Init, Causes, Results
  <2> QED
    BY <1>1, <2>1, <2>2, <2>3, <2>4, <2>5 DEF EndpointInv, TypeOK
<1>3. \A c \in Everyone : closer[c] = "out"
  BY DEF Init, Everyone
<1>4. SetUp /\ Flags /\ Calling
  BY <1>3 DEF Init, SetUp, Flags, Calling, Counted, Early
<1>5. Closing
  BY <1>3 DEF Init, Closing, Everyone, Busy
<1> QED
  BY <1>1, <1>2, <1>4, <1>5 DEF ClientInv

\* Open up to its end: the finding of an endpoint,
LEMMA ClientFinds ==
  ASSUME ClientInv, Finding \/ Activate
  PROVE  ClientInv'
<1> USE DEF ClientInv
<1>1. CASE Finding
  <2>1. EndpointInv'
    BY <1>1, EndpointsMove, EndpointsAsked, EndpointsEnumerate, EndpointAssumption DEF Finding
  <2> QED
    BY <1>1, <2>1 DEF Finding, closing, events, caller, EndpointInv, TypeOK, SetUp, Closing, Flags, Calling
<1>2. CASE Activate
  <2>1. EndpointInv'
    BY <1>2, EndpointsEnumerate DEF Activate
  <2> QED
    BY <1>2, <2>1 DEF Activate, closing, events, caller, EndpointInv, TypeOK, SetUp, Closing, Flags, Calling,
                      Phases, Resources, Com, Early
<1> QED
  BY <1>1, <1>2

\* each step of Negotiate,
LEMMA ClientOpens ==
  ASSUME ClientInv, Open, ~ Finding, ~ Activate, ~ Refused
  PROVE  ClientInv'
<1> USE DEF ClientInv
<1>1. PICK to \in Phases, set \in SUBSET Resources, held \in SUBSET Resources :
        /\ Opens(to, set, held) /\ phase \notin {"activate", "open", "undo", "refused"}
        /\ set = held /\ set \subseteq Resources
        /\ to \in Early => set = {"device", "client"}
        /\ to \in {"arm", "service"} => set = {"device", "client"} \cup Handles
        /\ to = "open" => set = Resources
        /\ to \notin {"activate", "refused"}
  BY DEF Open, FormatSupported, Initialize, Reactivate, CreateEvents, SetEventHandle, GetCaptureClient, Gets, GiveUp,
         Phases, Early, SetUp, Resources, Com, Handles, TypeOK
<1>2. EndpointInv'
  BY <1>1, EndpointsStay DEF Opens
<1>3. ~ cclosed /\ ~ sclosed /\ closer[Opener] = "out" /\ \A c \in Closers : closer[c] = "out"
  BY <1>1 DEF Closing, Flags
<1>4. /\ closer' \in [Everyone -> CloserPcs]
      /\ closer'[Opener] = IF to = "undo" THEN "swap" ELSE "out"
      /\ \A c \in Closers : closer'[c] = "out"
  BY <1>1, <1>3, OpenerAssumption DEF Opens, TypeOK, Everyone, CloserPcs
<1>5. TypeOK'
  BY <1>1, <1>2, <1>4 DEF Opens, TypeOK, EndpointInv, caller, events, Everyone
<1>6. SetUp' /\ Flags' /\ Calling'
  BY <1>1, <1>3, <1>4 DEF Opens, SetUp, Flags, Calling, Early, caller, events, Everyone, Counted
<1>7. Closing'
  BY <1>1, <1>3, <1>4 DEF Opens, Closing, Everyone, Busy
<1> QED
  BY <1>2, <1>5, <1>6, <1>7

\* and the error it returns once the Close of a half set up client is done.
LEMMA ClientRefused ==
  ASSUME ClientInv, Refused
  PROVE  ClientInv'
<1>1. EndpointInv'
  BY EndpointsStay DEF Refused, ClientInv
<1> QED
  BY <1>1 DEF Refused, ClientInv, EndpointInv, TypeOK, SetUp, Closing, Flags, Calling, Phases, Early,
              closing, events, caller

-----------------------------------------------------------------------------
\* The consumer's steps leave what the client holds and who closes alone.
LEMMA ClientUntouched ==
  ASSUME ClientInv, UNCHANGED <<opening, closing, cclosed, closeSet>>
  PROVE  EndpointInv' /\ SetUp' /\ Closing' /\ Flags'
<1>1. EndpointInv'
  BY EndpointsStay DEF ClientInv, opening
<1> QED
  BY <1>1 DEF ClientInv, opening, closing, SetUp, Closing, Flags

\* The two places where a call may return to the consumer.
LEMMA ReturnEarly ==
  ASSUME ClientInv, Enter
  PROVE  \/ sclosed /\ Return("ErrClosed")
         \/ ~ sclosed /\ (Goto("lockStart") \/ Goto("register"))
  BY DEF Enter, ClientInv, TypeOK, Calling

LEMMA ReturnLate ==
  ASSUME ClientInv, Translate
  PROVE  /\ at = "translate"
         /\ \E r \in Results : Return(r) /\ (r = "ErrClosed" => sclosed) /\ (r = "ErrDeviceGone" => gone)
<1> DEFINE outcome == CASE cause = "ok"                               -> "ok"
                        [] cause # "ok" /\ (sclosed \/ cause = "closed") -> "ErrClosed"
                        [] cause = "gone" /\ ~ sclosed                -> "ErrDeviceGone"
                        [] OTHER                                      -> "EDRV"
<1>1. outcome \in Results /\ (outcome = "ErrClosed" => sclosed) /\ (outcome = "ErrDeviceGone" => gone)
  BY DEF Results, Errors, ClientInv, Calling
<1>2. at = "translate" /\ Return(outcome)
  BY DEF Translate
<1> HIDE DEF outcome
<1> QED
  BY <1>1, <1>2

LEMMA ClientReads ==
  ASSUME ClientInv, Reader \/ WaitFails \/ \E kind \in {"Start", "Read"} : Begin(kind)
  PROVE  ClientInv'
<1> USE DEF ClientInv
<1>1. UNCHANGED <<opening, closing, cclosed, closeSet, gone>>
  BY DEF Reader, Begin, Enter, LockStart, Started, Register, Check, Lock, Fill, Woken, WaitFails, Leave,
         Translate, events
<1>2. EndpointInv' /\ SetUp' /\ Closing' /\ Flags'
  BY <1>1, ClientUntouched
<1>3. UNCHANGED <<phase, fields, live, sclosed, closer>>
  BY <1>1 DEF opening, closing
<1>4. phase = "open" /\ ~ cclosed => live = Resources /\ fields = Resources /\ "client" \in Resources
  BY DEF SetUp, Resources, Com
<1>5. \A c \in Everyone : closer[c] \in {"release", "handles"} => cclosed
  BY DEF Closing
<1>6. at # "idle" => phase = "open"
  BY DEF Calling
<1>7. phase = "open" /\ cclosed => sclosed
  BY DEF Flags
<1>8. TypeOK'
  <2>1. EndpointTypes'
    BY <1>2 DEF EndpointInv
  <2>2. mu' \in {"free", "read", "start"} /\ readers' \in 0 .. 1 /\ audio' \in BOOLEAN
    <3> USE DEF TypeOK, events
    <3>1. CASE (\E kind \in {"Start", "Read"} : Begin(kind)) \/ Enter \/ Check \/ WaitFails \/ Translate
      BY <3>1 DEF Begin, Enter, Check, WaitFails, Translate
    <3>2. CASE LockStart \/ Started \/ Lock \/ Fill
      BY <3>2 DEF LockStart, Started, Lock, Fill
    <3>3. CASE Register \/ Leave
      BY <3>3 DEF Register, Leave, Calling, Counted
    <3>4. CASE Woken
      BY <3>4 DEF Woken
    <3> QED
      BY <3>1, <3>2, <3>3, <3>4 DEF Reader
  <2>3. \/ \E kind \in {"Start", "Read"} : Begin(kind)
        \/ \E p \in Places : Goto(p)
        \/ \E p \in Places, e \in Causes : Ends(p, e)
        \/ \E r \in Results : Return(r)
    <3>1. CASE Enter
      BY <3>1, ReturnEarly DEF Places, Results
    <3>2. CASE Translate
      BY <3>2, ReturnLate
    <3>3. CASE LockStart \/ Started
      BY <3>3 DEF LockStart, Started, Failures, Places, Causes
    <3>4. CASE Register \/ Check \/ Lock
      BY <3>4 DEF Register, Check, Lock, Places, Causes
    <3>5. CASE Fill \/ Woken
      BY <3>5 DEF Fill, Woken, Failures, Places, Causes
    <3>6. CASE WaitFails \/ Leave
      BY <3>6 DEF WaitFails, Leave, Places, Causes
    <3> QED
      BY <3>1, <3>2, <3>3, <3>4, <3>5, <3>6 DEF Reader
  <2>4. /\ call' \in {"none", "Start", "Read"} /\ at' \in Places /\ late' \in BOOLEAN
        /\ cause' \in Causes /\ result' \in Results
    <3> USE DEF TypeOK
    <3>1. CASE \E kind \in {"Start", "Read"} : Begin(kind)
      BY <3>1 DEF Begin, Places
    <3>2. CASE \E p \in Places : Goto(p)
      BY <3>2 DEF Goto
    <3>3. CASE \E p \in Places, e \in Causes : Ends(p, e)
      BY <3>3 DEF Ends
    <3>4. CASE \E r \in Results : Return(r)
      BY <3>4 DEF Return, Places, Causes
    <3> QED
      BY <2>3, <3>1, <3>2, <3>3, <3>4
  <2> QED
    BY <1>1, <1>3, <2>1, <2>2, <2>4 DEF TypeOK
<1>9. Calling'
  <2> USE DEF Calling, Counted, Goto, Ends
  <2>1. CASE \E kind \in {"Start", "Read"} : Begin(kind)
    BY <1>1, <1>3, <2>1 DEF Begin, TypeOK
  <2>2. CASE Enter
    <3>1. at = "entry" /\ UNCHANGED <<mu, readers>>
      BY <2>2 DEF Enter
    <3>2. (sclosed /\ Return("ErrClosed")) \/ (~ sclosed /\ \E p \in {"lockStart", "register"} : Goto(p))
      BY <2>2, ReturnEarly
    <3>3. CASE sclosed /\ Return("ErrClosed")
      BY <1>1, <1>3, <1>6, <3>1, <3>3 DEF Return
    <3>4. CASE ~ sclosed /\ \E p \in {"lockStart", "register"} : Goto(p)
      BY <1>1, <1>3, <1>6, <3>1, <3>4
    <3> QED
      BY <3>2, <3>3, <3>4
  <2>3. CASE LockStart
    BY <1>1, <1>3, <1>4, <1>6, <1>7, <2>3 DEF LockStart
  <2>4. CASE Started
    BY <1>1, <1>3, <2>4 DEF Started, Failures
  <2>5. CASE Register
    BY <1>1, <1>3, <1>4, <1>5, <1>6, <1>7, <2>5 DEF Register
  <2>6. CASE Check
    BY <1>1, <1>3, <1>6, <1>7, <2>6 DEF Check
  <2>7. CASE Lock
    BY <1>1, <1>3, <1>6, <1>7, <2>7 DEF Lock
  <2>8. CASE Fill
    BY <1>1, <1>3, <2>8 DEF Fill, Failures
  <2>9. CASE Woken
    BY <1>1, <1>3, <1>6, <1>7, <2>9 DEF Woken, Flags
  <2>10. CASE WaitFails
    BY <1>1, <1>3, <1>6, <1>7, <2>10 DEF WaitFails
  <2>11. CASE Leave
    BY <1>1, <1>3, <2>11 DEF Leave
  <2>12. CASE Translate
    BY <1>1, <1>3, <2>12, ReturnLate DEF Translate, Return
  <2> QED
    BY <2>1, <2>2, <2>3, <2>4, <2>5, <2>6, <2>7, <2>8, <2>9, <2>10, <2>11, <2>12 DEF Reader
<1> QED
  BY <1>2, <1>8, <1>9

-----------------------------------------------------------------------------
\* A Close: its flag is the stream's, and it is the only one that goes on.
LEMMA ClientCloses ==
  ASSUME ClientInv, NEW c \in Closers, Close(c)
  PROVE  ClientInv'
<1> USE DEF ClientInv
<1>1. EndpointInv'
  BY EndpointsStay DEF Close, opening
<1>2. /\ phase = "open" /\ closer[c] = "out" /\ c # Opener
      /\ UNCHANGED <<phase, fields, live, cclosed, closeSet>>
  BY OpenerAssumption DEF Close, opening, events
<1>3. /\ \A d \in Everyone : closer'[d] = IF d # c THEN closer[d] ELSE IF sclosed THEN "done" ELSE "swap"
      /\ closer' \in [Closers \cup {Opener} -> CloserPcs]
  BY DEF Close, Moves, TypeOK, Everyone, CloserPcs
<1>4. ~ sclosed => ~ cclosed /\ fields = live /\ \A d \in Everyone : closer[d] = "out"
  BY <1>2 DEF Flags, SetUp, Closing, Everyone
<1>5. TypeOK'
  BY <1>1, <1>3 DEF Close, TypeOK, EndpointInv, opening, events, caller
<1>6. SetUp' /\ Flags'
  BY <1>2 DEF Close, SetUp, Flags
<1>7. Calling'
  BY <1>3 DEF Close, Calling, opening, events, caller
<1>8. Closing'
  <2>1. CASE sclosed
    BY <1>2, <1>3, <2>1 DEF Closing, Everyone, Busy, Close
  <2>2. CASE ~ sclosed
    BY <1>2, <1>3, <1>4, <2>2 DEF Closing, Everyone, Busy, Close
  <2> QED
    BY <2>1, <2>2
<1> QED
  BY <1>1, <1>5, <1>6, <1>7, <1>8

\* Client.Close, by whoever goes on: no Read is counted in once it releases.
LEMMA ClientReleases ==
  ASSUME ClientInv, NEW c \in Everyone, Closer(c)
  PROVE  ClientInv'
<1> USE DEF ClientInv
<1>1. EndpointInv'
  BY EndpointsStay DEF Closer, Swap, Drain, Release, CloseHandles, opening
<1>2. closer[c] \in Busy /\ \A d \in Everyone : d # c => closer[d] \notin Busy
  BY DEF Closing, Busy, Closer, Swap, Drain, Release, CloseHandles
<1>3. PICK to \in CloserPcs : Moves(c, to)
  BY DEF Closer, Swap, Drain, Release, CloseHandles, CloserPcs
<1>4. /\ \A d \in Everyone : closer'[d] = IF d = c THEN to ELSE closer[d]
      /\ closer' \in [Closers \cup {Opener} -> CloserPcs]
  BY <1>3 DEF Moves, TypeOK, Everyone
<1>5. UNCHANGED <<phase, mu, readers, audio, gone, sclosed, caller>>
  BY DEF Closer, Swap, Drain, Release, CloseHandles, opening, events
<1>6. fields = live /\ phase \in {"undo", "open"} /\ to # "out" /\ to # "swap"
  BY <1>2, <1>3, <1>4 DEF Closing, Closer, Swap, Drain, Release, CloseHandles, Everyone, Busy, TypeOK, Phases, Moves
<1>7. (phase = "open" => c \in Closers /\ c # Opener /\ sclosed) /\ (phase = "undo" => c = Opener)
  BY <1>2, OpenerAssumption DEF Closing, Everyone, Busy
<1>8. cclosed' /\ (to \in Busy => fields' = live') /\ (to = "handles" => live' \cap Com = {})
      /\ (to = "done" => live' = {}) /\ fields' \subseteq fields /\ live' \subseteq live
  <2>1. CASE Swap(c)
    <3>1. ~ cclosed /\ closer'[c] = "drain"
      BY <2>1, <1>4 DEF Swap, Moves, Closing, TypeOK, Everyone
    <3> QED
      BY <1>4, <1>6, <2>1, <3>1 DEF Swap, opening
  <2>2. CASE Drain(c)
    <3>1. cclosed /\ closer'[c] = "release"
      BY <2>2, <1>4 DEF Drain, Moves, Closing, TypeOK, Everyone
    <3> QED
      BY <1>4, <1>6, <2>2, <3>1 DEF Drain, opening
  <2>3. CASE Release(c)
    <3>1. cclosed /\ closer'[c] = "handles"
      BY <2>3, <1>4 DEF Release, Moves, Closing, TypeOK, Everyone
    <3> QED
      BY <1>4, <1>6, <2>3, <3>1 DEF Release
  <2>4. CASE CloseHandles(c)
    <3>1. cclosed /\ closer'[c] = "done" /\ live \cap Com = {} /\ live \subseteq Resources
      BY <2>4, <1>4 DEF CloseHandles, Moves, Closing, TypeOK, Everyone
    <3> QED
      BY <1>4, <1>6, <2>4, <3>1 DEF CloseHandles, Resources, Busy
  <2> QED
    BY <2>1, <2>2, <2>3, <2>4 DEF Closer
<1>9. TypeOK'
  <2>1. closeSet' \in BOOLEAN
    BY DEF TypeOK, Closer, Swap, Drain, Release, CloseHandles, events
  <2> QED
    BY <1>1, <1>4, <1>5, <1>8, <2>1 DEF TypeOK, EndpointInv, caller
<1>10. SetUp' /\ Flags'
  BY <1>5, <1>6, <1>7, <1>8 DEF SetUp, Flags, Early
<1>11. Closing'
  <2>1. phase = "undo" => UNCHANGED sclosed /\ \A d \in Closers : closer'[d] = closer[d]
    BY <1>4, <1>5, <1>7, OpenerAssumption DEF Everyone
  <2>2. \A d \in Everyone : closer'[d] \in Busy => d = c
    BY <1>2, <1>4
  <2>3. \A d \in Everyone : closer'[d] \in Busy => fields' = live' /\ (closer'[d] = "handles" => live' \cap Com = {})
    BY <1>4, <1>8, <2>2
  <2>4. (\A d \in Everyone : closer'[d] \notin Busy) => live' = {}
    BY <1>4, <1>6, <1>8 DEF Busy, CloserPcs
  <2>5. \A d \in Everyone : closer'[d] # "swap"
    BY <1>4, <1>6, <2>2 DEF Busy
  <2>6. /\ phase' \notin {"undo", "refused"} => closer'[Opener] = "out"
        /\ phase' = "undo" => closer'[Opener] # "out"
        /\ phase' # "refused"
    BY <1>4, <1>5, <1>6, <1>7 DEF Closing, Everyone
  <2>7. phase' # "open" \/ ~ sclosed' => \A d \in Closers : closer'[d] = "out"
    BY <1>5, <1>6, <1>7, <2>1 DEF Closing
  <2> QED
    BY <1>8, <2>2, <2>3, <2>4, <2>5, <2>6, <2>7 DEF Closing, Everyone, Busy
<1>12. Calling'
  <2>1. CASE Swap(c)
    <3>1. to = "drain" /\ UNCHANGED live
      BY <2>1, <1>4 DEF Swap, Moves, Closing, TypeOK, Everyone, opening
    <3> QED
      BY <1>4, <1>5, <3>1 DEF Calling, caller
  <2>2. CASE Drain(c)
    <3>1. at \notin Counted /\ UNCHANGED live
      BY <2>2 DEF Drain, Calling, opening
    <3> QED
      BY <1>4, <1>5, <3>1 DEF Calling, caller
  <2>3. CASE Release(c)
    <3>1. at \notin Counted /\ at # "starting"
      BY <2>3 DEF Release, Calling
    <3> QED
      BY <1>4, <1>5, <3>1 DEF Calling, caller
  <2>4. CASE CloseHandles(c)
    <3>1. at \notin Counted /\ ("client" \in live => "client" \in live')
      BY <2>4 DEF CloseHandles, Calling, Handles
    <3> QED
      BY <1>4, <1>5, <3>1 DEF Calling, caller
  <2> QED
    BY <2>1, <2>2, <2>3, <2>4 DEF Closer
<1> QED
  BY <1>1, <1>9, <1>10, <1>11, <1>12

\* The device.
LEMMA ClientSignals ==
  ASSUME ClientInv, Signal \/ Invalidate
  PROVE  ClientInv'
<1>1. UNCHANGED <<opening, closing, cclosed, closeSet, mu, readers, caller>>
  BY DEF Signal, Invalidate
<1>2. EndpointInv' /\ SetUp' /\ Closing' /\ Flags'
  BY <1>1, ClientUntouched
<1>3. audio' \in BOOLEAN /\ gone' \in BOOLEAN /\ (gone => gone')
  BY DEF Signal, Invalidate, ClientInv, TypeOK
<1>4. TypeOK'
  BY <1>1, <1>2, <1>3 DEF ClientInv, TypeOK, EndpointInv, opening, closing, caller
<1>5. Calling'
  BY <1>1, <1>3 DEF ClientInv, Calling, opening, closing, caller
<1> QED
  BY <1>2, <1>4, <1>5 DEF ClientInv

LEMMA ClientStep == ClientInv /\ [Next]_vars => ClientInv'
<1> SUFFICES ASSUME ClientInv, [Next]_vars PROVE ClientInv'
  OBVIOUS
<1>1. CASE Open
  BY <1>1, ClientFinds, ClientOpens, ClientRefused
<1>2. CASE (\E kind \in {"Start", "Read"} : Begin(kind)) \/ Reader \/ WaitFails
  BY <1>2, ClientReads
<1>3. CASE \E c \in Closers : Close(c)
  BY <1>3, ClientCloses
<1>4. CASE \E c \in Closers \cup {Opener} : Closer(c)
  BY <1>4, ClientReleases DEF Everyone
<1>5. CASE Signal \/ Invalidate
  BY <1>5, ClientSignals
<1>6. CASE UNCHANGED vars
  <2>1. EndpointInv' /\ SetUp' /\ Closing' /\ Flags'
    BY <1>6, ClientUntouched DEF vars, events
  <2> QED
    BY <1>6, <2>1 DEF ClientInv, TypeOK, EndpointInv, Calling, vars, opening, closing, events, caller
<1> QED
  BY <1>1, <1>2, <1>3, <1>4, <1>5, <1>6 DEF Next

\* Every behaviour of the client keeps its inductive invariant.
THEOREM ClientInvariant == Spec => []ClientInv
BY ClientBegins, ClientStep, PTL DEF Spec

\* The client's variables keep their types.
THEOREM ClientTypes == Spec => []TypeOK
<1>1. ClientInv => TypeOK
  BY DEF ClientInv
<1> QED
  BY <1>1, ClientInvariant, PTL

\* No reference is used after its release and no handle closed under a wait, for any
\* number of closers and however far Negotiate came.
THEOREM UsesStayLive == Spec => []UsesAreLive
<1>1. ClientInv => UsesAreLive
  <2> SUFFICES ASSUME ClientInv PROVE UsesAreLive
    OBVIOUS
  <2> USE DEF ClientInv
  <2>1. \A c \in Closers \cup {Opener} :
          /\ closer[c] \in {"swap", "drain", "release"} => fields = live
          /\ closer[c] = "handles" => fields = live /\ live \cap Com = {}
    BY DEF Closing, Everyone, Busy
  <2>2. /\ at = "starting" => "client" \in live
        /\ at = "fill" => Com \subseteq live
        /\ at = "wait" => Handles \subseteq live
    BY DEF Calling, Counted, Resources
  <2> QED
    BY <2>1, <2>2 DEF UsesAreLive
<1> QED
  BY <1>1, ClientInvariant, PTL

\* What Devices, Resolve, a failed Open and a finished Close took is released, whichever
\* call failed.
THEOREM NothingIsLeaked == Spec => []NothingLeaks
<1>1. ClientInv => NothingLeaks
  <2> SUFFICES ASSUME ClientInv PROVE NothingLeaks
    OBVIOUS
  <2> USE DEF ClientInv
  <2>1. task = "none" => refs = {}
    BY DEF EndpointInv, Held
  <2>2. ASSUME phase = "refused" PROVE live = {}
    BY <2>2, OpenerAssumption DEF Closing, Everyone, Busy
  <2>3. ASSUME cclosed, \A c \in Closers \cup {Opener} : closer[c] \in {"out", "done"} PROVE live = {}
    BY <2>3 DEF Closing, Everyone, Busy
  <2> QED
    BY <2>1, <2>2, <2>3 DEF NothingLeaks
<1> QED
  BY <1>1, ClientInvariant, PTL

-----------------------------------------------------------------------------
\* A step of the client is a step of the contract, or none of its business.
LEMMA ContractStep == ClientInv /\ [Next]_vars => [Contract!Next]_(Contract!vars)
<1> SUFFICES ASSUME ClientInv, [Next]_vars PROVE [Contract!Next]_(Contract!vars)
  OBVIOUS
<1> USE DEF ClientInv
<1>1. ASSUME UNCHANGED <<sclosed, gone, call, late, result>> PROVE UNCHANGED Contract!vars
  BY <1>1 DEF Contract!vars
<1>2. CASE Open
  BY <1>1, <1>2 DEF Open, Finding, Activate, FormatSupported, Initialize, Reactivate, CreateEvents, SetEventHandle,
                    GetCaptureClient, Refused, Gets, GiveUp, Opens, closing, events, caller
<1>3. ASSUME NEW kind \in {"Start", "Read"}, Begin(kind) PROVE Contract!Next
  BY <1>3 DEF Begin, closing, events, Contract!Next, Contract!Begin
<1>4. ASSUME NEW r \in Results, at # "idle", Return(r), UNCHANGED <<sclosed, gone>>,
             r = "ErrClosed" => sclosed, r = "ErrDeviceGone" => gone, late => r = "ErrClosed"
      PROVE  Contract!Next
  <2>1. r \in Contract!Results /\ call # "none"
    BY <1>4 DEF Results, Contract!Results, Calling
  <2>2. Contract!Return(r)
    BY <1>4, <2>1 DEF Return, Contract!Return
  <2> QED
    BY <2>1, <2>2 DEF Contract!Next
<1>5. CASE Enter
  <2>1. at = "entry" /\ UNCHANGED <<sclosed, gone>>
    BY <1>5 DEF Enter, closing, events
  <2>2. (sclosed /\ Return("ErrClosed")) \/ Goto("lockStart") \/ Goto("register")
    BY <1>5, ReturnEarly
  <2>3. CASE sclosed /\ Return("ErrClosed")
    BY <1>4, <2>1, <2>3 DEF Results
  <2> QED
    BY <1>1, <2>1, <2>2, <2>3 DEF Goto
<1>6. CASE Translate
  <2>1. UNCHANGED <<sclosed, gone>>
    BY <1>6 DEF Translate, closing, events
  <2>2. PICK r \in Results : /\ at = "translate" /\ Return(r)
                             /\ r = "ErrClosed" => sclosed
                             /\ r = "ErrDeviceGone" => gone
    BY <1>6, ReturnLate
  <2> QED
    BY <1>4, <2>1, <2>2 DEF Calling
<1>7. CASE LockStart \/ Started \/ Register \/ Check \/ Lock \/ Fill \/ Woken \/ WaitFails \/ Leave
  BY <1>1, <1>7 DEF LockStart, Started, Register, Check, Lock, Fill, Woken, WaitFails, Leave, Goto, Ends, closing, events
<1>8. ASSUME NEW c \in Closers, Close(c) PROVE [Contract!Next]_(Contract!vars)
  BY <1>1, <1>8 DEF Close, events, caller, TypeOK, Contract!Next, Contract!Close
<1>9. ASSUME NEW c \in Closers \cup {Opener}, Closer(c) PROVE UNCHANGED Contract!vars
  BY <1>1, <1>9 DEF Closer, Swap, Drain, Release, CloseHandles, closing, events, caller
<1>10. CASE Signal
  BY <1>1, <1>10 DEF Signal, closing, caller
<1>11. CASE Invalidate
  BY <1>11 DEF Invalidate, closing, caller, Contract!Next, Contract!Unplug
<1>12. CASE UNCHANGED vars
  BY <1>1, <1>12 DEF vars, closing, events, caller
<1> QED
  BY <1>2, <1>3, <1>5, <1>6, <1>7, <1>8, <1>9, <1>10, <1>11, <1>12 DEF Next, Reader

\* The Windows stream implements the contract of a capture stream: whatever a Read or a
\* Start meets, ErrClosed means closed and ErrDeviceGone means invalidated.
THEOREM StreamImplementsContract == Spec => ContractSpec
<1>1. Init => Contract!Init
  BY DEF Init, Contract!Init
<1> QED
  BY <1>1, ContractStep, ClientInvariant, PTL DEF Spec, ContractSpec, Contract!Spec

-----------------------------------------------------------------------------
Told ==
  task # "none" /\ task' = "none" =>
    /\ task = "Devices" /\ told'.result = "ok" => stayed \ missed \subseteq told'.of
    /\ asked \in Endpoints /\ told'.result \in Absent => asked \notin stayed \ missed
    /\ asked = Default /\ told'.result = "NotFound" => stayed = {}

\* A call that fails on the way says so, and never that an endpoint is absent,
LEMMA FailsTold == EndpointInv /\ Fails("EDRV") => Told
BY DEF Fails, Answer, Told, Absent

\* nor does one that reads a name.
LEMMA NamedTold ==
  ASSUME EndpointInv, place \in {"store", "value"}, Named
  PROVE  Told
<1>1. CASE Lists
  BY <1>1 DEF Named, To, Told
<1>2. CASE ~ Lists
  BY <1>2 DEF Named, Answer, Told, Absent, Lists
<1> QED
  BY <1>1, <1>2

\* A call that says so of an endpoint has not found it in a complete list, or has it from
\* GetDevice or Activate that it is not there.
LEMMA EndpointsTold ==
  ASSUME EndpointInv, Enumerate \/ Activated
  PROVE  Told
<1> USE DEF EndpointInv
<1>1. CASE Fails("EDRV")
  BY <1>1, FailsTold
<1>2. ASSUME NEW p, NEW held, To(p, held) PROVE Told
  BY <1>2 DEF To, Told
<1>3. CASE CreateEnumerator \/ EnumEndpoints \/ CollectionCount \/ CollectionItem
  BY <1>1, <1>2, <1>3 DEF CreateEnumerator, EnumEndpoints, CollectionCount, CollectionItem
<1>4. CASE DeviceId
  BY <1>1, <1>2, <1>4 DEF DeviceId
<1>5. CASE OpenPropertyStore \/ GetValue
  BY <1>2, <1>5, NamedTold DEF OpenPropertyStore, GetValue
<1>6. CASE Listed
  <2>1. task = "Devices" \/ (task = "Resolve" /\ asked # Default)
    BY <1>6 DEF Listed, Lists
  <2>2. stayed \ missed \subseteq listed
    BY <1>6 DEF Listed, InHand
  <2>3. CASE task = "Devices"
    BY <1>6, <2>2, <2>3 DEF Listed, Answer, Told, Absent
  <2>4. CASE task # "Devices"
    BY <1>6, <2>1, <2>2, <2>4 DEF Listed, Fails, Answer, Told, Absent
  <2> QED
    BY <2>3, <2>4
<1>7. CASE ResolveDevice
  <2>1. asked # Default /\ asked \notin active => asked \notin stayed
    OBVIOUS
  <2>2. active = {} => stayed = {}
    OBVIOUS
  <2>3. task \in {"Resolve", "Open"}
    BY <1>7 DEF ResolveDevice, Lists, EndpointTypes
  <2> QED
    BY <1>1, <1>2, <1>7, <2>1, <2>2, <2>3, EndpointAssumption DEF ResolveDevice, Fails, Answer, Told, Absent
<1>8. CASE ActivateFails \/ Activated
  <2>1. asked \in Endpoints => dev = asked
    BY <1>8, EndpointAssumption DEF ActivateFails, Activated
  <2> QED
    BY <1>8, <2>1 DEF ActivateFails, Activated, Answer, Told, Absent
<1> QED
  BY <1>3, <1>4, <1>5, <1>6, <1>7, <1>8 DEF Enumerate

\* Devices lists what was there from beginning to end and could be read, and neither
\* Resolve nor Open calls such an endpoint absent.
THEOREM EndpointsStayTold == Spec => EndpointsAreTold
<1>1. ClientInv /\ [Next]_vars => [Told]_endpoints
  <2> SUFFICES ASSUME ClientInv, [Next]_vars, ~ UNCHANGED endpoints PROVE Told
    OBVIOUS
  <2>1. ~ UNCHANGED opening
    BY DEF opening
  <2>2. ~ UNCHANGED vars
    BY <2>1 DEF vars
  <2>3. Open
    BY <2>1, <2>2 DEF Next, Begin, Reader, Enter, LockStart, Started, Register, Check, Lock, Fill, Woken, WaitFails,
                      Leave, Translate, Close, Closer, Swap, Drain, Release, CloseHandles, Signal, Invalidate, opening
  <2>4. Finding \/ Activate
    BY <2>3 DEF Open, FormatSupported, Initialize, Reactivate, CreateEvents, SetEventHandle, GetCaptureClient, Refused,
                Gets, GiveUp, Opens
  <2>5. CASE Enumerate \/ Activated
    BY <2>5, EndpointsTold DEF ClientInv
  <2>6. CASE \E e \in Endpoints : Come(e) \/ Go(e)
    BY <2>6 DEF Come, Go, Told
  <2>7. CASE Ask("Devices", Nothing) \/ \E kind \in {"Resolve", "Open"}, id \in Endpoints \cup {Default} : Ask(kind, id)
    BY <2>7 DEF Ask, Told
  <2> QED
    BY <2>4, <2>5, <2>6, <2>7 DEF Finding, Activate
<1>2. ASSUME [Told]_endpoints
      PROVE  [task # "none" /\ task' = "none" =>
                /\ task = "Devices" /\ told'.result = "ok" => stayed \ missed \subseteq told'.of
                /\ asked \in Endpoints /\ told'.result \in Absent => asked \notin stayed \ missed
                /\ asked = Default /\ told'.result = "NotFound" => stayed = {}]_endpoints
  BY <1>2 DEF Told
<1> QED
  BY <1>1, <1>2, ClientInvariant, PTL DEF Spec, EndpointsAreTold
-----------------------------------------------------------------------------
\* Where the high-water mark, the carry and the frames returned stand.  Until
\* the position moves the caller may have been given frames again, so the carry
\* may lag behind the newest frame; from then on it continues it exactly.
FillInv ==
  /\ FillTypeOK
  /\ carry = NoFrames \/ (carry.lo < carry.hi /\ carry.lo <= cursor)
  /\ ~ havePos => head = 0 /\ nextPos = 0 /\ cursor = 0 /\ carry = NoFrames /\ ~ posLive
  /\ havePos /\ Moving => nextPos = head
  /\ posLive => Moving
  /\ (posLive \/ ~ Moving) /\ carry # NoFrames => carry.lo = cursor
  /\ want > 0 => ~ failed
  /\ NothingHeldBack

\* The drivers the code is written for: their position moves, or stands still under
\* packets of one size.
Understood == \A d \in Drivers : d.moving \/ \A m, n \in d.sizes : m = n

\* With such packets the mark a still position leaves is that size.
StillInv == ~ Moving /\ havePos => nextPos \in Sizes

-----------------------------------------------------------------------------
\* Runs, and what is left of one.
LEMMA RunType ==
  /\ NoFrames \in Runs /\ NoFrames.lo = 0 /\ NoFrames.hi = 0
  /\ \A r \in Runs : r.lo \in Nat /\ r.hi \in Nat /\ r.lo <= r.hi
<1>1. NoFrames \in Runs /\ NoFrames.lo = 0 /\ NoFrames.hi = 0
  BY DEF NoFrames, Run, Runs
<1>2. \A r \in Runs : r.lo \in Nat /\ r.hi \in Nat /\ r.lo <= r.hi
  BY DEF Runs
<1> QED
  BY <1>1, <1>2

LEMMA RunFacts ==
  ASSUME NEW lo \in Nat, NEW hi \in Nat
  PROVE  /\ Run(lo, hi).lo = lo /\ Run(lo, hi).hi = hi
         /\ lo <= hi => Run(lo, hi) \in Runs
         /\ Rest(lo, hi) \in Runs
         /\ lo < hi => Rest(lo, hi).lo = lo /\ Rest(lo, hi).hi = hi
         /\ lo < hi => Rest(lo, hi) # NoFrames
         /\ ~ lo < hi => Rest(lo, hi) = NoFrames
<1>1. Run(lo, hi).lo = lo /\ Run(lo, hi).hi = hi
  BY DEF Run
<1>2. lo <= hi => Run(lo, hi) \in Runs
  BY DEF Run, Runs
<1>3. lo < hi => Rest(lo, hi) = Run(lo, hi) /\ Run(lo, hi) # NoFrames
  BY <1>1, RunType DEF Rest
<1>4. ~ lo < hi => Rest(lo, hi) = NoFrames
  BY DEF Rest
<1> QED
  BY <1>1, <1>2, <1>3, <1>4, RunType

LEMMA FillStarts == FillInit => FillInv /\ StillInv
<1> SUFFICES ASSUME FillInit PROVE FillInv /\ StillInv
  OBVIOUS
<1>1. FillTypeOK
  BY RunType, RunFacts DEF FillInit, FillTypeOK
<1>2. NothingHeldBack
  BY RunType, RunFacts DEF FillInit, NothingHeldBack, Served, Greater
<1> QED
  BY <1>1, <1>2 DEF FillInit, FillInv, StillInv

\* What a packet is, arithmetic apart.
LEMMA PacketFacts ==
  ASSUME FillTypeOK, NEW p \in Packets
  PROVE  /\ p.first \in Nat /\ p.frames \in Nat /\ p.frames > 0 /\ p.flag \in BOOLEAN
         /\ p.frames \in Sizes
         /\ ~ Moving => p.first = head
<1>1. p.first \in 0 .. head + MaxGap /\ p.frames \in Sizes /\ p.flag \in BOOLEAN
  BY DEF Packets
<1>2. ~ Moving => p.first = head
  BY DEF Packets
<1>3. p.first \in Nat
  BY <1>1, DriverAssumption DEF FillTypeOK
<1>4. \A n \in Sizes : n \in Nat /\ n > 0
  BY DriverAssumption DEF FillTypeOK, Sizes
<1> QED
  BY <1>1, <1>2, <1>3, <1>4

\* The overlap a moving position shows, and the mark it leaves.
LEMMA SkipFacts ==
  ASSUME FillTypeOK, NEW p \in Packets
  PROVE  /\ Skip(p) \in Nat /\ Skip(p) <= p.frames
         /\ End(p) \in Nat
         /\ Armed(p) /\ Moving => p.first + Skip(p) >= nextPos \/ Skip(p) = p.frames
         /\ Armed(p) /\ Moving /\ ~ Gap(p) => p.first + Skip(p) <= nextPos
         /\ ~ Armed(p) => Skip(p) = 0
BY PacketFacts DEF FillTypeOK, Skip, Armed, Gap, Lesser, devPos, End

-----------------------------------------------------------------------------
\* The steps that take no packet.
LEMMA QuietSteps ==
  ASSUME FillInv, StillInv,
         \/ \E b \in Buffers : BeginRead(b)
         \/ FromCarry \/ GetFails \/ GetsNothing
         \/ UNCHANGED fillVars
  PROVE  FillInv' /\ StillInv'
<1> USE DEF FillInv, StillInv
<1>0. driver' = driver /\ Moving' = Moving /\ Sizes' = Sizes
  BY DEF BeginRead, FromCarry, GetFails, GetsNothing, fillVars, Moving, Sizes
<1> USE <1>0
<1>1. CASE \E b \in Buffers : BeginRead(b)
  <2>1. PICK b \in Buffers : BeginRead(b)
    BY <1>1
  <2>2. FillTypeOK'
    BY <2>1 DEF BeginRead, FillTypeOK
  <2>3. NothingHeldBack'
    BY <2>1 DEF BeginRead, NothingHeldBack, Served
  <2> QED
    BY <2>1, <2>2, <2>3 DEF BeginRead
<1>2. CASE FromCarry
  <2>1. /\ carry.lo \in Nat /\ carry.hi \in Nat /\ want \in Nat /\ want > 0
        /\ carry.lo + want \in Nat /\ carry.lo + want <= carry.hi /\ cursor \in Nat /\ head \in Nat
    BY <1>2, RunType, RunFacts, DriverAssumption DEF FromCarry, FillTypeOK, Size
  <2>2. carry # NoFrames
    BY <2>1, RunType, RunFacts
  <2> DEFINE old == Run(carry.lo, carry.lo + want)
  <2>3. /\ old \in Runs /\ old.hi = carry.lo + want
        /\ carry' = Rest(carry.lo + want, carry.hi) /\ carry' \in Runs
    BY <1>2, <2>1, RunType, RunFacts DEF FromCarry
  <2>4. cursor' = Greater(cursor, carry.lo + want) /\ cursor' \in Nat
    BY <1>2, <2>1, <2>3, RunType, RunFacts DEF FromCarry, Deliver, Greater
  <2>5. FillTypeOK'
    <3>1. read' \in [old : Runs, new : Runs, xrun : BOOLEAN]
      BY <1>2, <2>3, RunType, RunFacts DEF FromCarry, Deliver
    <3> QED
      BY <1>2, <2>3, <2>4, <3>1 DEF FromCarry, Deliver, FillTypeOK
  <2>6. carry' = NoFrames \/ (carry'.lo = carry.lo + want /\ carry'.hi = carry.hi /\ carry'.lo < carry'.hi)
    BY <2>1, <2>3, RunType, RunFacts
  <2>7. carry' = NoFrames => carry.lo + want = carry.hi
    <3>1. carry.lo + want < carry.hi => carry' # NoFrames
      BY <2>1, <2>3, RunType, RunFacts
    <3> QED
      BY <2>1, <3>1
  <2>8. NothingHeldBack'
    BY <1>2, <2>1, <2>4, <2>6, <2>7, RunType, RunFacts DEF FromCarry, NothingHeldBack, Served, Greater
  <2> QED
    BY <1>2, <2>1, <2>2, <2>4, <2>5, <2>6, <2>8 DEF FromCarry, Deliver, Greater
<1>3. CASE GetFails
  <2>1. /\ carry.lo \in Nat /\ carry.hi \in Nat /\ cursor \in Nat /\ head \in Nat
        /\ NoFrames.hi = 0 /\ NoFrames \in Runs
    BY RunType DEF FillTypeOK
  <2>2. cursor' = Greater(cursor, carry.hi) /\ cursor' \in Nat /\ carry' = NoFrames /\ want' = 0 /\ failed' = TRUE
    BY <1>3, <2>1 DEF GetFails, Greater
  <2>3. FillTypeOK'
    BY <1>3, <2>1, <2>2 DEF GetFails, FillTypeOK
  <2>4. NothingHeldBack'
    BY <1>3, <2>1, <2>2 DEF GetFails, NothingHeldBack, Served, Greater
  <2>5. ~ havePos' => head' = 0 /\ nextPos' = 0 /\ cursor' = 0 /\ carry' = NoFrames /\ ~ posLive'
    BY <1>3, <2>1, <2>2 DEF GetFails, Greater
  <2> QED
    BY <1>3, <2>2, <2>3, <2>4, <2>5 DEF GetFails
<1>4. CASE GetsNothing
  <2>1. CASE carry = NoFrames
    BY <1>4, <2>1, RunType, RunFacts DEF GetsNothing, Wait, FillTypeOK, NothingHeldBack, Served
  <2>2. CASE carry # NoFrames
    <3>1. /\ carry.lo \in Nat /\ carry.hi \in Nat /\ cursor \in Nat /\ head \in Nat
      BY RunType, RunFacts DEF FillTypeOK
    <3>2. cursor' = Greater(cursor, carry.hi) /\ cursor' \in Nat /\ carry' = NoFrames
      BY <1>4, <2>2, <3>1, RunType, RunFacts DEF GetsNothing, Deliver, Greater
    <3>3. FillTypeOK'
      <4>1. read' \in [old : Runs, new : Runs, xrun : BOOLEAN]
        <5>1. read' = [old |-> carry, new |-> NoFrames, xrun |-> FALSE]
          BY <1>4, <2>2 DEF GetsNothing, Deliver
        <5> QED
          BY <5>1, RunType, RunFacts DEF FillTypeOK
      <4> QED
        BY <1>4, <2>2, <3>2, <4>1, RunType, RunFacts DEF GetsNothing, Deliver, FillTypeOK
    <3>4. NothingHeldBack'
      BY <1>4, <3>1, <3>2, RunType, RunFacts DEF GetsNothing, NothingHeldBack, Served, Greater
    <3> QED
      BY <1>4, <2>2, <3>2, <3>3, <3>4 DEF GetsNothing, Deliver
  <2> QED
    BY <2>1, <2>2
<1>5. CASE UNCHANGED fillVars
  BY <1>5 DEF fillVars, FillTypeOK, NothingHeldBack, Served
<1> QED
  BY <1>1, <1>2, <1>3, <1>4, <1>5

-----------------------------------------------------------------------------
\* A packet against a position that stands still arms nothing and skips nothing.
LEMMA StillPacket ==
  ASSUME FillInv, StillInv, Understood, NEW p \in Packets, ~ Moving
  PROVE  ~ Arms(p) /\ ~ Armed(p) /\ Skip(p) = 0 /\ ~ Gap(p)
<1>1. havePos => End(p) = nextPos
  <2>1. p.frames \in Sizes /\ (havePos => nextPos \in Sizes)
    BY PacketFacts DEF FillInv, StillInv
  <2>2. p.frames \in Nat /\ \A m, n \in Sizes : m = n
    BY PacketFacts DEF Understood, FillInv, FillTypeOK, Moving, Sizes
  <2>3. End(p) = p.frames
    BY <2>2 DEF End, devPos
  <2> QED
    BY <2>1, <2>2, <2>3
<1>2. ~ Arms(p)
  BY <1>1 DEF Arms, FillInv, FillTypeOK
<1>3. ~ Armed(p)
  BY <1>2 DEF Armed, FillInv
<1> QED
  BY <1>2, <1>3 DEF Skip, Gap

\* What a fill makes of packet p: the room left in the buffer, the frames copied
\* into it, and where the packet stands to what was served before.
Start(p)  == p.first + Skip(p)
Stop(p)   == p.first + p.frames
Copied(p) == Lesser(p.frames - Skip(p), want - Size(carry))

LEMMA TakeNumbers ==
  ASSUME FillInv, NEW p \in Packets, Asks
  PROVE  /\ Start(p) \in Nat /\ Stop(p) \in Nat /\ Copied(p) \in Nat /\ End(p) \in Nat
         /\ Start(p) + Copied(p) \in Nat /\ Start(p) + Copied(p) <= Stop(p)
         /\ Start(p) + Copied(p) < Stop(p) => Copied(p) > 0
         /\ Copied(p) = 0 => Skip(p) = p.frames /\ Skip(p) > 0 /\ Start(p) = Stop(p)
         /\ carry.lo \in Nat /\ carry.hi \in Nat /\ carry.lo <= carry.hi /\ Size(carry) \in Nat
         /\ Size(carry) = 0 <=> carry = NoFrames
         /\ want > 0 /\ ~ failed
         /\ cursor \in Nat /\ head \in Nat /\ nextPos \in Nat /\ p.first \in Nat /\ p.frames \in Nat
<1>1. /\ carry.lo \in Nat /\ carry.hi \in Nat /\ carry.lo <= carry.hi /\ Size(carry) \in Nat
      /\ Size(carry) = 0 <=> carry = NoFrames
  BY RunType DEF FillInv, FillTypeOK, Size
<1>2. want \in Nat /\ want - Size(carry) \in Nat /\ want - Size(carry) > 0 /\ want > 0
  BY <1>1, DriverAssumption DEF FillInv, FillTypeOK, Asks
<1>3. p.first \in Nat /\ p.frames \in Nat /\ p.frames > 0 /\ Skip(p) \in Nat /\ Skip(p) <= p.frames
      /\ End(p) \in Nat
  BY PacketFacts, SkipFacts DEF FillInv
<1>4. Copied(p) \in Nat /\ Copied(p) <= p.frames - Skip(p)
      /\ (Copied(p) = 0 => Skip(p) = p.frames)
      /\ (Copied(p) < p.frames - Skip(p) => Copied(p) > 0)
  BY <1>2, <1>3 DEF Copied, Lesser
<1> QED
  BY <1>1, <1>2, <1>3, <1>4 DEF Start, Stop, FillInv, FillTypeOK

\* An armed fill copies nothing that was served before.
LEMMA FreshFrames ==
  ASSUME FillInv, StillInv, Understood, NEW p \in Packets, Asks, Armed(p)
  PROVE  Copied(p) > 0 => Start(p) >= Served
<1>1. Moving
  BY StillPacket
<1>2. ~ failed
  BY TakeNumbers
<1>3. Served = nextPos
  BY <1>1, <1>2 DEF FillInv, NothingHeldBack, Armed
<1> QED
  BY <1>1, <1>3, SkipFacts, TakeNumbers DEF Start, FillInv, Stop

\* A fill that sees no gap starts its packet where the frames served end, or before.
LEMMA NoFrameLeftOut ==
  ASSUME FillInv, StillInv, Understood, NEW p \in Packets, Asks, havePos, ~ failed, ~ Gap(p), Copied(p) > 0
  PROVE  Start(p) <= Served
<1>1. Served = head
  BY DEF FillInv, NothingHeldBack
<1>2. CASE ~ Moving
  BY <1>1, <1>2, StillPacket, PacketFacts DEF Start, FillInv, FillTypeOK
<1>3. CASE Moving /\ Armed(p)
  BY <1>1, <1>3, SkipFacts DEF Start, FillInv
<1>4. CASE Moving /\ ~ Armed(p)
  <2>1. End(p) <= nextPos
    BY <1>4, TakeNumbers DEF Armed, Arms
  <2> QED
    BY <1>1, <1>4, <2>1, SkipFacts, TakeNumbers, PacketFacts DEF Start, End, devPos, FillInv
<1> QED
  BY <1>2, <1>3, <1>4

-----------------------------------------------------------------------------
LEMMA TakeStep ==
  ASSUME FillInv, StillInv, Understood, NEW p \in Packets, Take(p)
  PROVE  FillInv' /\ StillInv'
<1>1. Asks
  BY DEF Take
<1>0. driver' = driver /\ Moving' = Moving /\ Sizes' = Sizes
  BY DEF Take, Moving, Sizes
<1>2. ~ failed /\ ~ failed'
  BY <1>1, TakeNumbers DEF Take
<1> DEFINE new == Rest(Start(p), Start(p) + Copied(p))
<1>3. /\ carry' = Rest(Start(p) + Copied(p), Stop(p))
      /\ \/ /\ Size(carry) + Copied(p) > 0 /\ want' = 0
            /\ cursor' = Greater(cursor, Greater(carry.hi, new.hi))
            /\ read' = [old |-> carry, new |-> new, xrun |-> p.flag \/ Gap(p)]
         \/ /\ ~ Size(carry) + Copied(p) > 0
            /\ want' = want /\ cursor' = cursor /\ read' = read
      /\ nextPos' = IF ~ havePos \/ End(p) > nextPos THEN End(p) ELSE nextPos
      /\ havePos' /\ posLive' = (posLive \/ Arms(p))
      /\ head' = Greater(head, Stop(p)) /\ flagged' = (flagged \/ p.flag)
  BY DEF Take, Deliver, Wait, Start, Stop, Copied, Mark
<1>4. new \in Runs /\ new.hi = IF Copied(p) > 0 THEN Start(p) + Copied(p) ELSE 0
  BY <1>1, TakeNumbers, RunFacts, RunType
<1>5. /\ carry' \in Runs
      /\ \/ carry' = NoFrames /\ carry'.hi = 0 /\ Start(p) + Copied(p) = Stop(p)
         \/ /\ carry' # NoFrames /\ carry'.lo = Start(p) + Copied(p) /\ carry'.hi = Stop(p)
            /\ carry'.lo < carry'.hi /\ Copied(p) > 0
  <2> DEFINE a == Start(p) + Copied(p)
             b == Stop(p)
  <2>1. a \in Nat /\ b \in Nat /\ a <= b /\ (a < b => Copied(p) > 0) /\ carry' = Rest(a, b)
    BY <1>1, <1>3, TakeNumbers
  <2> HIDE DEF a, b
  <2>2. Rest(a, b) \in Runs /\ (a < b => Rest(a, b).lo = a /\ Rest(a, b).hi = b /\ Rest(a, b) # NoFrames)
        /\ (~ a < b => Rest(a, b) = NoFrames)
    BY <2>1, RunFacts
  <2>3. /\ carry' \in Runs
        /\ \/ carry' = NoFrames /\ carry'.hi = 0 /\ a = b
           \/ /\ carry' # NoFrames /\ carry'.lo = a /\ carry'.hi = b
              /\ carry'.lo < carry'.hi /\ Copied(p) > 0
    BY <2>1, <2>2, RunType
  <2> QED
    BY <2>3 DEF a, b
<1>6. cursor' = Greater(cursor, Greater(carry.hi, IF Copied(p) > 0 THEN Start(p) + Copied(p) ELSE 0))
      /\ cursor' \in Nat
  <2>1. CASE Size(carry) + Copied(p) > 0
    BY <1>1, <1>3, <1>4, <2>1, TakeNumbers DEF Greater
  <2>2. CASE ~ Size(carry) + Copied(p) > 0
    <3>1. Size(carry) = 0 /\ Copied(p) = 0 /\ carry = NoFrames /\ cursor' = cursor
      BY <1>1, <1>3, <2>2, TakeNumbers
    <3> QED
      BY <1>1, <3>1, TakeNumbers, RunType DEF Greater
  <2> QED
    BY <2>1, <2>2
<1>7. FillTypeOK'
  <2>1. read' \in [old : Runs, new : Runs, xrun : BOOLEAN]
    BY <1>1, <1>3, <1>4, PacketFacts DEF FillInv, FillTypeOK, Gap, Armed
  <2>2. head' \in Nat /\ nextPos' \in Nat /\ want' \in Buffers \cup {0}
    BY <1>1, <1>3, TakeNumbers DEF FillInv, FillTypeOK, Greater
  <2>3. havePos' \in BOOLEAN /\ posLive' \in BOOLEAN /\ flagged' \in BOOLEAN /\ failed' \in BOOLEAN
    BY <1>2, <1>3, PacketFacts DEF Take, FillInv, FillTypeOK, Arms
  <2> QED
    BY <1>0, <1>5, <1>6, <2>1, <2>2, <2>3 DEF FillTypeOK, FillInv
<1>8. NothingHeldBack'
  <2>1. Copied(p) = 0 => Stop(p) <= head
    <3> SUFFICES ASSUME Copied(p) = 0 PROVE Stop(p) <= head
      OBVIOUS
    <3>1. Skip(p) = p.frames /\ Skip(p) > 0
      BY <1>1, TakeNumbers
    <3>2. Moving /\ Armed(p) /\ p.first < nextPos /\ Skip(p) <= nextPos - p.first
      BY <1>1, <3>1, StillPacket, TakeNumbers DEF Skip, devPos, Lesser
    <3> QED
      BY <1>1, <3>1, <3>2, TakeNumbers DEF Stop, FillInv, Armed
  <2>2. Greater(cursor, carry.hi) = head
    BY <1>2 DEF FillInv, NothingHeldBack, Served
  <2>3. Greater(cursor', carry'.hi) = Greater(head, Stop(p))
    BY <1>1, <1>5, <1>6, <2>1, <2>2, TakeNumbers DEF Greater
  <2> QED
    BY <1>3, <2>3 DEF NothingHeldBack, Served
<1>9. carry' = NoFrames \/ (carry'.lo < carry'.hi /\ carry'.lo <= cursor')
  BY <1>1, <1>5, <1>6, TakeNumbers DEF Greater
<1>10. Moving => nextPos' = head'
  BY <1>1, <1>3, TakeNumbers DEF FillInv, End, devPos, Stop, Greater
<1>11. posLive' => Moving
  BY <1>3, StillPacket DEF FillInv
<1>12. (posLive' \/ ~ Moving) /\ carry' # NoFrames => carry'.lo = cursor'
  <2> SUFFICES ASSUME posLive' \/ ~ Moving, carry' # NoFrames PROVE carry'.lo = cursor'
    OBVIOUS
  <2>1. Copied(p) > 0
    BY <1>5
  <2>2. Start(p) >= Greater(cursor, carry.hi)
    <3>1. CASE Moving
      <4>1. Armed(p)
        BY <1>3, <3>1 DEF Armed, Arms, FillInv
      <4> QED
        BY <1>1, <2>1, <4>1, FreshFrames DEF Served
    <3>2. CASE ~ Moving
      <4>1. Start(p) = p.first + 0 /\ p.first = head /\ head \in Nat
        BY <3>2, StillPacket, PacketFacts DEF Start, FillInv, FillTypeOK
      <4> QED
        BY <1>2, <4>1 DEF FillInv, NothingHeldBack, Served
    <3> QED
      BY <3>1, <3>2
  <2> QED
    BY <1>1, <1>5, <1>6, <2>1, <2>2, TakeNumbers DEF Greater
<1>13. StillInv'
  BY <1>0, <1>1, <1>3, PacketFacts DEF StillInv, End, devPos, FillInv
<1> QED
  BY <1>0, <1>2, <1>3, <1>7, <1>8, <1>9, <1>10, <1>11, <1>12, <1>13 DEF FillInv

-----------------------------------------------------------------------------
LEMMA FillStep ==
  ASSUME Understood, FillInv, StillInv, [FillNext]_fillVars
  PROVE  FillInv' /\ StillInv'
<1>1. CASE \E p \in Packets : Take(p)
  BY <1>1, TakeStep
<1> QED
  BY <1>1, QuietSteps DEF FillNext

LEMMA FillAlways == ASSUME Understood PROVE FillSpec => [](FillInv /\ StillInv)
<1>1. FillInit => FillInv /\ StillInv
  BY FillStarts
<1>2. (FillInv /\ StillInv) /\ [FillNext]_fillVars => (FillInv /\ StillInv)'
  BY FillStep
<1> QED
  BY <1>1, <1>2, PTL DEF FillSpec

\* Types, for every driver the code is written for and every buffer size.
THEOREM FillTypes == ASSUME Understood PROVE FillSpec => []FillTypeOK
<1>1. FillInv => FillTypeOK
  BY DEF FillInv
<1> QED
  BY <1>1, FillAlways, PTL

\* fill and its carry lose no frame: what Reads returned, or dropped with an error they
\* returned, and what the carry holds reach exactly to what the device presented.
THEOREM NoFrameIsLost == ASSUME Understood PROVE FillSpec => []NothingHeldBack
<1>1. FillInv => NothingHeldBack
  BY DEF FillInv
<1> QED
  BY <1>1, FillAlways, PTL

-----------------------------------------------------------------------------
\* The three ways a Read returns frames.
LEMMA ReturnedRuns ==
  ASSUME FillInv, StillInv, Understood, FillNext, Returned
  PROVE  /\ ~ failed
         /\ read'.old = carry \/ (carry # NoFrames /\ read'.old.lo = carry.lo)
         /\ \/ read'.new = NoFrames
            \/ \E p \in Packets : /\ Take(p) /\ Asks /\ Copied(p) > 0
                                  /\ read'.old = carry /\ read'.new.lo = Start(p)
                                  /\ read'.xrun = (p.flag \/ Gap(p))
<1>1. ~ failed
  BY DriverAssumption DEF Returned, FillInv, FillTypeOK
<1>2. want \in Nat /\ want > 0 /\ want' = 0
  BY DriverAssumption DEF Returned, FillInv, FillTypeOK
<1>3. CASE \E b \in Buffers : BeginRead(b)
  BY <1>2, <1>3 DEF BeginRead
<1>4. CASE FromCarry
  <2>1. carry.lo \in Nat /\ carry.hi \in Nat /\ carry.lo + want \in Nat /\ carry.lo < carry.hi
    BY <1>2, <1>4, RunType DEF FromCarry, FillInv, FillTypeOK, Size
  <2>2. read'.old = Run(carry.lo, carry.lo + want) /\ read'.new = NoFrames
    BY <1>4 DEF FromCarry, Deliver
  <2> QED
    BY <1>1, <2>1, <2>2, RunFacts, RunType
<1>5. CASE GetFails
  BY <1>5 DEF GetFails, Returned
<1>6. CASE GetsNothing
  BY <1>1, <1>2, <1>6 DEF GetsNothing, Wait, Deliver
<1>7. CASE \E p \in Packets : Take(p)
  <2>1. PICK p \in Packets : Take(p)
    BY <1>7
  <2>2. Asks
    BY <2>1 DEF Take
  <2>3. read' = [old |-> carry, new |-> Rest(Start(p), Start(p) + Copied(p)), xrun |-> p.flag \/ Gap(p)]
    BY <1>2, <2>1 DEF Take, Deliver, Wait, Start, Copied
  <2>4. Copied(p) > 0 => read'.new.lo = Start(p)
    BY <2>2, <2>3, TakeNumbers, RunFacts
  <2>5. ~ Copied(p) > 0 => read'.new = NoFrames
    BY <2>2, <2>3, TakeNumbers, RunFacts
  <2> QED
    BY <1>1, <2>1, <2>2, <2>3, <2>4, <2>5
<1> QED
  BY <1>3, <1>4, <1>5, <1>6, <1>7 DEF FillNext

\* No frame is returned twice once the position has moved, nor from a driver whose
\* position stands still, by Reads that succeed or fail in any order.
THEOREM NoFrameReturnsTwice == ASSUME Understood PROVE FillSpec => NoneTwice
<1>1. ASSUME FillInv /\ StillInv, [FillNext]_fillVars
      PROVE  [Returned /\ (posLive \/ ~ Moving) => InOrder(read')]_fillVars
  <2> SUFFICES ASSUME FillNext, Returned, posLive \/ ~ Moving
               PROVE  InOrder(read')
    BY <1>1
  <2>1. FillInv /\ StillInv
    BY <1>1
  <2>2. carry # NoFrames => carry.lo = cursor /\ cursor \in Nat
    BY <2>1 DEF FillInv, FillTypeOK
  <2>3. read'.old # NoFrames => read'.old.lo >= cursor
    BY <2>1, <2>2, ReturnedRuns
  <2>4. read'.new # NoFrames => read'.new.lo >= Greater(cursor, read'.old.hi)
    <3> SUFFICES ASSUME read'.new # NoFrames PROVE read'.new.lo >= Greater(cursor, read'.old.hi)
      OBVIOUS
    <3>1. PICK p \in Packets : /\ Asks /\ Copied(p) > 0
                                /\ read'.old = carry /\ read'.new.lo = Start(p)
      BY <2>1, ReturnedRuns
    <3>2. CASE posLive
      <4>1. Armed(p)
        BY <2>1, <3>2 DEF Armed, FillInv
      <4> QED
        BY <2>1, <3>1, <4>1, FreshFrames DEF Served
    <3>3. CASE ~ Moving
      <4>1. Start(p) = p.first + 0 /\ p.first = head /\ head \in Nat
        BY <2>1, <3>3, StillPacket, PacketFacts DEF Start, FillInv, FillTypeOK
      <4> QED
        BY <2>1, <3>1, <4>1 DEF FillInv, NothingHeldBack, Served
    <3> QED
      BY <3>2, <3>3
  <2> QED
    BY <2>3, <2>4 DEF InOrder
<1> QED
  BY <1>1, FillAlways, PTL DEF FillSpec, NoneTwice

\* Frames the device dropped make the Read that skips them an xrun.
THEOREM JumpsAreCounted == ASSUME Understood PROVE FillSpec => JumpsAreXruns
<1>1. ASSUME FillInv /\ StillInv, [FillNext]_fillVars
      PROVE  [Returned /\ havePos => read'.xrun \/ Gapless(read')]_fillVars
  <2> SUFFICES ASSUME FillNext, Returned, havePos, ~ read'.xrun
               PROVE  Gapless(read')
    BY <1>1
  <2>1. FillInv /\ StillInv
    BY <1>1
  <2>2. carry # NoFrames => carry.lo <= cursor
    BY <2>1 DEF FillInv
  <2>3. read'.old # NoFrames => read'.old.lo <= cursor
    BY <2>1, <2>2, ReturnedRuns
  <2>4. read'.new # NoFrames => read'.new.lo <= Greater(cursor, read'.old.hi)
    <3> SUFFICES ASSUME read'.new # NoFrames PROVE read'.new.lo <= Greater(cursor, read'.old.hi)
      OBVIOUS
    <3>1. PICK p \in Packets : /\ Asks /\ Copied(p) > 0 /\ ~ failed /\ ~ Gap(p)
                                /\ read'.old = carry /\ read'.new.lo = Start(p)
      BY <2>1, ReturnedRuns
    <3> QED
      BY <2>1, <3>1, NoFrameLeftOut DEF Served
  <2> QED
    BY <2>3, <2>4 DEF Gapless
<1> QED
  BY <1>1, FillAlways, PTL DEF FillSpec, JumpsAreXruns
=============================================================================
