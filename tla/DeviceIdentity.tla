--------------------------- MODULE DeviceIdentity ---------------------------
(***************************************************************************)
(* From a device id to an open handle (deviceid_linux.go, and the open     *)
(* paths of stream_linux.go, capabilities_linux.go and controls_linux.go): *)
(* the cards are enumerated and identified from sysfs one after another,   *)
(* the id is matched, the node of the card index it was found at is        *)
(* opened, and the identity of whatever holds that index by then is read   *)
(* again.  Units are unplugged, moved and plugged in between any two steps.*)
(***************************************************************************)
EXTENDS FiniteSets, Integers

CONSTANTS Units,     \* sound devices, plugged in or not
          Desc,      \* of each: usb or not, its model (vid:pid and interface, or the
                     \* kernel card id, or None), and the serial it reports
          Cards,     \* card indices
          Ports,     \* USB ports
          NoSerial, NoPort, NoId, None

ASSUME IdentityAssumption ==
  /\ Cards \subseteq Nat
  /\ \A u \in Units : Desc[u].usb \in BOOLEAN /\ (Desc[u].usb => Desc[u].model # None)
  /\ NoPort \notin Ports
  /\ None \notin Units \cup Cards

VARIABLES card,      \* the card index of each unit, or None
          port,      \* the port it is plugged into, or NoPort
          call,      \* the library call in progress: its kind and the id it was given
          at,        \* where it is
          todo,      \* the listed cards it has not identified yet
          found,     \* the devices it enumerated
          target,    \* resolved: what it opens and verifies
          errno,     \* the errno of a failed open, or of an ioctl after it
          handle,    \* the file descriptor it holds: on which unit, unplugged since or not
          info,      \* a DeviceInfo the caller kept from Devices or Resolve
          result,    \* what the last call returned; "none" until it does
          moved,     \* units plugged or unplugged since its search began
          lost       \* what the search could not read of a unit that stayed: nothing, its port, all

world == <<card, port>>
vars  == <<world, call, at, todo, found, target, errno, handle, info, result, moved, lost>>

\* Ids, canonical: the serial form, the port form, the card form, the current address.
SerialId(m, s) == [form |-> "serial", model |-> m, value |-> s]
PortForm(m, p) == [form |-> "port", model |-> m, value |-> p]
CardForm(m)    == [form |-> "card", model |-> m, value |-> None]
HwAddr(c)      == [form |-> "hw", model |-> None, value |-> c]

Models  == {Desc[u].model : u \in Units} \ {None}
Serials == {Desc[u].serial : u \in Units} \ {NoSerial}
StableIds ==
  {SerialId(m, s) : m \in Models, s \in Serials} \cup {PortForm(m, p) : m \in Models, p \in Ports}
    \cup {CardForm(m) : m \in Models}
Ids == StableIds \cup {HwAddr(c) : c \in Cards}

ASSUME IdAssumption == NoId \notin Ids

\* A card's identity as read from sysfs.
Unknown  == [usb |-> FALSE, model |-> None, serial |-> NoSerial, port |-> NoPort]
Ident(u) == [usb |-> Desc[u].usb, model |-> Desc[u].model, serial |-> Desc[u].serial, port |-> port[u]]

Holders(c) == {u \in Units : card[u] = c}

\* Of a card that stays: the truth, nothing to rely on, or a USB unit without its port,
\* whose read error counts as absence.
Truth(c) == IF Holders(c) = {} THEN {Unknown} ELSE {Ident(u) : u \in Holders(c)}
Reads(c) == Truth(c) \cup {Unknown} \cup {[i EXCEPT !.port = NoPort] : i \in Truth(c)}

\* The attributes are read one after another, and one that is gone counts as absent.  Of
\* a unit that leaves meanwhile: its kernel card id alone, as if it were not USB, or its
\* model and serial as far as they are its own or those of one that took its port.
Torn(u) ==
  {[usb |-> FALSE, model |-> m, serial |-> NoSerial, port |-> NoPort] : m \in IF Desc[u].usb THEN Models ELSE {Desc[u].model}}
    \cup IF ~ Desc[u].usb THEN {}
         ELSE LET met == {u} \cup {v \in Units : card[v] = None /\ Desc[v].usb}
              IN  {[usb |-> TRUE, model |-> m, serial |-> s, port |-> p] :
                     m \in {Desc[v].model : v \in met}, s \in {Desc[v].serial : v \in met} \cup {NoSerial},
                     p \in {port[u], NoPort}}

\* So a card is identified in one step, in which the unit that was read may leave.
Readings(c) ==
  {[ident |-> i, left |-> {}] : i \in Reads(c)}
    \cup UNION {{[ident |-> i, left |-> {u}] : i \in Torn(u)} : u \in Holders(c)}

Leave(units) ==
  /\ card' = [u \in Units |-> IF u \in units THEN None ELSE card[u]]
  /\ port' = [u \in Units |-> IF u \in units THEN NoPort ELSE port[u]]

-----------------------------------------------------------------------------
\* stableID
StableId(i, c) ==
  IF i.model = None THEN HwAddr(c)
  ELSE CASE ~ i.usb                                            -> CardForm(i.model)
         [] i.usb /\ i.serial # NoSerial                       -> SerialId(i.model, i.serial)
         [] i.usb /\ i.serial = NoSerial /\ i.port # NoPort    -> PortForm(i.model, i.port)
         [] i.usb /\ i.serial = NoSerial /\ i.port = NoPort    -> HwAddr(c)

\* usbPortID, of a port that could be derived.
PortId(i) == IF i.usb /\ i.port # NoPort THEN PortForm(i.model, i.port) ELSE NoId

\* verifyCardIdentity of an identity read at the target's card.  Faulty: the port is
\* not compared.
MatchesNoPort(i) ==
  \/ target.verifyID = NoId
  \/ StableId(i, target.card) \in StableIds /\ target.verifyID \in {StableId(i, target.card), PortId(i)}

Matches(i) ==
  \/ target.verifyID = NoId
  \/ /\ StableId(i, target.card) \in StableIds
     /\ target.verifyPort # NoId => PortId(i) = target.verifyPort
     /\ target.verifyID \in {StableId(i, target.card), PortId(i)}

-----------------------------------------------------------------------------
NoCall   == [kind |-> "none", id |-> NoId]
NoTarget == [card |-> None, verifyID |-> NoId, verifyPort |-> NoId]

\* A device as Devices lists it; "of" is the unit that was there, and stayed.
Device(c, i, of) == [card |-> c, id |-> StableId(i, c), portId |-> PortId(i), of |-> of]

Infos == [card : Cards, id : Ids, portId : StableIds \cup {NoId}, of : SUBSET Units]

TypeOK ==
  /\ card \in [Units -> Cards \cup {None}]
  /\ port \in [Units -> Ports \cup {NoPort}]
  /\ call.kind \in {"none", "Devices", "Resolve", "Open", "Query", "OpenDevice", "OpenControls"}
  /\ call.id \in Ids \cup {NoId}
  /\ at \in {"idle", "list", "identify", "open", "attribute", "verify", "use", "probe", "held"}
  /\ todo \subseteq Cards
  /\ found \subseteq Infos
  /\ target \in [card : Cards \cup {None}, verifyID : StableIds \cup {NoId}, verifyPort : StableIds \cup {NoId}]
  /\ handle \in [unit : Units \cup {None}, live : BOOLEAN]
  /\ info \in Infos \cup {NoId}
  /\ moved \subseteq Units
  /\ lost \in [Units -> {"nothing", "port", "all"}]

NoHandle == [unit |-> None, live |-> FALSE]
NoLoss   == [u \in Units |-> "nothing"]

\* A descriptor that is open on an unplugged card stays dead, whatever takes the index.
Outlived(units) == IF handle.unit \in units THEN [handle EXCEPT !.live = FALSE] ELSE handle

Init ==
  /\ card = [u \in Units |-> None]
  /\ port = [u \in Units |-> NoPort]
  /\ call = NoCall /\ at = "idle" /\ todo = {} /\ found = {} /\ target = NoTarget
  /\ errno = "ok" /\ handle = NoHandle /\ info = NoId /\ result = "ok"
  /\ moved = {} /\ lost = NoLoss

-----------------------------------------------------------------------------
Moves(units) ==
  IF at \in {"list", "identify"}
  THEN moved' = moved \cup units /\ lost' = [u \in Units |-> IF u \in units THEN "nothing" ELSE lost[u]]
  ELSE UNCHANGED <<moved, lost>>

\* The kernel gives a unit that is plugged in a free card index, and no two cards that
\* are there the same card id.
Plug(u) ==
  /\ card[u] = None
  /\ ~ Desc[u].usb => \A v \in Units : card[v] # None /\ ~ Desc[v].usb => Desc[v].model # Desc[u].model
  /\ \E c \in {d \in Cards : Holders(d) = {}} : card' = [card EXCEPT ![u] = c]
  /\ IF Desc[u].usb
     THEN \E p \in Ports \ {port[v] : v \in Units} : port' = [port EXCEPT ![u] = p]
     ELSE UNCHANGED port
  /\ Moves({u})
  /\ UNCHANGED <<call, at, todo, found, target, errno, handle, info, result>>

Unplug(u) ==
  /\ card[u] # None
  /\ Leave({u})
  /\ handle' = Outlived({u})
  /\ Moves({u})
  /\ UNCHANGED <<call, at, todo, found, target, errno, info, result>>

-----------------------------------------------------------------------------
Return(r) ==
  /\ result' = r
  /\ at' = "idle" /\ call' = NoCall
  /\ todo' = {} /\ found' = {} /\ target' = NoTarget /\ errno' = "ok"
  /\ moved' = {} /\ lost' = NoLoss

\* A return that closes the descriptor, and one of a call that opened none.
Closing(r)  == Return(r) /\ handle' = NoHandle
Answering(r) == Return(r) /\ UNCHANGED <<world, handle>>

Going(c, t) ==
  /\ at = "idle"
  /\ call' = c
  /\ target' = t
  /\ at' = IF t = NoTarget THEN "list" ELSE "open"
  /\ result' = "none"
  /\ UNCHANGED <<world, todo, found, errno, handle, moved, lost>>

\* Devices, and Resolve, Open and SupportedRates of an id: a numeric id opens what it
\* names, a stable one is searched for, and Resolve searches for both.  Calls share
\* nothing but a DeviceInfo, which the caller gives to its next one or drops.
Devices == Going([kind |-> "Devices", id |-> NoId], NoTarget) /\ info' = NoId

ByNumber(id) == [card |-> id.value, verifyID |-> NoId, verifyPort |-> NoId]

ById(kind, id) ==
  /\ Going([kind |-> kind, id |-> id],
           IF kind = "Resolve" \/ id \in StableIds THEN NoTarget ELSE ByNumber(id))
  /\ info' = NoId

\* resolveDeviceInfo: the card of the DeviceInfo is opened without a search, unless its
\* id is a serial without a port, which nothing read after the open could tell apart.
\* Faulty: it is not searched for either.
ByInfoUnsearched(kind) ==
  /\ info # NoId
  /\ Going([kind |-> kind, id |-> info.id],
           IF info.id \notin StableIds THEN ByNumber(info.id)
           ELSE [card |-> info.card, verifyID |-> info.id, verifyPort |-> info.portId])
  /\ UNCHANGED info

ByInfo(kind) ==
  /\ info # NoId
  /\ Going([kind |-> kind, id |-> info.id],
           IF info.id \notin StableIds THEN ByNumber(info.id)
           ELSE IF info.id.form = "serial" /\ info.portId = NoId THEN NoTarget
           ELSE [card |-> info.card, verifyID |-> info.id, verifyPort |-> info.portId])
  /\ UNCHANGED info

-----------------------------------------------------------------------------
\* What a reading of a unit that stayed lacks.
Loss(u, i) == IF i = Ident(u) THEN "nothing" ELSE IF i = Unknown THEN "all" ELSE "port"

\* devicesFrom lists the cards once,
List ==
  /\ at = "list"
  /\ todo' = {c \in Cards : Holders(c) # {}}
  /\ at' = "identify"
  /\ UNCHANGED <<world, call, found, target, errno, handle, info, result, moved, lost>>

\* or cannot read /proc/asound, which matchStableID reports under ErrDeviceGone,
ListFails == at = "list" /\ Answering("unlisted") /\ UNCHANGED info

\* and identifies them one after another.
Identify(c) ==
  /\ at = "identify"
  /\ c \in todo /\ \A d \in todo : c <= d
  /\ \E r \in Readings(c) :
       /\ Leave(r.left)
       /\ moved' = moved \cup r.left
       /\ found' = found \cup {Device(c, r.ident, Holders(c) \ r.left)}
       /\ lost' = [u \in Units |-> IF u \in moved' THEN "nothing" ELSE IF card[u] = c THEN Loss(u, r.ident) ELSE lost[u]]
  /\ todo' = todo \ {c}
  /\ UNCHANGED <<call, at, target, errno, handle, info, result>>

Listed == at = "identify" /\ todo = {}

\* A device that answers to the id: a numeric one by its card, a stable one by its ID or
\* its PortID.  Faulty: by its ID only.
AnswersById(d) == call.id = d.id
Answers(d) == IF call.id \in StableIds THEN call.id \in {d.id, d.portId} ELSE d.card = call.id.value

Named == {d \in found : Answers(d)}

\* Devices returns the list, of which the caller keeps a DeviceInfo.
Keep ==
  /\ Listed /\ call.kind = "Devices"
  /\ Answering("ok")
  /\ info' \in found \cup {NoId}

NotFound == Listed /\ call.kind # "Devices" /\ Named = {} /\ Answering("NotFound") /\ UNCHANGED info

Ambiguous ==
  /\ Listed /\ call.kind # "Devices" /\ Cardinality(Named) > 1
  /\ Answering("Ambiguous") /\ UNCHANGED info

Resolved ==
  /\ Listed /\ call.kind = "Resolve" /\ Cardinality(Named) = 1
  /\ Answering("ok") /\ info' \in Named

Found ==
  /\ Listed /\ call.kind \notin {"Devices", "Resolve"} /\ Cardinality(Named) = 1
  /\ \E d \in Named : target' = [card |-> d.card, verifyID |-> call.id, verifyPort |-> NoId]
  /\ at' = "open" /\ todo' = {} /\ found' = {} /\ moved' = {} /\ lost' = NoLoss
  /\ UNCHANGED <<world, call, errno, handle, info, result>>

-----------------------------------------------------------------------------
\* The node of the target's card is opened, or not: another application holds the PCM,
\* the card is not there, or its node is not (a container that maps some nodes only).
OpenNode ==
  /\ at = "open"
  /\ \E u \in Holders(target.card) : handle' = [unit |-> u, live |-> TRUE]
  /\ at' = "verify"
  /\ UNCHANGED <<world, call, todo, found, target, errno, info, result, moved, lost>>

OpenFails ==
  /\ at = "open"
  /\ errno' \in IF Holders(target.card) = {} THEN {"ENOENT"}
                ELSE IF call.kind = "OpenControls" THEN {"ENOENT", "EACCES"}
                ELSE {"ENOENT", "EACCES", "EBUSY"}
  /\ at' = "attribute"
  /\ UNCHANGED <<world, call, todo, found, target, handle, info, result, moved, lost>>

\* translateOpenError, translateQueryError, and OpenControls' own cases: a control node
\* is missing with its card only when the card's /proc entry is missing too.
Translate ==
  CASE errno = "EBUSY"                                    -> "ErrDeviceInUse"
    [] errno = "ENOENT" /\ call.kind # "OpenControls"     -> "ErrDeviceGone"
    [] errno = "ENOENT" /\ call.kind = "OpenControls"     ->
         IF Holders(target.card) = {} THEN "ErrDeviceGone" ELSE "ENOENT"
    [] OTHER                                              -> errno

\* A failure is put down to the unit only once the card is shown to be it.
\* Faulty: it is put down to it at once.
AttributeAtOnce ==
  /\ at = "attribute"
  /\ Answering(Translate)
  /\ UNCHANGED info

Attribute ==
  /\ at = "attribute"
  /\ \E r \in Readings(target.card) :
       /\ Leave(r.left)
       /\ Return(IF Matches(r.ident) THEN Translate ELSE "ErrDeviceGone")
  /\ UNCHANGED <<info, handle>>

\* The card whose node is held by now is verified before anything is asked of it.
Mismatch ==
  /\ at = "verify"
  /\ \E r \in Readings(target.card) : ~ Matches(r.ident) /\ Leave(r.left)
  /\ Closing("ErrDeviceGone")
  /\ UNCHANGED info

\* Faulty: a card index that was just resolved is taken for verified.
VerifySkipped ==
  /\ at = "verify"
  /\ at' = "use"
  /\ UNCHANGED <<world, call, todo, found, target, errno, handle, info, result, moved, lost>>

Verify ==
  /\ at = "verify"
  /\ \E r \in Readings(target.card) :
       /\ Matches(r.ident)
       /\ Leave(r.left)
       /\ handle' = Outlived(r.left)
  /\ at' = "use"
  /\ UNCHANGED <<call, todo, found, target, errno, info, result, moved, lost>>

\* A stream negotiates, a query refines: a descriptor whose unit was unplugged answers
\* that the device is gone, and so may a PCM that is disconnected before its card, with
\* EBADFD; but so does a PCM that only left the state the ioctl needs.
UseFails ==
  /\ at = "use" /\ call.kind # "OpenControls" /\ ~ handle.live
  /\ Closing("ErrDeviceGone") /\ UNCHANGED <<world, info>>

BadState ==
  /\ at = "use" /\ call.kind # "OpenControls"
  /\ errno' = "EBADFD" /\ at' = "probe"
  /\ UNCHANGED <<world, call, todo, found, target, handle, info, result, moved, lost>>

\* deviceDisconnected tells the two apart on the descriptor itself, before it is closed.
Probe ==
  /\ at = "probe"
  /\ Closing(IF handle.live THEN Translate ELSE "ErrDeviceGone")
  /\ UNCHANGED <<world, info>>

Queried == at = "use" /\ call.kind = "Query" /\ handle.live /\ Closing("ok") /\ UNCHANGED <<world, info>>

Opened ==
  /\ at = "use" /\ call.kind # "Query"
  /\ handle.live \/ call.kind = "OpenControls"
  /\ at' = "held" /\ result' = "ok"
  /\ UNCHANGED <<world, call, todo, found, target, errno, handle, info, moved, lost>>

Close == at = "held" /\ Closing("closed") /\ UNCHANGED <<world, info>>

Search == List \/ ListFails \/ (\E c \in Cards : Identify(c)) \/ Keep \/ NotFound \/ Ambiguous \/ Resolved \/ Found

Next ==
  \/ \E u \in Units : Plug(u) \/ Unplug(u)
  \/ Devices
  \/ \E kind \in {"Resolve", "Open", "Query"}, id \in Ids : ById(kind, id)
  \/ \E kind \in {"OpenDevice", "OpenControls"} : ByInfo(kind)
  \/ Search
  \/ OpenNode \/ OpenFails \/ Attribute \/ Mismatch \/ Verify
  \/ UseFails \/ BadState \/ Probe \/ Queried \/ Opened \/ Close

Spec == Init /\ [][Next]_vars

-----------------------------------------------------------------------------
\* The id names the unit where it is plugged in now.
Names(id, u) ==
  /\ card[u] # None /\ Desc[u].model # None
  /\ \/ id = SerialId(Desc[u].model, Desc[u].serial) /\ Desc[u].usb /\ Desc[u].serial # NoSerial
     \/ id = PortForm(Desc[u].model, port[u]) /\ Desc[u].usb
     \/ id = CardForm(Desc[u].model) /\ ~ Desc[u].usb

\* Units that were plugged in where they are for the whole search, so far.
Steady == {u \in Units : card[u] # None} \ moved

\* What the search could have seen of a unit: the port form needs the port, a stable id
\* some identity, a numeric one only the card.
Shown(id, u) ==
  IF id \in StableIds
  THEN Names(id, u) /\ lost[u] # "all" /\ (id.form = "port" => lost[u] # "port")
  ELSE card[u] = id.value

\* A handle that is alive and was asked for by a stable id is on a unit the id names,
\* whatever was swapped, moved or misread while it was found, opened and verified; and a
\* call that has returned, with an error or a closed handle, has left no descriptor open.
HandleIsNamed ==
  /\ TypeOK
  /\ at \in {"use", "probe", "held"} /\ handle.live /\ call.id \in StableIds => Names(call.id, handle.unit)
  /\ at = "idle" => handle = NoHandle

\* OpenDevice and OpenControls of a DeviceInfo with a port end up on the unit that was
\* listed, or on one of its model in the same port, with its serial if the id has one.
SameUnit ==
  at \in {"use", "probe", "held"} /\ handle.live /\ target.verifyPort # NoId =>
    /\ port[handle.unit] = target.verifyPort.value
    /\ \A u \in info.of : /\ Desc[handle.unit].model = Desc[u].model
                          /\ info.id.form = "serial" => Desc[handle.unit].serial = Desc[u].serial

\* ErrDeviceInUse is never said of a stranger that took over the card index: the card
\* whose identity was read is a unit the id names, unless it left while it was read.
InUseIsOurs ==
  [][at = "attribute" /\ result' = "ErrDeviceInUse" /\ call.id \in StableIds
       => \E u \in Holders(target.card) : Names(call.id, u) \/ card'[u] = None]_vars

\* A unit that stays plugged in for the whole search is not reported missing by a search:
\* not to a numeric id of its card, whatever could not be read of it; not to a stable id
\* that names it, unless its own identity, or the port that id is made of, could not be
\* read.  That the sysfs of other cards failed is no excuse.
PresentIsFound ==
  [][at # "idle" /\ result' = "NotFound" => ~ \E u \in Steady : Shown(call.id, u)]_vars

\* Twins are reported as ambiguous and never chosen between: a call that goes on to open
\* a card, with no port to verify, has no two units before it that the id names and whose
\* identities its search could read, unless one moved meanwhile.
TwinsAreTold ==
  [][at # "open" /\ at' = "open" /\ target'.verifyPort = NoId
       => Cardinality({u \in Steady : Shown(call'.id, u)}) <= 1]_vars
=============================================================================
