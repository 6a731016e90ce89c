------------------------- MODULE DeviceIdentityProofs -------------------------
(***************************************************************************)
(* DeviceIdentity for every set of units, cards and ports: a handle is on  *)
(* a unit its id names, an error is put down to that unit only, and a      *)
(* search finds what is there and chooses between no twins.                *)
(***************************************************************************)
EXTENDS DeviceIdentity, FiniteSetTheorems, TLAPS

\* The kernel's registry: no two cards share an index, USB cards have a port, and no two
\* others a card id.
Registry ==
  /\ \A u, v \in Units : card[u] = card[v] /\ card[u] # None => u = v
  /\ \A u \in Units : card[u] # None /\ Desc[u].usb => port[u] # NoPort
  /\ \A u, v \in Units : /\ card[u] # None /\ ~ Desc[u].usb
                         /\ card[v] # None /\ ~ Desc[v].usb
                         /\ Desc[u].model = Desc[v].model
                         => u = v

Searching == {"list", "identify"}
Opening   == {"open", "attribute"}
Verifying == {"verify", "use", "probe", "held"}
Verified  == {"use", "probe", "held"}

\* Where the call stands says what it looks for, what it opens and what it holds.
Progress ==
  /\ at \in {"idle"} \cup Searching => target = NoTarget
  /\ at \notin Verifying => handle = NoHandle
  /\ at \notin {"idle", "held"} => result = "none"
  /\ at = "held" => result = "ok"
  /\ at \in Searching => call.kind \in {"Devices", "Resolve"} \/ call.id \in StableIds
  /\ at \in Opening \cup Verifying =>
       /\ target.card \in Cards
       /\ call.id \in StableIds => target.verifyID = call.id
  /\ at \in Verifying => handle.unit \in Units /\ (handle.live => card[handle.unit] = target.card)
  /\ target.verifyPort # NoId => info # NoId /\ target.verifyPort = info.portId /\ target.verifyID = info.id
  /\ errno \in {"ok", "ENOENT", "EACCES", "EBUSY", "EBADFD"}

\* A live handle that was verified would be verified again.
Verification == at \in Verified /\ handle.live => \E i \in Reads(target.card) : Matches(i)

\* A DeviceInfo is of the unit that was listed, as far as it says.
Fits(d) ==
  /\ d.id \in StableIds /\ d.id.form = "port" => d.portId # NoId
  /\ \A u \in d.of : /\ d.portId # NoId => d.portId.model = Desc[u].model
                     /\ d.id.form = "serial" => d.id.value = Desc[u].serial

Fitting == (\A d \in found : Fits(d)) /\ (info # NoId => Fits(info))

\* A search has listed every unit that has not moved since it began, or will: under the
\* card it holds, and under the ids that what could be read of it makes.
SeenAs(d, u) ==
  /\ d.id = StableId(Ident(u), card[u]) \/ (lost[u] = "port" /\ Desc[u].usb /\ Desc[u].serial = NoSerial)
  /\ d.portId = PortId(Ident(u)) \/ lost[u] = "port"

Listing ==
  /\ IsFiniteSet(found)
  /\ at = "identify" => \A u \in Steady :
       \/ card[u] \in todo
       \/ \E d \in found : d.card = card[u] /\ (lost[u] # "all" => SeenAs(d, u))

IdentityInv == TypeOK /\ Registry /\ Progress /\ Verification /\ Fitting /\ Listing

-----------------------------------------------------------------------------
\* What can be read of a card, and the ids made of it.
Identities ==
  {i \in [usb : BOOLEAN, model : Models \cup {None}, serial : Serials \cup {NoSerial}, port : Ports \cup {NoPort}] :
     i.usb => i.model # None}

LEMMA ReadsAreIdentities ==
  ASSUME TypeOK, NEW c \in Cards
  PROVE  Reads(c) \subseteq Identities
<1>1. \A u \in Units : Ident(u) \in Identities
  BY IdentityAssumption DEF Ident, Identities, TypeOK, Models, Serials
<1>2. Unknown \in Identities
  BY DEF Unknown, Identities
<1>3. Truth(c) \subseteq Identities
  BY <1>1, <1>2 DEF Truth, Holders
<1>4. \A i \in Identities : [i EXCEPT !.port = NoPort] \in Identities
  BY DEF Identities
<1> QED
  BY <1>2, <1>3, <1>4 DEF Reads

\* What is read of a card is of one that stays, or of a unit that left meanwhile.
LEMMA ReadingsAre ==
  ASSUME TypeOK, NEW c \in Cards, NEW r \in Readings(c)
  PROVE  /\ r.ident \in Identities
         /\ (r.left = {} /\ r.ident \in Reads(c)) \/ \E u \in Holders(c) : r.left = {u}
<1>1. ASSUME NEW u \in Units PROVE Torn(u) \subseteq Identities
  <2> DEFINE met == {u} \cup {v \in Units : card[v] = None /\ Desc[v].usb}
             cards == {[usb |-> FALSE, model |-> m, serial |-> NoSerial, port |-> NoPort] :
                         m \in IF Desc[u].usb THEN Models ELSE {Desc[u].model}}
             mixed == {[usb |-> TRUE, model |-> m, serial |-> s, port |-> p] :
                         m \in {Desc[v].model : v \in met}, s \in {Desc[v].serial : v \in met} \cup {NoSerial},
                         p \in {port[u], NoPort}}
  <2>1. Torn(u) = cards \cup IF ~ Desc[u].usb THEN {} ELSE mixed
    BY DEF Torn
  <2>2. cards \subseteq Identities
    <3>1. \A m \in IF Desc[u].usb THEN Models ELSE {Desc[u].model} : m \in Models \cup {None}
      BY DEF Models
    <3>2. ASSUME NEW m \in Models \cup {None}
          PROVE  [usb |-> FALSE, model |-> m, serial |-> NoSerial, port |-> NoPort] \in Identities
      BY DEF Identities
    <3> QED
      BY <3>1, <3>2
  <2>3. ASSUME Desc[u].usb PROVE mixed \subseteq Identities
    <3>1. \A v \in met : v \in Units /\ Desc[v].usb
      BY <2>3
    <3> HIDE DEF met
    <3>2. \A v \in met : Desc[v].model \in Models /\ Desc[v].serial \in Serials \cup {NoSerial}
      BY <3>1, IdentityAssumption DEF Models, Serials
    <3>3. \A m \in {Desc[v].model : v \in met} : m \in Models /\ m # None
      BY <3>2 DEF Models
    <3>4. \A s \in {Desc[v].serial : v \in met} \cup {NoSerial} : s \in Serials \cup {NoSerial}
      BY <3>2
    <3>5. \A p \in {port[u], NoPort} : p \in Ports \cup {NoPort}
      BY DEF TypeOK
    <3>6. ASSUME NEW m \in Models, m # None, NEW s \in Serials \cup {NoSerial}, NEW p \in Ports \cup {NoPort}
          PROVE  [usb |-> TRUE, model |-> m, serial |-> s, port |-> p] \in Identities
      BY <3>6 DEF Identities
    <3>7. ASSUME NEW i \in mixed PROVE i \in Identities
      <4>1. PICK m \in {Desc[v].model : v \in met}, s \in {Desc[v].serial : v \in met} \cup {NoSerial},
                 p \in {port[u], NoPort} : i = [usb |-> TRUE, model |-> m, serial |-> s, port |-> p]
        BY <3>7
      <4>2. m \in Models /\ m # None /\ s \in Serials \cup {NoSerial} /\ p \in Ports \cup {NoPort}
        BY <3>3, <3>4, <3>5
      <4> QED
        BY <3>6, <4>1, <4>2
    <3> QED
      BY <3>7
  <2> QED
    BY <2>1, <2>2, <2>3
<1>2. CASE r \in {[ident |-> i, left |-> {}] : i \in Reads(c)}
  BY <1>2, ReadsAreIdentities
<1>3. ASSUME NEW u \in Holders(c), r \in {[ident |-> i, left |-> {u}] : i \in Torn(u)}
      PROVE  r.ident \in Identities /\ r.left = {u}
  BY <1>1, <1>3 DEF Holders
<1> QED
  BY <1>2, <1>3 DEF Readings

\* Units that leave take nothing from the others.
LEMMA Departures ==
  ASSUME TypeOK, Registry, NEW units, Leave(units)
  PROVE  /\ card' \in [Units -> Cards \cup {None}] /\ port' \in [Units -> Ports \cup {NoPort}]
         /\ Registry'
         /\ \A u \in Units : IF u \in units THEN card'[u] = None ELSE card'[u] = card[u] /\ port'[u] = port[u]
<1>1. /\ card' \in [Units -> Cards \cup {None}] /\ port' \in [Units -> Ports \cup {NoPort}]
      /\ \A u \in Units : IF u \in units THEN card'[u] = None ELSE card'[u] = card[u] /\ port'[u] = port[u]
  BY DEF Leave, TypeOK
<1> QED
  BY <1>1 DEF Registry

LEMMA IdTypes ==
  ASSUME NEW i \in Identities, NEW c \in Cards
  PROVE  StableId(i, c) \in Ids /\ PortId(i) \in StableIds \cup {NoId}
<1>1. PortId(i) \in StableIds \cup {NoId}
  BY DEF PortId, Identities, StableIds, Models
<1>2. CASE i.model = None
  BY <1>1, <1>2 DEF StableId, Ids
<1>3. CASE i.model # None /\ ~ i.usb
  BY <1>1, <1>3 DEF StableId, Ids, StableIds, Identities
<1>4. CASE i.model # None /\ i.usb /\ i.serial # NoSerial
  BY <1>1, <1>4 DEF StableId, Ids, StableIds, Identities
<1>5. CASE i.model # None /\ i.usb /\ i.serial = NoSerial
  BY <1>1, <1>5 DEF StableId, Ids, StableIds, Identities
<1> QED
  BY <1>1, <1>2, <1>3, <1>4, <1>5 DEF Identities

LEMMA Forms ==
  /\ \A id \in StableIds : id.form \in {"serial", "port", "card"}
  /\ \A c : HwAddr(c).form = "hw" /\ HwAddr(c) \notin StableIds
<1>1. \A id \in StableIds : id.form \in {"serial", "port", "card"}
  BY DEF StableIds, SerialId, PortForm, CardForm
<1>2. \A c : HwAddr(c).form = "hw"
  BY DEF HwAddr
<1> QED
  BY <1>1, <1>2

\* Of a card that one unit holds, the reading is of that unit, in full or in part.
LEMMA ReadsOfHolder ==
  ASSUME Registry, NEW u \in Units, card[u] # None, NEW i \in Reads(card[u])
  PROVE  i \in {Ident(u), [Ident(u) EXCEPT !.port = NoPort], Unknown}
<1>1. Holders(card[u]) = {u}
  BY DEF Registry, Holders
<1>2. Truth(card[u]) = {Ident(u)}
  BY <1>1 DEF Truth
<1> QED
  BY <1>2 DEF Reads

\* A reading that matches is of a unit the id names, in the port that was asked for.
LEMMA MatchesNames ==
  ASSUME TypeOK, Registry, NEW u \in Units, card[u] \in Cards, card[u] = target.card,
         NEW i \in Reads(target.card), Matches(i), target.verifyID # NoId
  PROVE  /\ Names(target.verifyID, u)
         /\ target.verifyID.form = "serial" => target.verifyID.value = Desc[u].serial
         /\ target.verifyPort # NoId => target.verifyPort = PortForm(Desc[u].model, port[u])
<1>1. i \in {Ident(u), [Ident(u) EXCEPT !.port = NoPort], Unknown} /\ card[u] # None
  BY ReadsOfHolder, IdentityAssumption
<1>2. /\ StableId(i, target.card) \in StableIds
      /\ target.verifyPort # NoId => PortId(i) = target.verifyPort
      /\ target.verifyID \in {StableId(i, target.card), PortId(i)}
  BY DEF Matches
<1>3. HwAddr(target.card) \notin StableIds
  BY Forms
<1>4. i.model # None /\ ~ (i.usb /\ i.serial = NoSerial /\ i.port = NoPort)
  BY <1>2, <1>3 DEF StableId
<1>5. /\ i.usb = Desc[u].usb /\ i.model = Desc[u].model /\ i.serial = Desc[u].serial
      /\ i.port = NoPort \/ i.port = port[u]
  BY <1>1, <1>4 DEF Ident, Unknown
<1>6. Desc[u].usb \in BOOLEAN
  BY IdentityAssumption
<1>7. CASE ~ Desc[u].usb
  BY <1>1, <1>2, <1>4, <1>5, <1>7 DEF StableId, PortId, Names, CardForm
<1>8. CASE Desc[u].usb /\ Desc[u].serial # NoSerial
  BY <1>1, <1>2, <1>4, <1>5, <1>8 DEF StableId, PortId, Names, SerialId, PortForm
<1>9. CASE Desc[u].usb /\ Desc[u].serial = NoSerial
  BY <1>1, <1>2, <1>4, <1>5, <1>9 DEF StableId, PortId, Names, SerialId, PortForm
<1> QED
  BY <1>6, <1>7, <1>8, <1>9

\* Nothing matches a stable id at a card that is not there.
LEMMA MatchesSomeone ==
  ASSUME NEW i \in Reads(target.card), Matches(i), target.verifyID # NoId
  PROVE  Holders(target.card) # {}
<1> SUFFICES ASSUME Holders(target.card) = {} PROVE FALSE
  OBVIOUS
<1>1. i = Unknown
  BY DEF Reads, Truth, Unknown
<1>2. StableId(i, target.card) = HwAddr(target.card)
  BY <1>1 DEF Unknown, StableId
<1> QED
  BY <1>2, Forms DEF Matches

\* A DeviceInfo of a reading fits the unit that was there, if it stayed.
LEMMA DeviceFits ==
  ASSUME TypeOK, Registry, NEW c \in Cards, NEW r \in Readings(c)
  PROVE  LET d == Device(c, r.ident, Holders(c) \ r.left) IN Fits(d) /\ d \in Infos
<1> DEFINE i == r.ident
<1>1. i \in Identities /\ ((r.left = {} /\ i \in Reads(c)) \/ \E u \in Holders(c) : r.left = {u})
  BY ReadingsAre
<1> HIDE DEF i
<1>2. Device(c, i, Holders(c) \ r.left) \in Infos
  BY <1>1, IdTypes DEF Device, Infos, Holders
<1>3. StableId(i, c).form = "port" => PortId(i) = StableId(i, c)
  BY <1>1 DEF StableId, PortId, HwAddr, SerialId, PortForm, CardForm, Identities
<1>4. StableId(i, c) \in StableIds => StableId(i, c) # NoId
  BY IdAssumption DEF Ids
<1>5. ASSUME NEW u \in Holders(c) \ r.left
      PROVE  /\ PortId(i) # NoId => PortId(i).model = Desc[u].model
             /\ StableId(i, c).form = "serial" => StableId(i, c).value = Desc[u].serial
  <2>1. u \in Units /\ card[u] = c /\ card[u] # None
    BY IdentityAssumption DEF Holders
  <2>2. i \in Reads(c)
    BY <1>1, <2>1 DEF Registry, Holders
  <2>3. i \in {Ident(u), [Ident(u) EXCEPT !.port = NoPort], Unknown}
    BY <2>1, <2>2, ReadsOfHolder
  <2>4. i = Unknown => PortId(i) = NoId /\ StableId(i, c).form = "hw"
    BY DEF Unknown, PortId, StableId, HwAddr
  <2>5. i # Unknown => i.usb = Desc[u].usb /\ i.model = Desc[u].model /\ i.serial = Desc[u].serial
    BY <2>3 DEF Ident
  <2>6. i.usb \in BOOLEAN
    BY <1>1 DEF Identities
  <2> QED
    BY <2>4, <2>5, <2>6 DEF PortId, StableId, HwAddr, SerialId, PortForm, CardForm
<1> QED
  BY <1>2, <1>3, <1>4, <1>5 DEF Fits, Device, i

\* A unit that stayed, and whose name the search could read, is found under the id.
LEMMA SeenByName ==
  ASSUME TypeOK, Registry, NEW u \in Units, card[u] # None, Shown(call.id, u),
         NEW d, d.card = card[u], lost[u] # "all" => SeenAs(d, u)
  PROVE  Answers(d)
<1>1. CASE call.id \notin StableIds
  BY <1>1 DEF Answers, Shown
<1>2. CASE call.id \in StableIds
  <2>1. Names(call.id, u) /\ SeenAs(d, u) /\ (call.id.form = "port" => lost[u] # "port")
    BY <1>2 DEF Shown
  <2>2. Desc[u].usb \in BOOLEAN /\ (Desc[u].usb => port[u] # NoPort)
    BY IdentityAssumption DEF Registry
  <2>3. CASE call.id = SerialId(Desc[u].model, Desc[u].serial) /\ Desc[u].usb /\ Desc[u].serial # NoSerial
    BY <1>2, <2>1, <2>3 DEF Names, SeenAs, StableId, Ident, Answers
  <2>4. CASE call.id = PortForm(Desc[u].model, port[u]) /\ Desc[u].usb
    BY <1>2, <2>1, <2>2, <2>4 DEF SeenAs, PortId, Ident, Answers, PortForm
  <2>5. CASE call.id = CardForm(Desc[u].model) /\ ~ Desc[u].usb
    BY <1>2, <2>1, <2>5 DEF Names, SeenAs, StableId, Ident, Answers
  <2> QED
    BY <2>1, <2>3, <2>4, <2>5 DEF Names
<1> QED
  BY <1>1, <1>2

LEMMA NamesAreStable ==
  ASSUME TypeOK, Registry, NEW u \in Units, NEW id, Names(id, u)
  PROVE  id \in StableIds /\ (id.form = "card" => ~ Desc[u].usb /\ Desc[u].model = id.model)
<1>1. Desc[u].model \in Models /\ (Desc[u].serial # NoSerial => Desc[u].serial \in Serials)
  BY DEF Names, Models, Serials
<1>2. Desc[u].usb => port[u] \in Ports
  BY DEF Names, Registry, TypeOK
<1> QED
  BY <1>1, <1>2 DEF Names, StableIds, SerialId, PortForm, CardForm

-----------------------------------------------------------------------------
LEMMA IdentityBegins == Init => IdentityInv
<1> SUFFICES ASSUME Init PROVE IdentityInv
  OBVIOUS
<1>1. TypeOK
  BY DEF Init, TypeOK, NoCall, NoTarget, NoHandle, NoLoss
<1>2. Registry /\ Verification
  BY DEF Init, Registry, Verification, Verified
<1>3. Progress
  BY DEF Init, Progress, NoTarget, Searching, Opening, Verifying
<1>4. Fitting /\ Listing
  BY FS_EmptySet DEF Init, Fitting, Listing
<1> QED
  BY <1>1, <1>2, <1>3, <1>4 DEF IdentityInv

\* A unit that comes or goes disturbs no other: what is held, and what was listed of the
\* units that did not move, stays true.
LEMMA WorldMoves ==
  ASSUME IdentityInv, NEW u \in Units,
         card' \in [Units -> Cards \cup {None}], port' \in [Units -> Ports \cup {NoPort}], Registry',
         \A v \in Units \ {u} : card'[v] = card[v] /\ port'[v] = port[v],
         Moves({u}),
         handle' \in [unit : {handle.unit}, live : BOOLEAN],
         handle'.live => handle.live /\ handle.unit # u,
         handle = NoHandle => handle' = NoHandle,
         UNCHANGED <<call, at, todo, found, target, errno, info, result>>
  PROVE  IdentityInv'
<1> USE DEF IdentityInv
<1>1. TypeOK'
  <2>1. moved' \subseteq Units /\ lost' \in [Units -> {"nothing", "port", "all"}]
    BY DEF TypeOK, Moves
  <2> QED
    BY <2>1 DEF TypeOK
<1>2. Progress'
  BY DEF Progress
<1>3. Verification'
  <2> SUFFICES ASSUME at \in Verified, handle'.live PROVE (\E i \in Reads(target.card) : Matches(i))'
    BY DEF Verification
  <2> DEFINE w == handle.unit
  <2>1. w \in Units /\ w # u /\ card[w] = target.card /\ card'[w] = target.card /\ target.card \in Cards /\ target.card # None
    BY IdentityAssumption DEF Progress, Verified, Verifying, Opening
  <2>2. Holders(target.card) = {w} /\ Holders(target.card)' = {w}
    BY <2>1 DEF Registry, Holders
  <2>3. Ident(w)' = Ident(w)
    BY <2>1 DEF Ident
  <2>4. Truth(target.card)' = Truth(target.card)
    BY <2>2, <2>3 DEF Truth
  <2>5. Reads(target.card)' = Reads(target.card)
    BY <2>4 DEF Reads
  <2>6. \E i \in Reads(target.card) : Matches(i)
    BY DEF Verification
  <2> QED
    BY <2>5, <2>6 DEF Matches
<1>4. Fitting'
  BY DEF Fitting
<1>5. Listing'
  <2> SUFFICES ASSUME at = "identify", NEW v \in Steady'
               PROVE  /\ card'[v] = card[v] /\ lost'[v] = lost[v]
                      /\ \/ card[v] \in todo
                         \/ \E d \in found : d.card = card[v] /\ (lost[v] # "all" => SeenAs(d, v)')
    BY DEF Listing
  <2>1. v \in Steady /\ v \in Units \ {u} /\ card'[v] = card[v] /\ port'[v] = port[v] /\ lost'[v] = lost[v]
    BY DEF Steady, Moves, TypeOK
  <2>2. \A d : SeenAs(d, v)' <=> SeenAs(d, v)
    BY <2>1 DEF SeenAs, Ident
  <2> QED
    BY <2>1, <2>2 DEF Listing
<1> QED
  BY <1>1, <1>2, <1>3, <1>4, <1>5

LEMMA IdentityMoves ==
  ASSUME IdentityInv, NEW u \in Units, Plug(u) \/ Unplug(u)
  PROVE  IdentityInv'
<1> USE DEF IdentityInv
<1>1. CASE Plug(u)
  <2>1. PICK c \in Cards : Holders(c) = {} /\ card' = [card EXCEPT ![u] = c]
    BY <1>1 DEF Plug
  <2>2. \/ Desc[u].usb /\ \E p \in Ports \ {port[v] : v \in Units} : port' = [port EXCEPT ![u] = p]
        \/ ~ Desc[u].usb /\ UNCHANGED port
    BY <1>1, IdentityAssumption DEF Plug
  <2>3. /\ card' \in [Units -> Cards \cup {None}] /\ port' \in [Units -> Ports \cup {NoPort}]
        /\ \A v \in Units \ {u} : card'[v] = card[v] /\ port'[v] = port[v]
        /\ card'[u] = c /\ (Desc[u].usb => port'[u] # NoPort)
    BY <2>1, <2>2, IdentityAssumption DEF TypeOK
  <2>4. /\ card[u] = None
        /\ ~ Desc[u].usb => \A v \in Units : card[v] # None /\ ~ Desc[v].usb => Desc[v].model # Desc[u].model
    BY <1>1 DEF Plug
  <2>5. Registry'
    BY <2>1, <2>3, <2>4 DEF Registry, Holders
  <2>6. handle' = handle /\ handle \in [unit : {handle.unit}, live : BOOLEAN]
    BY <1>1 DEF Plug, TypeOK
  <2>7. handle.live => handle.unit # u
    BY <2>4, IdentityAssumption DEF Progress, NoHandle, Opening, Verifying
  <2> QED
    BY <1>1, <2>3, <2>5, <2>6, <2>7, WorldMoves DEF Plug
<1>2. CASE Unplug(u)
  <2>1. /\ card' \in [Units -> Cards \cup {None}] /\ port' \in [Units -> Ports \cup {NoPort}]
        /\ \A v \in Units \ {u} : card'[v] = card[v] /\ port'[v] = port[v]
        /\ Registry'
    BY <1>2, Departures DEF Unplug
  <2>3. handle \in [unit : {handle.unit}, live : BOOLEAN] /\ (handle = NoHandle => handle.unit # u)
    BY IdentityAssumption DEF TypeOK, NoHandle
  <2>4. /\ handle' \in [unit : {handle.unit}, live : BOOLEAN]
        /\ handle'.live => handle.live /\ handle.unit # u
        /\ handle = NoHandle => handle' = NoHandle
    BY <1>2, <2>3 DEF Unplug, Outlived
  <2> QED
    BY <1>2, <2>1, <2>4, WorldMoves DEF Unplug
<1> QED
  BY <1>1, <1>2

\* A call that returns keeps at most a DeviceInfo it found, and no descriptor.
LEMMA IdentityReturns ==
  ASSUME IdentityInv, NEW r, Return(r), handle' = NoHandle, info' \in found \cup {info, NoId},
         NEW units, Leave(units) \/ UNCHANGED world
  PROVE  IdentityInv'
<1> USE DEF IdentityInv
<1>1. card' \in [Units -> Cards \cup {None}] /\ port' \in [Units -> Ports \cup {NoPort}] /\ Registry'
  <2>1. CASE Leave(units)
    BY <2>1, Departures
  <2>2. CASE UNCHANGED world
    BY <2>2 DEF world, TypeOK, Registry
  <2> QED
    BY <2>1, <2>2
<1>2. TypeOK'
  BY <1>1 DEF Return, TypeOK, NoCall, NoTarget, NoHandle, NoLoss
<1>3. Progress'
  BY DEF Return, Progress, NoTarget, Searching, Opening, Verifying
<1>4. Verification' /\ Listing'
  BY FS_EmptySet DEF Return, Verification, Listing, Verified
<1>5. Fitting'
  BY DEF Return, Fitting
<1> QED
  BY <1>1, <1>2, <1>3, <1>4, <1>5

\* A call begins: with a search, or with a card to open.
Begins(kind, id, t) ==
  /\ Going([kind |-> kind, id |-> id], t)
  /\ info' \in {info, NoId}
  /\ \/ t = NoTarget /\ (kind \in {"Devices", "Resolve"} \/ id \in StableIds)
     \/ /\ t \in [card : Cards, verifyID : StableIds \cup {NoId}, verifyPort : StableIds \cup {NoId}]
        /\ id \in StableIds => t.verifyID = id
        /\ t.verifyPort # NoId => info' = info /\ info # NoId /\ t.verifyPort = info.portId /\ t.verifyID = info.id
        /\ t.verifyPort = NoId => id \in Ids \ StableIds \/ id.form = "card"

LEMMA IdentityGoes ==
  ASSUME IdentityInv, NEW kind \in {"Devices", "Resolve", "Open", "Query", "OpenDevice", "OpenControls"},
         NEW id \in Ids \cup {NoId}, NEW t, Begins(kind, id, t)
  PROVE  IdentityInv'
<1> USE DEF IdentityInv
<1>1. /\ call' = [kind |-> kind, id |-> id] /\ target' = t /\ result' = "none"
      /\ at = "idle" /\ at' = (IF t = NoTarget THEN "list" ELSE "open")
      /\ UNCHANGED <<card, port, todo, found, errno, handle, moved, lost>> /\ info' \in {info, NoId}
  BY DEF Begins, Going, world
<1>2. TypeOK'
  <2>1. t \in [card : Cards \cup {None}, verifyID : StableIds \cup {NoId}, verifyPort : StableIds \cup {NoId}]
    BY DEF Begins, NoTarget
  <2>2. at' \in {"list", "open"} /\ call'.kind = kind /\ call'.id = id
    BY <1>1
  <2> QED
    BY <1>1, <2>1, <2>2 DEF TypeOK
<1>3. Registry' /\ Fitting'
  BY <1>1 DEF Registry, Fitting
<1>4. Progress'
  <2>1. CASE t = NoTarget /\ (kind \in {"Devices", "Resolve"} \/ id \in StableIds)
    BY <1>1, <2>1 DEF Progress, Searching, Opening, Verifying, NoTarget
  <2>2. CASE /\ t \in [card : Cards, verifyID : StableIds \cup {NoId}, verifyPort : StableIds \cup {NoId}]
             /\ id \in StableIds => t.verifyID = id
             /\ t.verifyPort # NoId => info' = info /\ info # NoId /\ t.verifyPort = info.portId /\ t.verifyID = info.id
    <3>1. t # NoTarget /\ t.card \in Cards
      BY <2>2, IdentityAssumption DEF NoTarget
    <3> QED
      BY <1>1, <2>2, <3>1 DEF Progress, Searching, Opening, Verifying
  <2> QED
    BY <2>1, <2>2 DEF Begins
<1>5. Verification' /\ Listing'
  BY <1>1 DEF Verification, Listing, Verified
<1> QED
  BY <1>2, <1>3, <1>4, <1>5

LEMMA CallsBegin ==
  ASSUME IdentityInv,
         \/ Devices
         \/ \E kind \in {"Resolve", "Open", "Query"}, id \in Ids : ById(kind, id)
         \/ \E kind \in {"OpenDevice", "OpenControls"} : ByInfo(kind)
  PROVE  \E kind \in {"Devices", "Resolve", "Open", "Query", "OpenDevice", "OpenControls"}, id \in Ids \cup {NoId} :
           \E t : Begins(kind, id, t)
<1>1. CASE Devices
  BY <1>1 DEF Devices, Begins
<1>2. ASSUME NEW id \in Ids, id \notin StableIds
      PROVE  /\ ByNumber(id) \in [card : Cards, verifyID : StableIds \cup {NoId}, verifyPort : StableIds \cup {NoId}]
             /\ ByNumber(id).verifyPort = NoId
  BY <1>2 DEF Ids, HwAddr, ByNumber
<1>3. ASSUME NEW kind \in {"Resolve", "Open", "Query"}, NEW id \in Ids, ById(kind, id)
      PROVE  \E t : Begins(kind, id, t)
  <2>1. CASE kind = "Resolve" \/ id \in StableIds
    BY <1>3, <2>1 DEF ById, Begins
  <2>2. CASE kind # "Resolve" /\ id \notin StableIds
    <3>1. Going([kind |-> kind, id |-> id], ByNumber(id)) /\ info' = NoId
      BY <1>3, <2>2 DEF ById
    <3>2. Begins(kind, id, ByNumber(id))
      BY <1>2, <2>2, <3>1 DEF Begins
    <3> QED
      BY <3>2
  <2> QED
    BY <2>1, <2>2
<1>4. ASSUME NEW kind \in {"OpenDevice", "OpenControls"}, ByInfo(kind)
      PROVE  info.id \in Ids /\ \E t : Begins(kind, info.id, t)
  <2>1. info \in Infos /\ info # NoId /\ Fits(info) /\ UNCHANGED info
    BY <1>4 DEF ByInfo, IdentityInv, TypeOK, Fitting
  <2>2. info.id \in Ids /\ info.card \in Cards /\ info.portId \in StableIds \cup {NoId}
    BY <2>1 DEF Infos
  <2>3. CASE info.id \notin StableIds
    <3>1. Going([kind |-> kind, id |-> info.id], ByNumber(info.id))
      BY <1>4, <2>3 DEF ByInfo
    <3>2. Begins(kind, info.id, ByNumber(info.id))
      BY <1>2, <2>1, <2>2, <2>3, <3>1 DEF Begins
    <3> QED
      BY <2>2, <3>2
  <2>4. CASE info.id \in StableIds /\ info.id.form = "serial" /\ info.portId = NoId
    <3>1. Begins(kind, info.id, NoTarget)
      BY <1>4, <2>1, <2>4 DEF ByInfo, Begins
    <3> QED
      BY <2>2, <3>1
  <2>5. CASE info.id \in StableIds /\ ~ (info.id.form = "serial" /\ info.portId = NoId)
    <3> DEFINE t == [card |-> info.card, verifyID |-> info.id, verifyPort |-> info.portId]
    <3>1. Going([kind |-> kind, id |-> info.id], t)
      BY <1>4, <2>5 DEF ByInfo
    <3>2. info.portId = NoId => info.id.form = "card"
      BY <2>1, <2>5, Forms DEF Fits
    <3>3. t \in [card : Cards, verifyID : StableIds \cup {NoId}, verifyPort : StableIds \cup {NoId}]
      BY <2>2, <2>5
    <3>4. t.verifyID = info.id /\ t.verifyPort = info.portId
      OBVIOUS
    <3> HIDE DEF t
    <3>5. Begins(kind, info.id, t)
      BY <2>1, <3>1, <3>2, <3>3, <3>4 DEF Begins
    <3> QED
      BY <2>2, <3>5
  <2> QED
    BY <2>3, <2>4, <2>5
<1> QED
  BY <1>1, <1>3, <1>4

-----------------------------------------------------------------------------
\* The search.  One card identified: every unit that holds it and has not moved is seen,
\* or the reading was not the truth.
LEMMA IdentitySearches ==
  ASSUME IdentityInv, List \/ \E c \in Cards : Identify(c)
  PROVE  IdentityInv'
<1> USE DEF IdentityInv
<1>1. CASE List
  <2>1. TypeOK' /\ Registry' /\ Fitting' /\ Verification'
    BY <1>1 DEF List, world, TypeOK, Registry, Fitting, Verification, Verified
  <2>2. Progress'
    BY <1>1 DEF List, Progress, Searching, Opening, Verifying
  <2>3. Listing'
    BY <1>1 DEF List, Listing, Steady, Holders, TypeOK, world
  <2> QED
    BY <2>1, <2>2, <2>3
<1>2. ASSUME NEW c \in Cards, Identify(c) PROVE IdentityInv'
  <2>1. PICK r \in Readings(c) :
          /\ Leave(r.left)
          /\ moved' = moved \cup r.left
          /\ found' = found \cup {Device(c, r.ident, Holders(c) \ r.left)}
          /\ lost' = [u \in Units |-> IF u \in moved' THEN "nothing" ELSE IF card[u] = c THEN Loss(u, r.ident) ELSE lost[u]]
    BY <1>2 DEF Identify
  <2>0. PICK new : new = Device(c, r.ident, Holders(c) \ r.left)
    OBVIOUS
  <2>2. /\ at = "identify" /\ todo' = todo \ {c}
        /\ UNCHANGED <<call, at, target, errno, handle, info, result>>
    BY <1>2 DEF Identify
  <2>3. Fits(new) /\ new \in Infos
    BY <2>0, DeviceFits
  <2>4. /\ card' \in [Units -> Cards \cup {None}] /\ port' \in [Units -> Ports \cup {NoPort}] /\ Registry'
        /\ \A u \in Units : IF u \in r.left THEN card'[u] = None ELSE card'[u] = card[u] /\ port'[u] = port[u]
    BY <2>1, Departures
  <2>5. (r.left = {} /\ r.ident \in Reads(c)) \/ \E u \in Holders(c) : r.left = {u}
    BY ReadingsAre
  <2>6. TypeOK'
    <3>1. moved' \subseteq Units
      BY <2>1, <2>5 DEF TypeOK, Holders
    <3>2. \A u \in Units : Loss(u, r.ident) \in {"nothing", "port", "all"}
      BY DEF Loss
    <3>3. lost' \in [Units -> {"nothing", "port", "all"}]
      BY <2>1, <3>2 DEF TypeOK
    <3> QED
      BY <2>0, <2>1, <2>2, <2>3, <2>4, <3>1, <3>3 DEF TypeOK
  <2>7. Fitting' /\ Verification' /\ Progress'
    BY <2>0, <2>1, <2>2, <2>3 DEF Fitting, Verification, Progress, NoTarget, Searching, Opening, Verifying, Verified
  <2>8. IsFiniteSet(found')
    BY <2>1, FS_AddElement DEF Listing
  <2>9. ASSUME NEW u \in Steady'
        PROVE  card'[u] \in todo' \/ \E d \in found' : d.card = card'[u] /\ (lost'[u] # "all" => SeenAs(d, u)')
    <3>1. u \in Units /\ card'[u] = card[u] /\ port'[u] = port[u] /\ u \in Steady /\ u \notin r.left /\ u \notin moved'
      BY <2>1, <2>4 DEF Steady
    <3>2. lost'[u] = IF card[u] = c THEN Loss(u, r.ident) ELSE lost[u]
      BY <2>1, <3>1
    <3>3. CASE card[u] = c
      <4>1. Holders(c) = {u} /\ card[u] # None
        BY <3>1, <3>3, IdentityAssumption DEF Registry, Holders
      <4>2. r.ident \in {Ident(u), [Ident(u) EXCEPT !.port = NoPort], Unknown}
        BY <2>5, <3>1, <3>3, <4>1, ReadsOfHolder
      <4>3. Ident(u)' = Ident(u)
        BY <3>1 DEF Ident
      <4>4. new.id = StableId(r.ident, c) /\ new.portId = PortId(r.ident) /\ new.card = c
        BY <2>0 DEF Device
      <4>5. Desc[u].usb \in BOOLEAN
        BY <3>1, IdentityAssumption
      <4>6. ASSUME lost'[u] # "all" PROVE SeenAs(new, u)'
        <5>1. CASE r.ident = Ident(u)
          BY <3>1, <3>3, <4>3, <4>4, <5>1 DEF SeenAs
        <5>2. CASE r.ident # Ident(u)
          <6>1. r.ident = [Ident(u) EXCEPT !.port = NoPort] /\ lost'[u] = "port"
            BY <3>2, <3>3, <4>2, <4>6, <5>2 DEF Loss
          <6>2. StableId(r.ident, c) = StableId(Ident(u), c) \/ (Desc[u].usb /\ Desc[u].serial = NoSerial)
            BY <4>5, <6>1 DEF StableId, Ident
          <6> QED
            BY <3>1, <3>3, <4>3, <4>4, <6>1, <6>2 DEF SeenAs
        <5> QED
          BY <5>1, <5>2
      <4> QED
        BY <2>0, <2>1, <3>1, <3>3, <4>4, <4>6
    <3>4. CASE card[u] # c
      <4>1. \A d : SeenAs(d, u)' <=> SeenAs(d, u)
        BY <3>1, <3>2, <3>4 DEF SeenAs, Ident
      <4> QED
        BY <2>1, <2>2, <3>1, <3>2, <3>4, <4>1 DEF Listing
    <3> QED
      BY <3>3, <3>4
  <2>10. Listing'
    BY <2>8, <2>9 DEF Listing
  <2> QED
    BY <2>4, <2>6, <2>7, <2>10
<1> QED
  BY <1>1, <1>2

\* A search that finds one device goes on with its card.
LEMMA IdentityFinds ==
  ASSUME IdentityInv, Found
  PROVE  IdentityInv'
<1> USE DEF IdentityInv
<1>1. PICK d \in Named : target' = [card |-> d.card, verifyID |-> call.id, verifyPort |-> NoId]
  BY DEF Found
<1>2. /\ at = "identify" /\ todo' = {} /\ at' = "open" /\ found' = {} /\ moved' = {} /\ lost' = NoLoss
      /\ call.kind \notin {"Devices", "Resolve"}
      /\ UNCHANGED <<card, port, call, errno, handle, info, result>>
  BY DEF Found, Listed, world
<1>3. call.id \in StableIds
  BY <1>2 DEF Progress, Searching
<1>4. d \in Infos /\ d.card \in Cards
  BY DEF Named, TypeOK, Infos
<1>5. TypeOK' /\ Registry' /\ Fitting' /\ Verification'
  BY <1>1, <1>2, <1>3, <1>4 DEF TypeOK, Registry, Fitting, Verification, Verified, NoLoss
<1>6. Progress'
  BY <1>1, <1>2, <1>4 DEF Progress, Searching, Opening, Verifying
<1>7. Listing'
  BY <1>2, FS_EmptySet DEF Listing
<1> QED
  BY <1>5, <1>6, <1>7

\* From the node to its use.
LEMMA IdentityOpens ==
  ASSUME IdentityInv, OpenNode \/ OpenFails \/ BadState \/ Opened
  PROVE  IdentityInv'
<1> USE DEF IdentityInv
<1>1. /\ UNCHANGED <<card, port, call, todo, found, target, info, moved, lost>>
      /\ at \in Opening \cup Verifying /\ at' \in {"attribute"} \cup Verifying
  <2>1. UNCHANGED <<card, port, call, todo, found, target, info, moved, lost>>
    BY DEF OpenNode, OpenFails, BadState, Opened, world
  <2>2. at \in Opening \cup Verifying /\ at' \in {"attribute"} \cup Verifying
    BY DEF OpenNode, OpenFails, BadState, Opened, Opening, Verifying
  <2> QED
    BY <2>1, <2>2
<1>2. Registry' /\ Fitting'
  BY <1>1 DEF Registry, Fitting
<1>3. Listing'
  BY <1>1 DEF Listing, Verifying
<1>4. handle' = handle \/ \E u \in Units : handle' = [unit |-> u, live |-> TRUE]
  BY DEF OpenNode, OpenFails, BadState, Opened, Holders
<1>5. TypeOK'
  <2>1. handle' \in [unit : Units \cup {None}, live : BOOLEAN]
    <3>1. handle \in [unit : Units \cup {None}, live : BOOLEAN]
      BY DEF TypeOK
    <3>2. ASSUME NEW u \in Units, handle' = [unit |-> u, live |-> TRUE]
          PROVE  handle' \in [unit : Units \cup {None}, live : BOOLEAN]
      BY <3>2
    <3>3. CASE handle' = handle
      BY <3>1, <3>3
    <3> QED
      BY <1>4, <3>2, <3>3
  <2> QED
    BY <1>1, <2>1 DEF TypeOK, Verifying
<1>6. errno' \in {"ok", "ENOENT", "EACCES", "EBUSY", "EBADFD"}
  <2>1. errno' = errno \/ errno' \in {"EBADFD", "ENOENT", "EACCES", "EBUSY"}
    BY DEF OpenNode, OpenFails, BadState, Opened
  <2> QED
    BY <2>1 DEF Progress
<1>7. Progress'
  <2>1. CASE OpenNode
    BY <1>1, <1>6, <2>1 DEF OpenNode, Progress, Holders, Searching, Opening, Verifying
  <2>2. CASE OpenFails
    BY <1>1, <1>6, <2>2 DEF OpenFails, Progress, Searching, Opening, Verifying
  <2>3. CASE BadState
    BY <1>1, <1>6, <2>3 DEF BadState, Progress, Searching, Opening, Verifying
  <2>4. CASE Opened
    BY <1>1, <1>6, <2>4 DEF Opened, Progress, Searching, Opening, Verifying
  <2> QED
    BY <2>1, <2>2, <2>3, <2>4
<1>8. Verification'
  <2>1. Reads(target.card)' = Reads(target.card)
    BY <1>1 DEF Reads, Truth, Holders, Ident
  <2>2. CASE OpenNode \/ OpenFails
    BY <2>2 DEF OpenNode, OpenFails, Verification, Verified
  <2>3. CASE BadState \/ Opened
    <3>1. UNCHANGED handle /\ at \in Verified
      BY <2>3 DEF BadState, Opened, Verified
    <3> QED
      BY <1>1, <2>1, <3>1 DEF Verification, Matches
  <2> QED
    BY <2>2, <2>3
<1> QED
  BY <1>2, <1>3, <1>5, <1>7, <1>8

\* A reading that matches is of the unit that is held, if that one is still there: no
\* other can have left meanwhile.
LEMMA IdentityVerifies ==
  ASSUME IdentityInv, Verify
  PROVE  IdentityInv'
<1> USE DEF IdentityInv
<1>1. PICK r \in Readings(target.card) : Matches(r.ident) /\ Leave(r.left) /\ handle' = Outlived(r.left)
  BY DEF Verify
<1>2. /\ at = "verify" /\ at' = "use"
      /\ UNCHANGED <<call, todo, found, target, errno, info, result, moved, lost>>
  BY DEF Verify
<1>3. /\ card' \in [Units -> Cards \cup {None}] /\ port' \in [Units -> Ports \cup {NoPort}] /\ Registry'
      /\ \A u \in Units : IF u \in r.left THEN card'[u] = None ELSE card'[u] = card[u] /\ port'[u] = port[u]
  BY <1>1, Departures
<1>4. target.card \in Cards /\ handle.unit \in Units /\ (handle.live => card[handle.unit] = target.card)
  BY <1>2 DEF Progress, Verifying
<1>5. handle.live \in BOOLEAN /\ handle \in [unit : Units \cup {None}, live : BOOLEAN]
  BY DEF TypeOK
<1>6. /\ handle' \in [unit : Units \cup {None}, live : BOOLEAN] /\ handle'.unit = handle.unit
      /\ handle'.live => handle.live /\ handle.unit \notin r.left
  BY <1>1, <1>5 DEF Outlived
<1>7. TypeOK' /\ Fitting' /\ Listing'
  BY <1>2, <1>3, <1>6 DEF TypeOK, Fitting, Listing
<1>8. Progress'
  BY <1>2, <1>3, <1>4, <1>6 DEF Progress, Searching, Opening, Verifying
<1>9. ASSUME handle'.live PROVE r.left = {} /\ r.ident \in Reads(target.card)
  <2>1. Holders(target.card) = {handle.unit} /\ handle.unit \notin r.left
    BY <1>4, <1>6, <1>9, IdentityAssumption DEF Registry, Holders
  <2> QED
    BY <1>4, <2>1, ReadingsAre
<1>10. Verification'
  <2> SUFFICES ASSUME handle'.live PROVE (\E i \in Reads(target.card) : Matches(i))'
    BY DEF Verification
  <2>1. \A u \in Units : card'[u] = card[u] /\ port'[u] = port[u]
    BY <1>3, <1>9
  <2>2. Holders(target.card)' = Holders(target.card) /\ \A u \in Units : Ident(u)' = Ident(u)
    BY <1>2, <2>1 DEF Holders, Ident
  <2>3. \A u \in Holders(target.card) : u \in Units
    BY DEF Holders
  <2>4. Reads(target.card)' = Reads(target.card)
    BY <2>2, <2>3 DEF Reads, Truth
  <2> QED
    BY <1>1, <1>2, <1>9, <2>4 DEF Matches
<1> QED
  BY <1>3, <1>7, <1>8, <1>10

LEMMA IdentityStep == IdentityInv /\ [Next]_vars => IdentityInv'
<1> SUFFICES ASSUME IdentityInv, [Next]_vars PROVE IdentityInv'
  OBVIOUS
<1>1. CASE \E u \in Units : Plug(u) \/ Unplug(u)
  BY <1>1, IdentityMoves
<1>2. CASE \/ Devices
           \/ \E kind \in {"Resolve", "Open", "Query"}, id \in Ids : ById(kind, id)
           \/ \E kind \in {"OpenDevice", "OpenControls"} : ByInfo(kind)
  BY <1>2, CallsBegin, IdentityGoes
<1>3. CASE List \/ \E c \in Cards : Identify(c)
  BY <1>3, IdentitySearches
<1>4. CASE ListFails \/ Keep \/ NotFound \/ Ambiguous \/ Resolved
  <2>1. handle = NoHandle
    BY <1>4 DEF ListFails, Keep, NotFound, Ambiguous, Resolved, Listed, IdentityInv, Progress, Verifying
  <2>2. \E r : Answering(r) /\ info' \in found \cup {info, NoId}
    BY <1>4 DEF ListFails, Keep, NotFound, Ambiguous, Resolved, Named
  <2> QED
    BY <2>1, <2>2, IdentityReturns DEF Answering
<1>5. CASE Found
  BY <1>5, IdentityFinds
<1>6. CASE OpenNode \/ OpenFails \/ BadState \/ Opened
  BY <1>6, IdentityOpens
<1>7. CASE Verify
  BY <1>7, IdentityVerifies
<1>8. CASE UseFails \/ Probe \/ Queried \/ Close
  BY <1>8, IdentityReturns DEF UseFails, Probe, Queried, Close, Closing
<1>9. CASE Attribute
  <2>1. handle = NoHandle
    BY <1>9 DEF Attribute, IdentityInv, Progress, Verifying
  <2>2. \E r, units : Return(r) /\ Leave(units)
    BY <1>9 DEF Attribute
  <2> QED
    BY <1>9, <2>1, <2>2, IdentityReturns DEF Attribute
<1>10. CASE Mismatch
  BY <1>10, IdentityReturns DEF Mismatch, Closing
<1>11. CASE UNCHANGED vars
  <2>1. UNCHANGED <<card, port, call, at, todo, found, target, errno, handle, info, result, moved, lost>>
    BY <1>11 DEF vars, world
  <2>2. TypeOK' /\ Registry' /\ Fitting' /\ Progress'
    BY <2>1 DEF IdentityInv, TypeOK, Registry, Fitting, Progress
  <2>3. Listing'
    BY <2>1 DEF IdentityInv, Listing, Steady, SeenAs, Ident
  <2>4. Verification'
    BY <2>1 DEF IdentityInv, Verification, Reads, Truth, Holders, Ident, Matches
  <2> QED
    BY <2>2, <2>3, <2>4 DEF IdentityInv
<1> QED
  BY <1>1, <1>2, <1>3, <1>4, <1>5, <1>6, <1>7, <1>8, <1>9, <1>10, <1>11 DEF Next, Search

\* Every behaviour keeps the inductive invariant.
THEOREM IdentityInvariant == Spec => []IdentityInv
BY IdentityBegins, IdentityStep, PTL DEF Spec

-----------------------------------------------------------------------------
\* A live handle asked for by a stable id is on a unit the id names, however the units
\* were swapped and whatever was misread on the way to it.
THEOREM HandlesAreNamed == Spec => []HandleIsNamed
<1>1. IdentityInv => HandleIsNamed
  <2> SUFFICES ASSUME IdentityInv PROVE HandleIsNamed
    OBVIOUS
  <2> USE DEF IdentityInv
  <2>1. ASSUME at \in Verified, handle.live, call.id \in StableIds PROVE Names(call.id, handle.unit)
    <3>1. PICK i \in Reads(target.card) : Matches(i)
      BY <2>1 DEF Verification
    <3>2. /\ target.card \in Cards /\ target.verifyID = call.id
          /\ handle.unit \in Units /\ card[handle.unit] = target.card
      BY <2>1 DEF Progress, Verified, Verifying
    <3>3. target.verifyID # NoId
      BY <2>1, <3>2, IdAssumption DEF Ids
    <3> QED
      BY <3>1, <3>2, <3>3, MatchesNames
  <2>2. at = "idle" => handle = NoHandle
    BY DEF Progress, Verifying
  <2> QED
    BY <2>1, <2>2 DEF HandleIsNamed, Verified
<1> QED
  BY <1>1, IdentityInvariant, PTL

\* A DeviceInfo with a port leads back to the unit that was listed, or to one like it in
\* the same port.
THEOREM UnitsStaySame == Spec => []SameUnit
<1>1. IdentityInv => SameUnit
  <2> SUFFICES ASSUME IdentityInv, at \in Verified, handle.live, target.verifyPort # NoId
               PROVE  /\ port[handle.unit] = target.verifyPort.value
                      /\ \A u \in info.of : /\ Desc[handle.unit].model = Desc[u].model
                                            /\ info.id.form = "serial" => Desc[handle.unit].serial = Desc[u].serial
    BY DEF SameUnit, Verified
  <2> USE DEF IdentityInv
  <2>1. PICK i \in Reads(target.card) : Matches(i)
    BY DEF Verification
  <2>2. target.card \in Cards /\ handle.unit \in Units /\ card[handle.unit] = target.card
    BY DEF Progress, Verified, Verifying
  <2>3. info # NoId /\ target.verifyPort = info.portId /\ target.verifyID = info.id /\ Fits(info)
    BY DEF Progress, Fitting
  <2>4. target.verifyID # NoId
    BY <2>3, IdAssumption DEF TypeOK, Infos
  <2>5. /\ target.verifyID.form = "serial" => target.verifyID.value = Desc[handle.unit].serial
        /\ target.verifyPort = PortForm(Desc[handle.unit].model, port[handle.unit])
    BY <2>1, <2>2, <2>4, MatchesNames
  <2>6. target.verifyPort.model = Desc[handle.unit].model /\ target.verifyPort.value = port[handle.unit]
    BY <2>5 DEF PortForm
  <2> QED
    BY <2>3, <2>5, <2>6 DEF Fits
<1> QED
  BY <1>1, IdentityInvariant, PTL

\* The devices found under the id stand for all the units it shows.
LEMMA ShownAreNamed ==
  ASSUME IdentityInv, at = "identify", todo = {}, NEW u \in Steady, Shown(call.id, u)
  PROVE  \E d \in Named : d.card = card[u]
<1>1. u \in Units /\ card[u] # None
  BY DEF Steady
<1>2. PICK d \in found : d.card = card[u] /\ (lost[u] # "all" => SeenAs(d, u))
  BY DEF IdentityInv, Listing
<1>3. Answers(d)
  BY <1>1, <1>2, SeenByName DEF IdentityInv
<1> QED
  BY <1>2, <1>3 DEF Named

\* A call that goes on to open a card, with no port to verify, had but one unit before it
\* that the id names, of those that had not moved: twins are told apart by nobody.
THEOREM TwinsStayTold == Spec => TwinsAreTold
<1>1. ASSUME IdentityInv, [Next]_vars, at # "open", at' = "open", target'.verifyPort = NoId,
             NEW u \in Steady, NEW v \in Steady, Shown(call'.id, u), Shown(call'.id, v)
      PROVE  u = v
  <2> USE DEF IdentityInv
  <2>1. u \in Units /\ v \in Units /\ card[u] # None /\ card[v] # None
    BY DEF Steady
  <2>2. \/ Found
        \/ Devices
        \/ \E kind \in {"Resolve", "Open", "Query"}, id \in Ids : ById(kind, id)
        \/ \E kind \in {"OpenDevice", "OpenControls"} : ByInfo(kind)
    BY <1>1 DEF Next, Plug, Unplug, Search, List, ListFails, Identify, Keep, NotFound, Ambiguous, Resolved, OpenNode,
      OpenFails, Attribute, Mismatch, Verify, UseFails, BadState, Probe, Queried, Opened, Close, Closing, Answering, Return, vars
  <2>3. CASE Found
    <3>1. at = "identify" /\ todo = {} /\ Cardinality(Named) = 1 /\ call' = call
      BY <2>3 DEF Found, Listed
    <3>2. PICK d \in Named : d.card = card[u]
      BY <1>1, <3>1, ShownAreNamed
    <3>3. PICK e \in Named : e.card = card[v]
      BY <1>1, <3>1, ShownAreNamed
    <3>4. IsFiniteSet(Named)
      BY <1>1, FS_Subset DEF Named, Listing
    <3>5. d = e
      BY <3>1, <3>4, FS_Singleton
    <3> QED
      BY <1>1, <2>1, <3>2, <3>3, <3>5 DEF Registry
  <2>4. CASE ~ Found
    <3>1. PICK kind \in {"Devices", "Resolve", "Open", "Query", "OpenDevice", "OpenControls"}, id \in Ids \cup {NoId} :
            \E t : Begins(kind, id, t)
      BY <1>1, <2>2, <2>4, CallsBegin
    <3> PICK t : Begins(kind, id, t)
      BY <3>1
    <3>2. call'.id = id /\ target' = t /\ t # NoTarget
      BY <1>1, <3>1 DEF Begins, Going
    <3>3. id \in Ids \ StableIds \/ id.form = "card"
      BY <1>1, <3>1, <3>2 DEF Begins
    <3>4. CASE id \in StableIds
      <4>1. Names(id, u) /\ Names(id, v)
        BY <1>1, <3>2, <3>4 DEF Shown
      <4>2. id.form = "card"
        BY <3>3, <3>4
      <4>3. ~ Desc[u].usb /\ ~ Desc[v].usb /\ Desc[u].model = Desc[v].model
        BY <1>1, <2>1, <4>1, <4>2, NamesAreStable
      <4> QED
        BY <1>1, <2>1, <4>3 DEF Registry
    <3>5. CASE id \notin StableIds
      <4>1. card[u] = id.value /\ card[v] = id.value
        BY <1>1, <3>2, <3>5 DEF Shown
      <4> QED
        BY <1>1, <2>1, <4>1 DEF Registry
    <3> QED
      BY <3>4, <3>5
  <2> QED
    BY <2>3, <2>4
<1>2. ASSUME IdentityInv, [Next]_vars, at # "open", at' = "open", target'.verifyPort = NoId
      PROVE  Cardinality({u \in Steady : Shown(call'.id, u)}) <= 1
  <2> DEFINE shown == {u \in Steady : Shown(call'.id, u)}
  <2>1. \A u, v \in shown : u = v
    BY <1>1, <1>2
  <2>2. shown = {} \/ \E u : shown = {u}
    BY <2>1
  <2> HIDE DEF shown
  <2>3. Cardinality(shown) \in {0, 1}
    BY <2>2, FS_EmptySet, FS_Singleton
  <2>4. Cardinality(shown) <= 1
    BY <2>3
  <2> QED
    BY <2>4 DEF shown
<1>3. ASSUME IdentityInv, [Next]_vars
      PROVE  [at # "open" /\ at' = "open" /\ target'.verifyPort = NoId
                => Cardinality({u \in Steady : Shown(call'.id, u)}) <= 1]_vars
  BY <1>2, <1>3
<1> QED
  BY <1>3, IdentityInvariant, PTL DEF Spec, TwinsAreTold

-----------------------------------------------------------------------------
LEMMA Translated == IdentityInv => Translate # "NotFound"
BY DEF IdentityInv, Progress, Translate

\* Another application's use of the card is reported only when the card was just shown to
\* be the unit that was asked for.
THEOREM InUseStaysOurs == Spec => InUseIsOurs
<1>1. ASSUME IdentityInv, [Next]_vars, at = "attribute", result' = "ErrDeviceInUse", call.id \in StableIds
      PROVE  \E u \in Holders(target.card) : Names(call.id, u) \/ card'[u] = None
  <2> USE DEF IdentityInv
  <2>1. result = "none" /\ target.card \in Cards /\ target.verifyID = call.id
    BY <1>1 DEF Progress, Opening, Verifying
  <2>2. result' # result
    BY <1>1, <2>1
  <2>3. Attribute
    BY <1>1, <2>2 DEF Next, Plug, Unplug, Devices, ById, ByInfo, Going, Search, List, ListFails, Identify, Keep, NotFound,
      Ambiguous, Resolved, Found, Listed, OpenNode, OpenFails, Mismatch, Verify, UseFails, BadState, Probe, Queried,
      Opened, Close, vars
  <2>4. PICK r \in Readings(target.card) : Leave(r.left) /\ Return(IF Matches(r.ident) THEN Translate ELSE "ErrDeviceGone")
    BY <2>3 DEF Attribute
  <2>5. Matches(r.ident)
    BY <1>1, <2>4 DEF Return
  <2>6. target.verifyID # NoId
    BY <1>1, <2>1, IdAssumption DEF Ids
  <2>7. CASE r.ident \in Reads(target.card)
    <3>1. PICK u \in Holders(target.card) : TRUE
      BY <2>5, <2>6, <2>7, MatchesSomeone
    <3>2. u \in Units /\ card[u] = target.card
      BY DEF Holders
    <3>3. Names(target.verifyID, u)
      BY <1>1, <2>1, <2>5, <2>6, <2>7, <3>2, MatchesNames
    <3> QED
      BY <2>1, <3>1, <3>3
  <2>8. ASSUME NEW u \in Holders(target.card), r.left = {u}
        PROVE  card'[u] = None
    BY <1>1, <2>4, <2>8, Departures DEF Holders
  <2> QED
    BY <1>1, <2>1, <2>7, <2>8, ReadingsAre
<1> QED
  BY <1>1, IdentityInvariant, PTL DEF Spec, InUseIsOurs

\* A search that has seen a unit stay where it is, and read of it what the id is made of,
\* does not report it missing; a search for a numeric id need not have read anything.
THEOREM PresentStaysFound == Spec => PresentIsFound
<1>1. ASSUME IdentityInv, [Next]_vars, at # "idle", result' = "NotFound", NEW u \in Steady, Shown(call.id, u)
      PROVE  FALSE
  <2> USE DEF IdentityInv
  <2>1. NotFound
    <3>1. CASE \/ ListFails \/ Keep \/ Ambiguous \/ Resolved \/ Mismatch \/ UseFails \/ Queried \/ Close
      BY <1>1, <3>1 DEF ListFails, Keep, Ambiguous, Resolved, Mismatch, UseFails, Queried, Close, Closing, Answering, Return
    <3>2. CASE Attribute \/ Probe
      BY <1>1, <3>2, Translated DEF Attribute, Probe, Closing, Return
    <3>3. CASE UNCHANGED result
      BY <1>1, <3>3 DEF Progress
    <3>4. CASE Opened
      BY <1>1, <3>4 DEF Opened
    <3>5. \/ ListFails \/ Keep \/ NotFound \/ Ambiguous \/ Resolved \/ Mismatch \/ UseFails \/ Queried \/ Close
          \/ Attribute \/ Probe \/ UNCHANGED result \/ Opened
      BY <1>1 DEF Next, Plug, Unplug, Devices, ById, ByInfo, Going, Search, List, Identify, Found, OpenNode, OpenFails,
                  Verify, BadState, vars
    <3> QED
      BY <3>1, <3>2, <3>3, <3>4, <3>5
  <2>2. at = "identify" /\ todo = {} /\ Named = {}
    BY <2>1 DEF NotFound, Listed
  <2> QED
    BY <1>1, <2>2, ShownAreNamed
<1>2. ASSUME IdentityInv, [Next]_vars
      PROVE  [at # "idle" /\ result' = "NotFound" => ~ \E u \in Steady : Shown(call.id, u)]_vars
  BY <1>1, <1>2
<1> QED
  BY <1>2, IdentityInvariant, PTL DEF Spec, PresentIsFound
===============================================================================
