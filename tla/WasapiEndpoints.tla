--------------------------- MODULE WasapiEndpoints ---------------------------
(***************************************************************************)
(* Devices and Resolve of devices_windows.go, and the way of Open of       *)
(* internal/wasapi/client.go to an activated endpoint, over the COM calls  *)
(* of enumerate.go.  Endpoints come and go between any two calls, every    *)
(* call may fail, and each reference is released by the function that took *)
(* it: by a defer, or on the way out of a turn of the loop.                *)
(*                                                                         *)
(* An endpoint stands for its id.  Names only sort the list.               *)
(***************************************************************************)
EXTENDS FiniteSets

CONSTANTS Endpoints,   \* the endpoints the machine knows
          Default,     \* the id "" or "default"
          Nothing      \* no endpoint

ASSUME EndpointAssumption == Default \notin Endpoints /\ Nothing \notin Endpoints \cup {Default}

VARIABLES active,   \* the endpoints that are there
          task,     \* the call in progress: "none", "Devices", "Resolve" or "Open"
          asked,    \* the id it was given
          place,    \* the COM call it is at
          refs,     \* the references and strings it holds, each with the endpoint it is of
          left,     \* the items of the collection that are not read yet
          dev,      \* the endpoint in hand
          listed,   \* the endpoints read so far
          told,     \* what the last call returned
          stayed,   \* endpoints that were there for the whole call
          missed    \* endpoints of which Item or GetId failed

holding   == <<refs, left, dev, listed>>
endpoints == <<active, task, asked, place, holding, told, stayed, missed>>

FindPlaces == {"idle", "enumerator", "collection", "count", "item", "id", "store", "value", "device", "activate"}

Enum       == <<"enum", Nothing>>
Collection == <<"collection", Nothing>>
Device(e)  == <<"device", e>>
Store(e)   == <<"store", e>>

Untold == [result |-> "none", of |-> {}]

EndpointTypes ==
  /\ active \subseteq Endpoints
  /\ task \in {"none", "Devices", "Resolve", "Open"} /\ asked \in Endpoints \cup {Default, Nothing}
  /\ place \in FindPlaces
  /\ left \subseteq Endpoints /\ dev \in Endpoints \cup {Nothing} /\ listed \subseteq Endpoints
  /\ told \in [result : {"none", "ok", "NotFound", "ErrDeviceGone", "EDRV"}, of : SUBSET Endpoints]
  /\ stayed \subseteq Endpoints /\ missed \subseteq Endpoints

EndpointInit ==
  /\ active \in SUBSET Endpoints
  /\ task = "none" /\ asked = Nothing /\ place = "idle" /\ refs = {} /\ left = {} /\ dev = Nothing
  /\ listed = {} /\ told = Untold /\ stayed = {} /\ missed = {}

-----------------------------------------------------------------------------
Come(e) ==
  /\ e \notin active /\ active' = active \cup {e}
  /\ UNCHANGED <<task, asked, place, holding, told, stayed, missed>>

Go(e) ==
  /\ e \in active /\ active' = active \ {e}
  /\ stayed' = stayed \ {e}
  /\ UNCHANGED <<task, asked, place, holding, told, missed>>

\* An endpoint is asked for by id, or, of Resolve and Open, by default.
Ask(kind, id) ==
  /\ task = "none"
  /\ task' = kind /\ asked' = id /\ place' = "enumerator" /\ told' = Untold /\ stayed' = active
  /\ UNCHANGED <<active, holding, missed>>

\* Resolve of the default asks WASAPI for it; of an id, it looks through the list.
Lists == task = "Devices" \/ (task = "Resolve" /\ asked # Default)

\* What the function that ends has deferred the release of.
Deferred ==
  IF Lists THEN {Enum, Collection} ELSE IF task = "Resolve" THEN {Enum, Device(dev)} ELSE {Enum}

\* The call returns r, of the endpoints in found, having released or handed on freed.
Answer(r, found, freed) ==
  /\ told' = [result |-> r, of |-> found]
  /\ refs' = refs \ (Deferred \cup freed)
  /\ task' = "none" /\ asked' = Nothing /\ place' = "idle"
  /\ left' = {} /\ dev' = Nothing /\ listed' = {} /\ stayed' = {} /\ missed' = {}
  /\ UNCHANGED active

Fails(r) == Answer(r, {}, {})

\* The next COM call, with what the last one gave or what was released meanwhile.
To(p, held) == place' = p /\ refs' = held /\ UNCHANGED <<active, task, asked, told, stayed>>

CreateEnumerator ==
  /\ place = "enumerator"
  /\ \/ To(IF Lists THEN "collection" ELSE "device", refs \cup {Enum}) /\ UNCHANGED <<left, dev, listed, missed>>
     \/ Fails("EDRV")

\* The collection keeps the endpoints that were active when it was made.
EnumEndpoints ==
  /\ place = "collection"
  /\ \/ To("count", refs \cup {Collection}) /\ left' = active /\ UNCHANGED <<dev, listed, missed>>
     \/ Fails("EDRV")

\* A failed GetCount is an error.  Faulty: it counts none.
CollectionCountAsZero ==
  /\ place = "count"
  /\ To("item", refs) /\ left' \in {left, {}} /\ UNCHANGED <<dev, listed, missed>>

CollectionCount ==
  /\ place = "count"
  /\ \/ To("item", refs) /\ UNCHANGED <<left, dev, listed, missed>>
     \/ Fails("EDRV")

CollectionItem ==
  /\ place = "item"
  /\ \E e \in left :
       /\ left' = left \ {e}
       /\ \/ To("id", refs \cup {Device(e)}) /\ dev' = e /\ UNCHANGED <<listed, missed>>
          \/ To("item", refs) /\ missed' = missed \cup {e} /\ UNCHANGED <<dev, listed>>

\* The id is copied and its string freed; of the default, a failure ends the call.
\* Faulty: the turn of the loop ends without the release.
DeviceIdLeaking ==
  /\ place = "id"
  /\ \/ To("store", refs) /\ UNCHANGED <<left, dev, listed, missed>>
     \/ Lists /\ To("item", refs) /\ missed' = missed \cup {dev} /\ UNCHANGED <<left, dev, listed>>
     \/ ~ Lists /\ Fails("EDRV")

DeviceId ==
  /\ place = "id"
  /\ \/ To("store", refs) /\ UNCHANGED <<left, dev, listed, missed>>
     \/ /\ Lists
        /\ To("item", refs \ {Device(dev)}) /\ missed' = missed \cup {dev} /\ UNCHANGED <<left, dev, listed>>
     \/ ~ Lists /\ Fails("EDRV")

\* deviceFriendlyName is back, with whatever name: the endpoint is one of the list,
\* or the default.
Named ==
  IF Lists
  THEN /\ To("item", refs \ {Device(dev), Store(dev)})
       /\ listed' = listed \cup {dev} /\ UNCHANGED <<left, dev, missed>>
  ELSE Answer("ok", {dev}, {Store(dev)})

OpenPropertyStore ==
  /\ place = "store"
  /\ (To("value", refs \cup {Store(dev)}) /\ UNCHANGED <<left, dev, listed, missed>>) \/ Named

GetValue == place = "value" /\ Named

\* The list is complete: Devices returns it, and Resolve the one that was asked for.
Listed ==
  /\ place = "item" /\ left = {}
  /\ IF task = "Devices" THEN Answer("ok", listed, {})
     ELSE IF asked \in listed THEN Answer("ok", {asked}, {}) ELSE Fails("NotFound")

\* resolveDevice.  GetDevice finds an endpoint that is known though not there.
ResolveDevice ==
  /\ place = "device"
  /\ \/ \E e \in IF asked = Default THEN active ELSE {asked} :
          /\ To(IF task = "Resolve" THEN "id" ELSE "activate", refs \cup {Device(e)})
          /\ dev' = e /\ UNCHANGED <<left, listed, missed>>
     \/ asked = Default /\ active = {} /\ Fails(IF task = "Resolve" THEN "NotFound" ELSE "ErrDeviceGone")
     \/ asked # Default /\ asked \notin active /\ Fails("ErrDeviceGone")
     \/ Fails("EDRV")

\* The endpoint is activated, and with it handed to the client that Open returns, or
\* released.
Activated == place = "activate" /\ dev \in active /\ Answer("ok", {dev}, {Device(dev)})

ActivateFails ==
  /\ place = "activate"
  /\ Answer(IF dev \in active THEN "EDRV" ELSE "ErrDeviceGone", {}, {Device(dev)})

Enumerate ==
  \/ CreateEnumerator \/ EnumEndpoints \/ CollectionCount \/ CollectionItem \/ DeviceId
  \/ OpenPropertyStore \/ GetValue \/ Listed \/ ResolveDevice \/ ActivateFails

-----------------------------------------------------------------------------
Absent == {"NotFound", "ErrDeviceGone"}

\* Devices lists every endpoint that was there from its beginning to its end and that
\* could be read, and neither Resolve nor Open calls such an endpoint absent: a machine
\* whose enumeration fails is not one without endpoints.
EndpointsAreTold ==
  [][task # "none" /\ task' = "none" =>
       /\ task = "Devices" /\ told'.result = "ok" => stayed \ missed \subseteq told'.of
       /\ asked \in Endpoints /\ told'.result \in Absent => asked \notin stayed \ missed
       /\ asked = Default /\ told'.result = "NotFound" => stayed = {}]_endpoints
=============================================================================
