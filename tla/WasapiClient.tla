---------------------------- MODULE WasapiClient ----------------------------
(***************************************************************************)
(* The Windows capture stream: Open, Start, Read and Close of              *)
(* stream_windows.go over the Client of internal/wasapi/client.go.  A      *)
(* Read fills under the client's mutex and waits outside it for an audio   *)
(* or a close event; Close sets the flag, wakes the Read, waits for it on  *)
(* a WaitGroup and only then releases the COM references and the handles.  *)
(*                                                                         *)
(* Which frames a fill returns is WasapiFill's; here a fill returns        *)
(* frames, nothing, or an error.  COM and the events are external.         *)
(***************************************************************************)
EXTENDS Naturals, WasapiEndpoints

CONSTANTS Closers,   \* goroutines that call Stream.Close
          Opener     \* the goroutine of Open, which closes what it could not set up

ASSUME OpenerAssumption == Opener \notin Closers

VARIABLES phase,     \* where Open stands
          fields,    \* the fields of Client that are set
          live,      \* the references and handles the process really holds
          mu,        \* Client.mu: "free", or "read" or "start" for the call holding it
          cclosed,   \* Client.closed
          readers,   \* Client.readerWG
          audio,     \* the auto-reset audio event is signaled
          closeSet,  \* the manual-reset close event is signaled
          gone,      \* the endpoint is invalidated
          sclosed,   \* Stream.closed
          closer,    \* where each Close stands
          call,      \* the consumer's call: "none", "Start" or "Read"
          at,        \* where it stands
          late,      \* Stream.closed was set when it began
          cause,     \* what Client.Start or Client.Read returned
          result     \* what the last call returned

opening == <<phase, fields, live, endpoints>>
events  == <<audio, closeSet, gone>>
closing == <<sclosed, closer>>
caller  == <<call, at, late, cause, result>>
vars    == <<opening, mu, cclosed, readers, events, closing, caller>>

Com       == {"device", "client", "capture"}
Handles   == {"audioEvent", "closeEvent"}
Resources == Com \cup Handles

Phases == {"activate", "format", "initialize", "align", "events", "arm", "service", "undo", "open", "refused"}

\* A Close has not begun, is about to swap Client.closed, waits for the reader, is
\* about to release, is about to close the handles, or has returned.
CloserPcs == {"out", "swap", "drain", "release", "handles", "done"}

Places == {"idle", "entry", "lockStart", "starting", "register", "check", "lock", "fill", "wait",
           "leave", "translate"}

Causes  == {"ok", "closed", "gone", "EDRV"}
Errors  == {"EDRV"}
Results == Errors \cup {"ok", "ErrClosed", "ErrDeviceGone"}

TypeOK ==
  /\ EndpointTypes
  /\ phase \in Phases
  /\ fields \subseteq Resources
  /\ live \subseteq Resources
  /\ mu \in {"free", "read", "start"}
  /\ cclosed \in BOOLEAN
  /\ readers \in 0 .. 1
  /\ audio \in BOOLEAN /\ closeSet \in BOOLEAN /\ gone \in BOOLEAN
  /\ sclosed \in BOOLEAN
  /\ closer \in [Closers \cup {Opener} -> CloserPcs]
  /\ call \in {"none", "Start", "Read"}
  /\ at \in Places
  /\ late \in BOOLEAN
  /\ cause \in Causes
  /\ result \in Results

Init ==
  /\ EndpointInit
  /\ phase = "activate" /\ fields = {} /\ live = {}
  /\ mu = "free" /\ cclosed = FALSE /\ readers = 0
  /\ audio = FALSE /\ closeSet = FALSE /\ gone = FALSE
  /\ sclosed = FALSE /\ closer = [c \in Closers \cup {Opener} |-> "out"]
  /\ call = "none" /\ at = "idle" /\ late = FALSE /\ cause = "ok" /\ result = "ok"

-----------------------------------------------------------------------------
\* Open.  Each step of Negotiate may fail and leave the client half set up, which
\* Open answers with Close.
Opens(to, set, held) ==
  /\ phase' = to
  /\ fields' = set
  /\ live' = held
  /\ closer' = IF to = "undo" THEN [closer EXCEPT ![Opener] = "swap"] ELSE closer
  /\ UNCHANGED <<endpoints, mu, cclosed, readers, events, sclosed, caller>>

GiveUp == Opens("undo", fields, live)

Gets(to, new) == Opens(to, fields \cup new, live \cup new)

\* Faulty variants, each of which a property has to catch, stand before the definition
\* they are variants of.

\* Until Open has an audio client, endpoints are looked for and come and go.
Finding ==
  /\ phase = "activate"
  /\ \/ \E e \in Endpoints : Come(e) \/ Go(e)
     \/ Ask("Devices", Nothing)
     \/ \E kind \in {"Resolve", "Open"}, id \in Endpoints \cup {Default} : Ask(kind, id)
     \/ Enumerate
  /\ UNCHANGED <<phase, fields, live, mu, cclosed, readers, events, closing, caller>>

Activate ==
  /\ phase = "activate" /\ Activated
  /\ phase' = "format" /\ fields' = {"device", "client"} /\ live' = {"device", "client"}
  /\ UNCHANGED <<mu, cclosed, readers, events, closing, caller>>

FormatSupported == phase = "format" /\ (Gets("initialize", {}) \/ GiveUp)

\* A client whose buffer size is not aligned cannot be initialized again,
Initialize == phase = "initialize" /\ (Gets("events", {}) \/ Gets("align", {}) \/ GiveUp)

\* so it is released and a fresh one is activated and initialized.
Reactivate ==
  /\ phase = "align"
  /\ \/ Opens("undo", fields \ {"client"}, live \ {"client"})
     \/ Gets("events", {})
     \/ GiveUp

CreateEvents == phase = "events" /\ (Gets("arm", Handles) \/ GiveUp)

SetEventHandle == phase = "arm" /\ (Gets("service", {}) \/ GiveUp)

\* Faulty: Open returns the error without closing the client.
GetCaptureClientLeaking ==
  phase = "service" /\ (Gets("open", {"capture"}) \/ Opens("refused", fields, live))

GetCaptureClient == phase = "service" /\ (Gets("open", {"capture"}) \/ GiveUp)

\* The Close of a failed Negotiate is done, and Open returns the error.
Refused ==
  /\ phase = "undo" /\ closer[Opener] = "done"
  /\ phase' = "refused"
  /\ UNCHANGED <<fields, live, endpoints, mu, cclosed, readers, events, closing, caller>>

Open ==
  \/ Finding \/ Activate \/ FormatSupported \/ Initialize \/ Reactivate
  \/ CreateEvents \/ SetEventHandle \/ GetCaptureClient \/ Refused

-----------------------------------------------------------------------------
\* The consumer's call moves to place p.
Goto(p) == at' = p /\ UNCHANGED <<call, late, cause, result>>

\* Client.Start or Client.Read returns e to the stream.
Ends(p, e) == at' = p /\ cause' = e /\ UNCHANGED <<call, late, result>>

Return(r) ==
  /\ call' = "none" /\ at' = "idle" /\ late' = FALSE /\ cause' = "ok"
  /\ result' = r

Begin(kind) ==
  /\ phase = "open"
  /\ call = "none"
  /\ call' = kind /\ at' = "entry" /\ late' = sclosed
  /\ UNCHANGED <<opening, mu, cclosed, readers, events, closing, cause, result>>

\* Faulty: the stream's flag is not looked at.
EnterUnchecked ==
  /\ at = "entry"
  /\ Goto(IF call = "Start" THEN "lockStart" ELSE "register")
  /\ UNCHANGED <<opening, mu, cclosed, readers, events, closing>>

Enter ==
  /\ at = "entry"
  /\ CASE sclosed                      -> Return("ErrClosed")
       [] ~ sclosed /\ call = "Start"  -> Goto("lockStart")
       [] ~ sclosed /\ call = "Read"   -> Goto("register")
  /\ UNCHANGED <<opening, mu, cclosed, readers, events, closing>>

\* Client.Start looks at closed and calls IAudioClient::Start under the mutex.
LockStart ==
  /\ at = "lockStart" /\ mu = "free"
  /\ IF cclosed \/ "client" \notin fields
     THEN Ends("translate", "closed") /\ UNCHANGED mu
     ELSE Goto("starting") /\ mu' = "start"
  /\ UNCHANGED <<opening, cclosed, readers, events, closing>>

Failures == IF gone THEN {"gone", "EDRV"} ELSE {"EDRV"}

Started ==
  /\ at = "starting"
  /\ \E e \in Failures \cup (IF gone THEN {} ELSE {"ok"}) : Ends("translate", e)
  /\ mu' = "free"
  /\ UNCHANGED <<opening, cclosed, readers, events, closing>>

\* Client.Read counts itself in, unless the client is closed.
Register ==
  /\ at = "register" /\ mu = "free"
  /\ IF cclosed THEN Ends("translate", "closed") /\ UNCHANGED readers
     ELSE Goto("check") /\ readers' = readers + 1
  /\ UNCHANGED <<opening, mu, cclosed, events, closing>>

Check ==
  /\ at = "check"
  /\ IF cclosed THEN Ends("leave", "closed") ELSE Goto("lock")
  /\ UNCHANGED <<opening, mu, cclosed, readers, events, closing>>

Lock ==
  /\ at = "lock" /\ mu = "free"
  /\ IF cclosed THEN Ends("leave", "closed") /\ UNCHANGED mu
     ELSE Goto("fill") /\ mu' = "read"
  /\ UNCHANGED <<opening, cclosed, readers, events, closing>>

\* The fill returns frames, an error, or nothing.
Fill ==
  /\ at = "fill"
  /\ \/ \E e \in {"ok"} \cup Failures : Ends("leave", e)
     \/ Goto("wait")
  /\ mu' = "free"
  /\ UNCHANGED <<opening, cclosed, readers, events, closing>>

\* WaitForMultipleObjects returns the audio event, which resets it, before the close
\* event; a closed client ends the Read whichever it was.
Woken ==
  /\ at = "wait"
  /\ audio \/ closeSet
  /\ audio' = FALSE
  /\ IF cclosed \/ ~ audio THEN Ends("leave", "closed") ELSE Goto("check")
  /\ UNCHANGED <<opening, mu, cclosed, readers, closeSet, gone, closing>>

WaitFails ==
  /\ at = "wait"
  /\ Ends("leave", IF cclosed THEN "closed" ELSE "EDRV")
  /\ UNCHANGED <<opening, mu, cclosed, readers, events, closing>>

Leave ==
  /\ at = "leave"
  /\ readers' = readers - 1
  /\ Goto("translate")
  /\ UNCHANGED <<opening, mu, cclosed, events, closing>>

\* Back in the stream: any failure after Close is ErrClosed.
Translate ==
  /\ at = "translate"
  /\ Return(CASE cause = "ok"                               -> "ok"
              [] cause # "ok" /\ (sclosed \/ cause = "closed") -> "ErrClosed"
              [] cause = "gone" /\ ~ sclosed                -> "ErrDeviceGone"
              [] OTHER                                      -> "EDRV")
  /\ UNCHANGED <<opening, mu, cclosed, readers, events, closing>>

Reader ==
  \/ Enter \/ LockStart \/ Started \/ Register \/ Check \/ Lock \/ Fill
  \/ Woken \/ Leave \/ Translate

-----------------------------------------------------------------------------
Moves(c, p) == closer' = [closer EXCEPT ![c] = p]

\* Stream.Close: the first to swap the stream's flag closes the client.
Close(c) ==
  /\ phase = "open"
  /\ closer[c] = "out"
  /\ Moves(c, IF sclosed THEN "done" ELSE "swap")
  /\ sclosed' = TRUE
  /\ UNCHANGED <<opening, mu, cclosed, readers, events, caller>>

\* Faulty: Close does not signal the close event.
SwapSilently(c) ==
  /\ closer[c] = "swap" /\ mu = "free"
  /\ Moves(c, IF cclosed THEN "done" ELSE "drain")
  /\ cclosed' = TRUE
  /\ UNCHANGED <<opening, mu, readers, events, sclosed, caller>>

\* Client.Close, under the mutex: the flag, and the event a parked Read waits for.
Swap(c) ==
  /\ closer[c] = "swap" /\ mu = "free"
  /\ Moves(c, IF cclosed THEN "done" ELSE "drain")
  /\ cclosed' = TRUE
  /\ closeSet' = (closeSet \/ (~ cclosed /\ "closeEvent" \in fields))
  /\ UNCHANGED <<opening, mu, readers, audio, gone, sclosed, caller>>

\* Faulty: Close does not wait for the reader.
DrainAtOnce(c) ==
  /\ closer[c] = "drain"
  /\ Moves(c, "release")
  /\ UNCHANGED <<opening, mu, cclosed, readers, events, sclosed, caller>>

\* readerWG.Wait
Drain(c) ==
  /\ closer[c] = "drain" /\ readers = 0
  /\ Moves(c, "release")
  /\ UNCHANGED <<opening, mu, cclosed, readers, events, sclosed, caller>>

\* Stop, and the COM references, under the mutex again.
Release(c) ==
  /\ closer[c] = "release" /\ mu = "free"
  /\ live' = live \ (fields \cap Com)
  /\ fields' = fields \ Com
  /\ Moves(c, "handles")
  /\ UNCHANGED <<phase, endpoints, mu, cclosed, readers, events, sclosed, caller>>

\* The handles are closed; their fields keep their values.
CloseHandles(c) ==
  /\ closer[c] = "handles"
  /\ live' = live \ (fields \cap Handles)
  /\ Moves(c, "done")
  /\ UNCHANGED <<phase, fields, endpoints, mu, cclosed, readers, events, sclosed, caller>>

Closer(c) == Swap(c) \/ Drain(c) \/ Release(c) \/ CloseHandles(c)

-----------------------------------------------------------------------------
\* The device signals a buffer; the endpoint is invalidated and signals no more.
Signal ==
  /\ phase = "open" /\ ~ gone /\ ~ audio
  /\ audio' = TRUE
  /\ UNCHANGED <<opening, mu, cclosed, readers, closeSet, gone, closing, caller>>

Invalidate ==
  /\ phase = "open" /\ ~ gone
  /\ gone' = TRUE
  /\ UNCHANGED <<opening, mu, cclosed, readers, audio, closeSet, closing, caller>>

Next ==
  \/ Open
  \/ \E kind \in {"Start", "Read"} : Begin(kind)
  \/ Reader \/ WaitFails
  \/ \E c \in Closers : Close(c)
  \/ \E c \in Closers \cup {Opener} : Closer(c)
  \/ Signal \/ Invalidate

Spec == Init /\ [][Next]_vars

\* The reader and a Close run on; Go's mutex does not starve a Close that asks for
\* it again and again.  Neither the device nor a waiting call owes anything.
FairSpec ==
  /\ Spec
  /\ WF_vars(Reader)
  /\ \A c \in Closers \cup {Opener} :
       SF_vars(Swap(c)) /\ WF_vars(Drain(c)) /\ SF_vars(Release(c)) /\ WF_vars(CloseHandles(c))

-----------------------------------------------------------------------------
\* No COM reference is used after Close released it, and no handle is closed while
\* a Read waits on it: its number could be another object's by then.  What a Close is
\* about to release or close is still held: nothing is released twice, however far
\* Negotiate came.
UsesAreLive ==
  /\ TypeOK
  /\ at = "starting" => "client" \in live
  /\ at = "fill" => Com \subseteq live
  /\ at = "wait" => Handles \subseteq live
  /\ \A c \in Closers \cup {Opener} :
       /\ closer[c] \in {"swap", "drain", "release"} => fields = live
       /\ closer[c] = "handles" => fields = live /\ live \cap Com = {}

\* A call of Devices, Resolve or Open leaves no reference behind, but those Open hands
\* to its client; an Open that failed later and a Close that did its work leave nothing.
NothingLeaks ==
  /\ task = "none" => refs = {}
  /\ phase = "refused" \/ (cclosed /\ \A c \in Closers \cup {Opener} : closer[c] \in {"out", "done"})
       => live = {}

\* Start and Read keep the contract the Linux stream keeps.
Contract == INSTANCE CaptureContract WITH isClosed <- sclosed, isGone <- gone
ContractSpec == Contract!Spec

\* Close returns, and ends the call in progress, even if the device never signals.
CloseReturns ==
  /\ \A c \in Closers \cup {Opener} : closer[c] = "swap" ~> closer[c] = "done"
  /\ sclosed /\ call # "none" ~> call = "none"
=============================================================================
