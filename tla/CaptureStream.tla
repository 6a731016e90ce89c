---------------------------- MODULE CaptureStream ----------------------------
(***************************************************************************)
(* The Linux capture stream: Stream.Start, Read and Close of               *)
(* stream_linux.go over PCM.Recover and the in-flight guard of             *)
(* internal/alsa/pcm.go.  One goroutine reads; others close; the kernel    *)
(* overruns, suspends, times out and unplugs at any moment in between.     *)
(*                                                                         *)
(* Every ioctl of the reader is the acquire, issue, answer and release of  *)
(* PcmGuard, so Close and the kernel may act between any two of them.  The *)
(* decisions between ioctls are the actions of this module; each loads     *)
(* Stream.closed at most once, as the code does.                           *)
(***************************************************************************)
EXTENDS PcmKernel, FiniteSets

CONSTANTS Reader,         \* the single consumer
          Closers,        \* goroutines that call Stream.Close
          MaxRecoveries,  \* maxRecoveriesWithoutData
          MaxStalls,      \* maxStallRestarts
          ResumeRetries   \* resumeRetries

ASSUME BudgetAssumption ==
  /\ MaxRecoveries \in Nat
  /\ MaxStalls \in Nat
  /\ ResumeRetries \in Nat

ASSUME ReaderAssumption == Reader \notin Closers

VARIABLES closed, inflight, fd, dev, pc, op, res   \* the PCM: see PcmGuard

VARIABLES sclosed,     \* Stream.closed
          closer,      \* where each Stream.Close stands
          fresh,       \* neither Start nor Read has been called yet
          call,        \* the reader's call: "none", "Start" or "Read"
          at,          \* where the call stands
          asked,       \* the ioctl of this place has been asked for
          late,        \* Stream.closed was set when the call began
          cause,       \* the error under classification
          dirty,       \* the last ioctl failed after Stream.closed was set
          recoveries,  \* recoveries begun in this Read
          stalls,      \* stall restarts begun in this Read
          attempt,     \* RESUME retries in this recovery
          xruns,       \* what this Read added to Stream.xruns
          winOn,       \* the shortfall window has started
          result       \* what the last call returned

VARIABLES lost,        \* history: a discontinuity that xruns does not count yet
          winLost,     \* history: a discontinuity since the window started
          fails,       \* history: READI_FRAMES of this Read that failed recoverably
          timeouts,    \* history: the read timeouts among them
          there        \* history: the device was there when this Read probed it

guard   == <<closed, inflight, fd, dev, pc, op, res>>
closing == <<sclosed, closer>>
caller  == <<fresh, call, late, result>>
place   == <<at, asked, cause, dirty>>
budget  == <<recoveries, stalls, attempt, xruns>>
gaps    == <<winOn, lost, winLost>>
met     == <<fails, timeouts, there>>
vars    == <<guard, closing, caller, place, budget, gaps, met>>

OpsOf == [u \in {Reader} |-> Ioctls]

G == INSTANCE PcmGuard WITH Users <- {Reader}

\* Errors that reach the caller unchanged, and the ones the stream makes.
Errors  == (Errnos \ {"EBADF", "ENODEV"}) \cup {"StallError", "ShortfallError"}
Results == Errors \cup {"ok", "ErrClosed", "ErrDeviceGone"}

\* IsRecoverable, IsDeviceGone, and what a failed probe shows (deviceDisconnected).
Recoverable == {"EPIPE", "ESTRPIPE", "EIO"}
DeviceGone  == {"ENODEV"}
ProbedGone  == {"ENODEV", "EBADFD"}

\* The ioctl of each place of a call that has one.
OpAt == [start      |-> "START",    readi      |-> "READI",    drop       |-> "DROP",
         prepare    |-> "PREPARE",  restart    |-> "START",    resume     |-> "RESUME",
         stateProbe |-> "PVERSION", stallProbe |-> "PVERSION", shortProbe |-> "PVERSION"]

Places == DOMAIN OpAt \cup {"idle", "entry", "terminal"}

TypeOK ==
  /\ G!TypeOK
  /\ sclosed \in BOOLEAN
  /\ closer \in [Closers -> {"out", "closing", "returned"}]
  /\ fresh \in BOOLEAN
  /\ call \in {"none", "Start", "Read"}
  /\ at \in Places
  /\ asked \in BOOLEAN
  /\ late \in BOOLEAN
  /\ cause \in Errnos \cup {"ok"}
  /\ dirty \in BOOLEAN
  /\ recoveries \in 0 .. MaxRecoveries
  /\ stalls \in 0 .. MaxStalls
  /\ attempt \in 0 .. ResumeRetries
  /\ xruns \in 0 .. MaxRecoveries
  /\ result \in Results
  /\ winOn \in BOOLEAN
  /\ lost \in BOOLEAN
  /\ winLost \in BOOLEAN
  /\ fails \in 0 .. MaxRecoveries + 1
  /\ timeouts \in 0 .. MaxStalls + 1
  /\ there \in BOOLEAN

Init ==
  /\ G!Init
  /\ sclosed = FALSE /\ closer = [c \in Closers |-> "out"]
  /\ fresh = TRUE /\ call = "none" /\ late = FALSE /\ result = "ok"
  /\ at = "idle" /\ asked = FALSE /\ cause = "ok" /\ dirty = FALSE
  /\ recoveries = 0 /\ stalls = 0 /\ attempt = 0 /\ xruns = 0
  /\ winOn = FALSE /\ lost = FALSE /\ winLost = FALSE
  /\ fails = 0 /\ timeouts = 0 /\ there = FALSE

-----------------------------------------------------------------------------
\* The ioctl of a place is asked for through acquire,
Ask ==
  /\ at \in DOMAIN OpAt
  /\ ~ asked
  /\ asked' = TRUE
  /\ \/ G!Acquire(Reader, OpAt[at]) /\ UNCHANGED dirty
     \/ G!Refuse(Reader) /\ dirty' = sclosed
  /\ UNCHANGED <<closing, caller, at, cause, budget, gaps, met>>

\* may park, and is released at the end.
Hold == (G!Park(Reader) \/ G!Release(Reader)) /\ UNCHANGED <<closing, caller, place, budget, gaps, met>>

\* The kernel's answer.  The DROP of a stall restart discards what the ring held.
Answer1 ==
  /\ dirty' = (res'[Reader] # "ok" /\ sclosed)
  /\ LET dropped == op[Reader] = "DROP" /\ res'[Reader] = "ok"
     IN lost' = (lost \/ dropped) /\ winLost' = (winLost \/ dropped)
  /\ LET failed == at = "readi" /\ res'[Reader] \in Recoverable
     IN /\ fails' = IF failed THEN fails + 1 ELSE fails
        /\ timeouts' = IF failed /\ res'[Reader] = "EIO" THEN timeouts + 1 ELSE timeouts
  /\ there' = (at \in {"stallProbe", "shortProbe"} /\ ~ Unplugged(dev))
  /\ UNCHANGED <<closing, caller, at, asked, cause, budget, winOn>>

Issue   == G!Issue(Reader) /\ Answer1
Deliver == G!Deliver(Reader) /\ Answer1
TimeOut == G!TimeOut(Reader) /\ Answer1
Wake    == G!Wake(Reader) /\ Answer1

\* The call at place p knows what its ioctl returned.
Back(p) == at = p /\ asked /\ pc[Reader] = "out"
Err     == res[Reader]

-----------------------------------------------------------------------------
\* The call goes on to another place, to classify or recover from error e.
Goto(p, e) ==
  /\ at' = p
  /\ asked' = FALSE
  /\ cause' = e
  /\ UNCHANGED <<guard, closing, caller, dirty, met>>

\* The call returns r.  The counters are locals of Read, and so is what it has met.
Return(r) ==
  /\ call' = "none" /\ late' = FALSE /\ result' = r
  /\ at' = "idle" /\ asked' = FALSE /\ cause' = "ok" /\ dirty' = FALSE
  /\ recoveries' = 0 /\ stalls' = 0 /\ attempt' = 0 /\ xruns' = 0
  /\ fails' = 0 /\ timeouts' = 0 /\ there' = FALSE
  /\ UNCHANGED <<guard, closing, fresh>>

\* Faulty variants, each of which a property has to catch, stand before the definition
\* they are variants of.  Here: a probe judged without looking at Stream.closed, and
\* one that takes the guard's EBADF for a disconnect.
AfterProbeUnchecked(otherwise) == IF Err \in ProbedGone THEN "ErrDeviceGone" ELSE otherwise

AfterProbeOfEBADF(otherwise) ==
  CASE Err \in ProbedGone \cup {"EBADF"} -> "ErrDeviceGone"
    [] Err \notin ProbedGone \cup {"EBADF"} /\ sclosed -> "ErrClosed"
    [] OTHER -> otherwise

\* What a call returns after a probe: Stream.closed is loaded once more, since a
\* Close racing the probe fails it with EBADF.
AfterProbe(otherwise) ==
  CASE sclosed           -> "ErrClosed"
    [] ~ sclosed /\ Err \in ProbedGone -> "ErrDeviceGone"
    [] OTHER             -> otherwise

\* Start is called once at most and before the first Read, as documented.
Begin(kind) ==
  /\ call = "none"
  /\ kind = "Start" => fresh
  /\ call' = kind
  /\ fresh' = FALSE
  /\ late' = sclosed
  /\ at' = "entry"
  /\ UNCHANGED <<guard, closing, result, asked, cause, dirty, budget, gaps, met>>

\* Both calls first look at Stream.closed.
Enter ==
  /\ at = "entry"
  /\ IF sclosed THEN Return("ErrClosed") /\ UNCHANGED gaps
     ELSE /\ Goto(IF call = "Start" THEN "start" ELSE "readi", "ok")
          /\ UNCHANGED <<budget, gaps>>

Started ==
  /\ Back("start")
  /\ IF Err = "ok" THEN Return("ok") /\ UNCHANGED gaps
     ELSE Goto("terminal", Err) /\ UNCHANGED <<budget, gaps>>

\* checkShortfall on a successful ReadI: the first one starts the window, the
\* others return their frames or find the elapsed window short.
StartWindow ==
  /\ Back("readi") /\ Err = "ok" /\ ~ winOn
  /\ winOn' = TRUE /\ winLost' = FALSE
  /\ Return("ok") /\ UNCHANGED lost

WindowPasses == Back("readi") /\ Err = "ok" /\ winOn /\ Return("ok") /\ UNCHANGED gaps

WindowShort == Back("readi") /\ Err = "ok" /\ winOn /\ Goto("shortProbe", "ok") /\ UNCHANGED <<budget, gaps>>

ShortfallError == Back("shortProbe") /\ Return(AfterProbe("ShortfallError")) /\ UNCHANGED gaps

\* A failed ReadI: classified at once, out of budget, or recovered from.
ReadFailed ==
  /\ Back("readi") /\ Err # "ok"
  /\ sclosed \/ Err \notin Recoverable
  /\ Goto("terminal", Err)
  /\ UNCHANGED <<budget, gaps>>

\* Faulty: after the last stall restart any failure ends the Read.
BudgetAnyFailure == recoveries = MaxRecoveries \/ stalls = MaxStalls
OutOfBudget == recoveries = MaxRecoveries \/ (Err = "EIO" /\ stalls = MaxStalls)

GiveUp ==
  /\ Back("readi") /\ Err \in Recoverable /\ ~ sclosed
  /\ OutOfBudget
  /\ Goto("stallProbe", Err)
  /\ UNCHANGED <<budget, gaps>>

StallError == Back("stallProbe") /\ Return(AfterProbe("StallError")) /\ UNCHANGED gaps

\* Faulty: a stall restart without its DROP.
FirstStepNoDrop(e) == IF e = "ESTRPIPE" THEN "resume" ELSE "prepare"

\* Recover: RESUME after a suspend, DROP before the PREPARE of a stall restart (the
\* stream still runs and PREPARE would be EBUSY), PREPARE after an overrun.
FirstStep(e) ==
  CASE e = "ESTRPIPE" -> "resume"
    [] e = "EIO"      -> "drop"
    [] OTHER          -> "prepare"

Recover ==
  /\ Back("readi") /\ Err \in Recoverable /\ ~ sclosed
  /\ ~ OutOfBudget
  /\ recoveries' = recoveries + 1
  /\ stalls' = IF Err = "EIO" THEN stalls + 1 ELSE stalls
  /\ attempt' = 0
  /\ Goto(FirstStep(Err), "ok")
  /\ UNCHANGED <<xruns, gaps>>

\* One ioctl of a recovery: on to the next one, or its error ends the call.
RecoveryStep(p, next) ==
  /\ Back(p)
  /\ IF Err = "ok" THEN Goto(next, "ok") ELSE Goto("terminal", Err)
  /\ UNCHANGED <<budget, gaps>>

\* Faulty: a recovery that is not counted.
RecoveredUncounted ==
  /\ Back("restart") \/ Back("resume")
  /\ Err = "ok"
  /\ winOn' = FALSE
  /\ attempt' = 0
  /\ Goto("readi", "ok")
  /\ UNCHANGED <<recoveries, stalls, xruns, lost, winLost>>

\* The recovery is complete: the window may not span it, and it is counted.
Recovered ==
  /\ Back("restart") \/ Back("resume")
  /\ Err = "ok"
  /\ winOn' = FALSE
  /\ xruns' = xruns + 1 /\ lost' = FALSE
  /\ attempt' = 0
  /\ Goto("readi", "ok")
  /\ UNCHANGED <<recoveries, stalls, winLost>>

RestartFailed == Back("restart") /\ Err # "ok" /\ Goto("terminal", Err) /\ UNCHANGED <<budget, gaps>>

\* Faulty: RESUME is retried for as long as the driver asks.
ResumeForever ==
  /\ Back("resume") /\ Err # "ok"
  /\ \/ /\ Err = "EBADF" \/ Err \in DeviceGone
        /\ Goto("terminal", Err)
     \/ /\ Err = "EAGAIN"
        /\ Goto("resume", "ok")
     \/ /\ Err \notin {"EBADF", "EAGAIN"} \cup DeviceGone
        /\ Goto("prepare", "ok")
  /\ UNCHANGED <<recoveries, stalls, attempt, xruns, gaps>>

\* A failed RESUME: terminal when closed or gone, retried on EAGAIN after a sleep,
\* else the stream is re-prepared.
ResumeFailed ==
  /\ Back("resume") /\ Err # "ok"
  /\ \/ /\ Err = "EBADF" \/ Err \in DeviceGone
        /\ Goto("terminal", Err) /\ UNCHANGED attempt
     \/ /\ Err = "EAGAIN" /\ attempt < ResumeRetries
        /\ Goto("resume", "ok") /\ attempt' = attempt + 1
     \/ /\ Err \notin {"EBADF", "EAGAIN"} \cup DeviceGone \/ (Err = "EAGAIN" /\ attempt = ResumeRetries)
        /\ Goto("prepare", "ok") /\ UNCHANGED attempt
  /\ UNCHANGED <<recoveries, stalls, xruns, gaps>>

\* terminalError: a Close always wins, an EBADFD is an unplug or an ordinary state
\* error as one probe decides, and what is left is returned unchanged.
Terminal ==
  /\ at = "terminal"
  /\ IF ~ sclosed /\ cause = "EBADFD"
     THEN Goto("stateProbe", cause) /\ UNCHANGED <<budget, gaps>>
     ELSE /\ Return(CASE sclosed \/ cause = "EBADF"             -> "ErrClosed"
                       [] ~ sclosed /\ cause \in DeviceGone     -> "ErrDeviceGone"
                       [] OTHER                                -> cause)
          /\ UNCHANGED gaps

StateError == Back("stateProbe") /\ Return(AfterProbe(cause)) /\ UNCHANGED gaps

-----------------------------------------------------------------------------
\* Stream.Close: the first to swap the flag goes on to close the PCM.
Swap(c) ==
  /\ closer[c] = "out"
  /\ closer' = [closer EXCEPT ![c] = IF sclosed THEN "returned" ELSE "closing"]
  /\ sclosed' = TRUE
  /\ UNCHANGED <<guard, caller, place, budget, gaps, met>>

PcmClose(c) ==
  /\ closer[c] = "closing"
  /\ G!Closer(c)
  /\ UNCHANGED <<closing, caller, place, budget, gaps, met>>

\* The kernel interrupts the stream, or loses the device.
Interrupt ==
  /\ G!Event(Overrun(dev)) \/ G!Event(Suspend(dev))
  /\ lost' = TRUE /\ winLost' = TRUE
  /\ UNCHANGED <<closing, caller, place, budget, winOn, met>>

Vanish ==
  /\ G!Event(ShutDown(dev)) \/ G!Event(Disconnect(dev))
  /\ UNCHANGED <<closing, caller, place, budget, gaps, met>>

-----------------------------------------------------------------------------
Decide ==
  \/ Enter \/ Started \/ StartWindow \/ WindowPasses \/ WindowShort \/ ShortfallError
  \/ ReadFailed \/ GiveUp \/ StallError \/ Recover
  \/ RecoveryStep("drop", "prepare") \/ RecoveryStep("prepare", "restart")
  \/ Recovered \/ RestartFailed \/ ResumeFailed \/ Terminal \/ StateError

Next ==
  \/ \E kind \in {"Start", "Read"} : Begin(kind)
  \/ Ask \/ Hold \/ Issue \/ Deliver \/ TimeOut \/ Wake
  \/ Decide
  \/ \E c \in Closers : Swap(c) \/ PcmClose(c)
  \/ Interrupt \/ Vanish

Spec == Init /\ [][Next]_vars

\* The reader runs while it is in a call, the kernel answers what does not wait for
\* frames and wakes a parked reader whose stream stopped, a shut-down card is
\* disconnected, and a Close in progress goes on.
Fairness ==
  /\ WF_vars(Ask) /\ WF_vars(Hold) /\ WF_vars(Decide)
  /\ WF_vars(Issue) /\ WF_vars(Wake)
  /\ WF_vars(dev.shut /\ Vanish)
  /\ \A c \in Closers : WF_vars(PcmClose(c))

FairSpec == Spec /\ Fairness

\* Besides, a parked READI_FRAMES may be answered in the end: with frames, or by the
\* kernel's own read timeout.
ReadsAnswered == WF_vars(Deliver \/ TimeOut \/ Wake)

-----------------------------------------------------------------------------
\* No frames are delivered across an overrun, a suspend or a stall restart before
\* the discontinuity is in Xruns: a caller that sees Xruns unchanged between two
\* Reads has contiguous audio.  Nor does the shortfall window span one, so frames lost to
\* it are never taken for a slow device.
GapsAreCounted ==
  /\ TypeOK
  /\ pc[Reader] = "parked" /\ dev.state = "RUNNING" => ~ lost /\ (winOn => ~ winLost)

Returns == call # "none" /\ call' = "none"

\* A failure the kernel or the guard reported after Close was called is returned as
\* ErrClosed: Close's own DROP never looks like an unplug or a state error.
CloseWins == [][Returns /\ dirty => result' = "ErrClosed"]_vars

\* The only state error a caller gets to see is a suspend that landed between two
\* ioctls (the device may be unplugged by the time the call returns): a recovery never
\* asks PREPARE of a running stream, nor START of an unprepared one.
StateErrorIsSuspend ==
  [][Returns => /\ result' # "EBUSY"
                /\ result' = "EBADFD" => dev.state \in {"SUSPENDED", "DISCONNECTED"}]_vars

\* A StallError or ShortfallError says that the device was there when this Read probed
\* it and that no Close was called, and leaves no recovery of the Read uncounted.  A
\* StallError comes after the last READI_FRAMES the budget allows, neither one before
\* nor one after: recovery number MaxRecoveries or stall restart number MaxStalls was
\* followed by one more failure, or one more read timeout.
StallIsExhausted ==
  [][/\ Returns /\ result' \in {"StallError", "ShortfallError"} =>
          there /\ ~ sclosed /\ xruns = IF result' = "StallError" THEN fails - 1 ELSE fails
     /\ Returns /\ result' = "StallError" =>
          fails = MaxRecoveries + 1 \/ timeouts = MaxStalls + 1]_vars

\* The results of Start and Read keep the stream's contract.
Contract == INSTANCE CaptureContract WITH isClosed <- sclosed, isGone <- Unplugged(dev)
ContractSpec == Contract!Spec

\* A call in progress when Close is called returns, even when the device never delivers
\* and the kernel never times out.
CloseUnblocks == sclosed /\ call # "none" ~> call = "none"

\* However the device fails, the recovery budget ends every Read, provided the kernel
\* answers each READI_FRAMES in the end; the other liveness properties ask no such thing.
ReadReturns == ReadsAnswered => (call = "Read" ~> call = "none")

\* "System suspend and resume (Linux) | none: recovered and counted" (README.md:260):
\* no Read that finds the stream suspended hands the suspend's state error out.
SuspendIsRecovered ==
  [][Returns /\ call = "Read" => ~ (result' = "EBADFD" /\ dev.state = "SUSPENDED")]_vars
==============================================================================
