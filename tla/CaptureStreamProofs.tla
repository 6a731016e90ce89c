-------------------------- MODULE CaptureStreamProofs --------------------------
(***************************************************************************)
(* CaptureStream for every recovery budget and any set of closers: its     *)
(* types, that no frames pass an uncounted discontinuity, what the errors  *)
(* of Start and Read mean, and that they keep CaptureContract.             *)
(***************************************************************************)
EXTENDS CaptureStream, FiniteSetTheorems, TLAPS

-----------------------------------------------------------------------------
\* The guard's kernel is this module's.
LEMMA SameTypes == G!Ioctls = Ioctls /\ G!Errnos = Errnos /\ G!Devices = Devices
BY DEF G!Ioctls, Ioctls, G!Errnos, Errnos, G!Devices, Devices, G!PcmStates, PcmStates

LEMMA SameKernel ==
  ASSUME NEW d, NEW o
  PROVE  /\ G!Waits(d) = Waits(d) /\ G!StateErrno(d.state) = StateErrno(d.state)
         /\ G!Answers(o, d) = Answers(o, d)
<1>1. \A e, x : G!Answer(e, x) = Answer(e, x)
  BY DEF G!Answer, Answer
<1>2. \A s : G!In(s, d) = In(s, d)
  BY DEF G!In, In
<1>3. G!Waits(d) = Waits(d) /\ G!StateErrno(d.state) = StateErrno(d.state)
  BY DEF G!Waits, Waits, G!StateErrno, StateErrno
<1>4. G!PrepareAnswers(d) = PrepareAnswers(d) /\ G!StartAnswers(d) = StartAnswers(d)
  BY <1>1, <1>2 DEF G!PrepareAnswers, PrepareAnswers, G!StartAnswers, StartAnswers
<1>5. /\ G!DropAnswers(d) = DropAnswers(d) /\ G!ResumeAnswers(d) = ResumeAnswers(d)
      /\ G!ProbeAnswers(d) = ProbeAnswers(d)
  BY <1>1, <1>2 DEF G!DropAnswers, DropAnswers, G!ResumeAnswers, ResumeAnswers, G!ProbeAnswers, ProbeAnswers
<1>6. G!Answers(o, d) = Answers(o, d)
  BY <1>1, <1>3, <1>4, <1>5 DEF G!Answers, Answers
<1> QED
  BY <1>3, <1>6

-----------------------------------------------------------------------------
\* What an ioctl of the reader says of the device it found, and leaves behind.  A
\* parked READI may be answered on a card whose operations were shut down meanwhile.
Means(o, d, e, n, parked) ==
  /\ e \in (Errnos \ {"EBADF"}) \cup {"ok"} /\ n \in Devices
  /\ n.saved = d.saved /\ n.shut = d.shut
  /\ e # "ok" => n.state = d.state
  /\ e # "ok" /\ o = "PREPARE" => d.shut \/ d.state \in {"RUNNING", "DISCONNECTED"}
  /\ e = "ok" => d.state # "DISCONNECTED"
  /\ e = "ok" /\ o = "READI" => d.state = "RUNNING" /\ n.state = "RUNNING"
  /\ e = "ok" /\ o = "PREPARE" => n.state = "PREPARED"
  /\ e = "ok" /\ o = "START" => d.state = "PREPARED" /\ n.state = "RUNNING"
  /\ e = "ok" /\ o = "DROP" => n.state = "SETUP"
  /\ e = "ok" /\ o = "RESUME" => d.state = "SUSPENDED" /\ n.state = d.saved
  /\ e = "ok" /\ o = "PVERSION" => n.state = d.state /\ ~ Unplugged(d)
  /\ o = "PVERSION" => e \in {"ok", "ENODEV", "EBADFD"}
  /\ e = "ENODEV" => d.shut
  /\ e = "EBUSY" => o = "PREPARE" /\ d.state = "RUNNING"
  /\ e \in {"EPIPE", "ESTRPIPE"} => o = "READI" /\ ~ Waits(d)
  /\ e = "EBADFD" =>
       /\ ~ d.shut \/ parked
       /\ o = "READI" => d.state \in {"SETUP", "DISCONNECTED"}
       /\ o = "START" => d.state # "PREPARED"
       /\ o \notin {"READI", "START", "RESUME"} => d.state = "DISCONNECTED"

LEMMA ReadErrno ==
  ASSUME NEW d \in Devices, ~ Waits(d)
  PROVE  /\ StateErrno(d.state) \in {"EPIPE", "ESTRPIPE", "EBADFD"}
         /\ StateErrno(d.state) = "EBADFD" => d.state \in {"SETUP", "DISCONNECTED"}
BY DEF Devices, PcmStates, StateErrno, Waits

LEMMA AnswersMean ==
  ASSUME NEW d \in Devices, NEW o \in Ioctls, NEW a \in Answers(o, d)
  PROVE  Means(o, d, a.err, a.dev, FALSE)
<1>1. d.state \in PcmStates /\ d.saved \in PcmStates /\ d.shut \in BOOLEAN
  BY DEF Devices
<1>2. \A e, x : Answer(e, x).err = e /\ Answer(e, x).dev = x
  BY DEF Answer
<1>3. \A s \in PcmStates : /\ In(s, d) \in Devices /\ In(s, d).state = s
                           /\ In(s, d).saved = d.saved /\ In(s, d).shut = d.shut
  BY DEF In, Devices
<1>4. {"PREPARED", "RUNNING", "SETUP"} \subseteq PcmStates
  BY DEF PcmStates
<1>5. CASE d.shut
  <2>1. a = Answer("ENODEV", d)
    BY <1>5 DEF Answers
  <2> QED
    <3>1. a.err = "ENODEV" /\ a.dev = d
      BY <1>2, <2>1
    <3> QED
      BY <1>1, <1>5, <3>1 DEF Means, Errnos
<1>6. CASE ~ d.shut /\ o = "READI"
  <2>1. ~ Waits(d) /\ a = Answer(StateErrno(d.state), d)
    BY <1>6 DEF Answers
  <2> QED
    BY <1>1, <1>2, <1>6, <2>1, ReadErrno DEF Means, Errnos
<1>7. CASE ~ d.shut /\ o = "PREPARE"
  <2>1. \/ d.state = "RUNNING" /\ a = Answer("EBUSY", d)
        \/ d.state = "DISCONNECTED" /\ a = Answer("EBADFD", d)
        \/ d.state \notin {"RUNNING", "DISCONNECTED"} /\ a = Answer("ok", In("PREPARED", d))
    BY <1>7 DEF Answers, PrepareAnswers
  <2> QED
    BY <1>1, <1>2, <1>3, <1>4, <1>7, <2>1 DEF Means, Errnos
<1>8. CASE ~ d.shut /\ o = "START"
  <2>1. \/ d.state = "PREPARED" /\ a \in {Answer("ok", In("RUNNING", d)), Answer("EDRV", d)}
        \/ d.state # "PREPARED" /\ a = Answer("EBADFD", d)
    BY <1>8 DEF Answers, StartAnswers
  <2> QED
    BY <1>1, <1>2, <1>3, <1>4, <1>8, <2>1 DEF Means, Errnos
<1>9. CASE ~ d.shut /\ o = "DROP"
  <2>1. \/ d.state = "DISCONNECTED" /\ a = Answer("EBADFD", d)
        \/ d.state # "DISCONNECTED" /\ a = Answer("ok", In("SETUP", d))
    BY <1>9 DEF Answers, DropAnswers
  <2> QED
    BY <1>1, <1>2, <1>3, <1>4, <1>9, <2>1 DEF Means, Errnos
<1>10. CASE ~ d.shut /\ o = "RESUME"
  <2>1. \/ d.state = "SUSPENDED" /\ a \in {Answer("ok", In(d.saved, d)), Answer("EAGAIN", d), Answer("ENOSYS", d)}
        \/ d.state # "SUSPENDED" /\ a = Answer("EBADFD", d)
    BY <1>10 DEF Answers, ResumeAnswers
  <2> QED
    BY <1>1, <1>2, <1>3, <1>10, <2>1 DEF Means, Errnos
<1>11. CASE ~ d.shut /\ o = "PVERSION"
  <2>1. \/ d.state = "DISCONNECTED" /\ a = Answer("EBADFD", d)
        \/ d.state # "DISCONNECTED" /\ a = Answer("ok", d)
    BY <1>11 DEF Answers, ProbeAnswers
  <2> QED
    BY <1>1, <1>2, <1>11, <2>1 DEF Means, Errnos, Unplugged
<1> QED
  BY <1>5, <1>6, <1>7, <1>8, <1>9, <1>10, <1>11 DEF Ioctls

-----------------------------------------------------------------------------
\* The guard with its one user: types, the count, and that only a Close that set
\* closed is on its way to the descriptor.
Guarded ==
  /\ G!TypeOK
  /\ inflight = IF pc[Reader] = "out" THEN 0 ELSE 1
  /\ \A c \in Closers : pc[c] \in {"drop", "drain", "waiting", "close"} => closed

LEMMA GuardTypes ==
  ASSUME Guarded
  PROVE  /\ pc \in [{Reader} \cup Closers -> G!UserPcs \cup G!CloserPcs]
         /\ pc[Reader] \in G!UserPcs /\ (pc[Reader] # "out" => op[Reader] \in Ioctls)
         /\ op \in [{Reader} -> Ioctls \cup {"none"}] /\ res \in [{Reader} -> Errnos \cup {"ok"}]
         /\ res[Reader] \in Errnos \cup {"ok"} /\ dev \in Devices
         /\ \A c \in Closers : pc[c] \in G!CloserPcs
         /\ closed \in BOOLEAN /\ fd \in {"open", "closed"} /\ inflight \in Nat
BY SameTypes DEF Guarded, G!TypeOK, G!Threads

\* Once no closer moves, or just one, the guard's own variables decide.
LEMMA GuardKept ==
  ASSUME pc' \in [{Reader} \cup Closers -> G!UserPcs \cup G!CloserPcs],
         pc'[Reader] \in G!UserPcs, pc'[Reader] # "out" => op'[Reader] \in Ioctls,
         op' \in [{Reader} -> Ioctls \cup {"none"}], res' \in [{Reader} -> Errnos \cup {"ok"}],
         dev' \in Devices, \A c \in Closers : pc'[c] \in G!CloserPcs,
         closed' \in BOOLEAN, fd' \in {"open", "closed"},
         inflight' = IF pc'[Reader] = "out" THEN 0 ELSE 1,
         \A c \in Closers : pc'[c] \in {"drop", "drain", "waiting", "close"} => closed'
  PROVE  Guarded'
<1>1. inflight' \in Nat
  OBVIOUS
<1> QED
  BY <1>1, SameTypes DEF Guarded, G!TypeOK, G!Threads

LEMMA GuardAcquires ==
  ASSUME Guarded, NEW o \in Ioctls, G!Acquire(Reader, o)
  PROVE  /\ Guarded' /\ UNCHANGED <<closed, dev>>
         /\ pc[Reader] = "out" /\ pc'[Reader] = "held" /\ op'[Reader] = o /\ res'[Reader] = "ok"
<1>1. /\ pc[Reader] = "out" /\ inflight' = inflight + 1 /\ UNCHANGED <<closed, fd, dev>>
      /\ pc' = [pc EXCEPT ![Reader] = "held"] /\ op' = [op EXCEPT ![Reader] = o]
      /\ res' = [res EXCEPT ![Reader] = "ok"]
  BY DEF G!Acquire
<1>2. pc'[Reader] = "held" /\ op'[Reader] = o /\ res'[Reader] = "ok" /\ \A c \in Closers : pc'[c] = pc[c]
  BY <1>1, GuardTypes, ReaderAssumption
<1>3. /\ pc' \in [{Reader} \cup Closers -> G!UserPcs \cup G!CloserPcs] /\ "held" \in G!UserPcs
      /\ op' \in [{Reader} -> Ioctls \cup {"none"}] /\ res' \in [{Reader} -> Errnos \cup {"ok"}]
  BY <1>1, GuardTypes DEF G!UserPcs
<1>4. inflight' = 1
  BY <1>1 DEF Guarded
<1> QED
  BY <1>1, <1>2, <1>3, <1>4, GuardTypes, GuardKept DEF Guarded

LEMMA GuardRefuses ==
  ASSUME Guarded, G!Refuse(Reader)
  PROVE  Guarded' /\ UNCHANGED <<closed, dev, pc, op>> /\ closed /\ pc[Reader] = "out" /\ res'[Reader] = "EBADF"
<1>1. /\ pc[Reader] = "out" /\ closed /\ UNCHANGED <<closed, inflight, fd, dev, pc, op>>
      /\ res' = [res EXCEPT ![Reader] = "EBADF"]
  BY DEF G!Refuse
<1>2. res' \in [{Reader} -> Errnos \cup {"ok"}] /\ res'[Reader] = "EBADF"
  BY <1>1, GuardTypes DEF Errnos
<1> QED
  BY <1>1, <1>2, GuardTypes, GuardKept DEF Guarded

LEMMA GuardParks ==
  ASSUME Guarded, G!Park(Reader)
  PROVE  /\ Guarded' /\ UNCHANGED <<closed, dev, op, res>> /\ Waits(dev)
         /\ pc[Reader] = "held" /\ op[Reader] = "READI" /\ pc'[Reader] = "parked"
<1>1. /\ pc[Reader] = "held" /\ op[Reader] = "READI" /\ Waits(dev) /\ UNCHANGED <<closed, inflight, fd, dev, op, res>>
      /\ pc' = [pc EXCEPT ![Reader] = "parked"]
  BY SameKernel DEF G!Park
<1>2. pc'[Reader] = "parked" /\ \A c \in Closers : pc'[c] = pc[c]
  BY <1>1, GuardTypes, ReaderAssumption
<1>3. pc' \in [{Reader} \cup Closers -> G!UserPcs \cup G!CloserPcs] /\ "parked" \in G!UserPcs
  BY <1>1, GuardTypes DEF G!UserPcs
<1>4. inflight = 1
  BY <1>1 DEF Guarded
<1> QED
  BY <1>1, <1>2, <1>3, <1>4, GuardTypes, GuardKept DEF Guarded

LEMMA GuardAnswers ==
  ASSUME Guarded, NEW e \in Errnos \cup {"ok"}, NEW n \in Devices, G!Back(Reader, e, n),
         pc[Reader] \in {"held", "parked"}
  PROVE  /\ Guarded' /\ UNCHANGED <<closed, op>> /\ dev' = n
         /\ pc'[Reader] = "back" /\ res'[Reader] = e
<1>1. /\ pc' = [pc EXCEPT ![Reader] = "back"] /\ res' = [res EXCEPT ![Reader] = e] /\ dev' = n
      /\ UNCHANGED <<closed, inflight, fd, op>>
  BY DEF G!Back
<1>2. pc'[Reader] = "back" /\ res'[Reader] = e /\ \A c \in Closers : pc'[c] = pc[c]
  BY <1>1, GuardTypes, ReaderAssumption
<1>3. /\ pc' \in [{Reader} \cup Closers -> G!UserPcs \cup G!CloserPcs] /\ "back" \in G!UserPcs
      /\ res' \in [{Reader} -> Errnos \cup {"ok"}]
  BY <1>1, GuardTypes DEF G!UserPcs
<1>4. inflight = 1 /\ op[Reader] \in Ioctls
  BY GuardTypes DEF Guarded
<1> QED
  BY <1>1, <1>2, <1>3, <1>4, GuardTypes, GuardKept DEF Guarded

LEMMA GuardReleases ==
  ASSUME Guarded, G!Release(Reader)
  PROVE  Guarded' /\ UNCHANGED <<closed, dev, res>> /\ pc[Reader] = "back" /\ pc'[Reader] = "out"
<1>1. /\ pc[Reader] = "back" /\ inflight' = inflight - 1 /\ UNCHANGED <<closed, fd, dev, res>>
      /\ op' = [op EXCEPT ![Reader] = "none"]
      /\ pc' = [t \in {Reader} \cup Closers |->
                  CASE t = Reader -> "out"
                    [] t # Reader /\ pc[t] = "waiting" /\ inflight = 1 /\ closed -> "drain"
                    [] OTHER -> pc[t]]
  BY DEF G!Release, G!Threads
<1>2. /\ pc'[Reader] = "out"
      /\ \A c \in Closers : pc'[c] = IF pc[c] = "waiting" /\ inflight = 1 /\ closed THEN "drain" ELSE pc[c]
  BY <1>1, ReaderAssumption
<1>3. "out" \in G!UserPcs /\ "drain" \in G!CloserPcs
  BY DEF G!UserPcs, G!CloserPcs
<1>4. \A c \in Closers : pc'[c] \in G!CloserPcs
  BY <1>2, <1>3, GuardTypes
<1>5. pc' \in [{Reader} \cup Closers -> G!UserPcs \cup G!CloserPcs]
  BY <1>1, <1>2, <1>3, <1>4
<1>6. op' \in [{Reader} -> Ioctls \cup {"none"}]
  BY <1>1, GuardTypes
<1>7. inflight' = 0
  BY <1>1 DEF Guarded
<1> QED
  BY <1>1, <1>2, <1>3, <1>4, <1>5, <1>6, <1>7, GuardTypes, GuardKept DEF Guarded

\* A closer moves.
LEMMA GuardCloses ==
  ASSUME Guarded, NEW c \in Closers, G!Closer(c)
  PROVE  /\ Guarded' /\ UNCHANGED <<op, res>> /\ pc'[Reader] = pc[Reader]
         /\ closed => closed'
         /\ \/ dev' = dev
            \/ closed /\ \E a \in Answers("DROP", dev) : dev' = a.dev
<1>1. c # Reader
  BY ReaderAssumption
<1>2. ASSUME NEW s \in {"out", "drop", "drain", "waiting", "close", "done"}, pc' = [pc EXCEPT ![c] = s],
             s \in {"drop", "drain", "waiting", "close"} => closed',
             UNCHANGED <<inflight, op, res>>, dev' \in Devices, fd' \in {"open", "closed"},
             closed' \in BOOLEAN, closed => closed'
      PROVE  Guarded' /\ pc'[Reader] = pc[Reader]
  <2>1. pc'[Reader] = pc[Reader] /\ \A d \in Closers : pc'[d] = IF d = c THEN s ELSE pc[d]
    BY <1>1, <1>2, GuardTypes
  <2>2. s \in G!CloserPcs
    BY DEF G!CloserPcs
  <2>3. pc' \in [{Reader} \cup Closers -> G!UserPcs \cup G!CloserPcs]
    BY <1>2, <2>2, GuardTypes
  <2>4. inflight' = IF pc'[Reader] = "out" THEN 0 ELSE 1
    BY <1>2, <2>1 DEF Guarded
  <2>5. \A d \in Closers : pc'[d] \in {"drop", "drain", "waiting", "close"} => closed'
    BY <1>2, <2>1 DEF Guarded
  <2> QED
    BY <1>2, <2>1, <2>2, <2>3, <2>4, <2>5, GuardTypes, GuardKept
<1>3. CASE G!Claim(c)
  <2>1. /\ pc' = [pc EXCEPT ![c] = IF closed THEN "done" ELSE "drop"] /\ closed'
        /\ UNCHANGED <<inflight, fd, dev, op, res>>
    BY <1>3 DEF G!Claim
  <2> QED
    BY <1>2, <2>1, GuardTypes
<1>4. CASE G!Drop(c)
  <2>1. /\ pc' = [pc EXCEPT ![c] = "drain"] /\ UNCHANGED <<closed, inflight, fd, op, res>> /\ closed
        /\ \E a \in Answers("DROP", dev) : dev' = a.dev
    BY <1>4, SameKernel DEF G!Drop, Guarded
  <2>2. dev' \in Devices
    BY <2>1, GuardTypes, AnswersMean DEF Means, Ioctls
  <2> QED
    BY <1>2, <2>1, <2>2, GuardTypes
<1>5. CASE G!Drain(c)
  <2>1. /\ pc' = [pc EXCEPT ![c] = IF inflight > 0 THEN "waiting" ELSE "close"] /\ closed
        /\ UNCHANGED <<closed, inflight, fd, dev, op, res>>
    BY <1>5 DEF G!Drain, Guarded
  <2> QED
    BY <1>2, <2>1, GuardTypes
<1>6. CASE G!CloseFd(c)
  <2>1. pc' = [pc EXCEPT ![c] = "done"] /\ UNCHANGED <<closed, inflight, dev, op, res>> /\ fd' = "closed"
    BY <1>6 DEF G!CloseFd
  <2> QED
    BY <1>2, <2>1, GuardTypes
<1> QED
  BY <1>3, <1>4, <1>5, <1>6 DEF G!Closer

-----------------------------------------------------------------------------
\* The ioctl of the place has its answer.
Answered == asked /\ pc[Reader] \in {"back", "out"}
Waiting  == ~ Answered

Got(e)  == Answered /\ res[Reader] = e
Failed   == Answered /\ res[Reader] # "ok"

Probes     == {"stateProbe", "stallProbe", "shortProbe"}
Recovering == {"drop", "prepare", "restart", "resume"}

\* Where the call stands, and what its ioctl is.
Placed ==
  /\ call = "none" <=> at = "idle"
  /\ call = "Start" => at \in {"entry", "start", "terminal", "stateProbe"}
  /\ at = "start" => call = "Start"
  /\ fresh => call = "none"
  /\ late => at = "entry" /\ sclosed
  /\ asked => at \in DOMAIN OpAt
  /\ pc[Reader] # "out" => asked /\ op[Reader] = OpAt[at]
  /\ pc[Reader] = "parked" => at = "readi"

\* Nothing of the PCM is closed before Stream.closed is set.
ClosedFirst ==
  /\ closed => sclosed
  /\ \A c \in Closers : closer[c] = "closing" => sclosed
  /\ res[Reader] = "EBADF" \/ cause = "EBADF" => sclosed
  /\ dirty => sclosed /\ (Answered => res[Reader] # "ok")

\* A state error was a suspend, or an unplug, or is Close's doing.
Interrupted == dev.state \in {"SUSPENDED", "DISCONNECTED"} \/ sclosed

\* What an errno still says of the device once it is known.
Meanings ==
  /\ res[Reader] = "ENODEV" \/ cause = "ENODEV" => Unplugged(dev)
  /\ at \in Probes /\ Got("EBADFD") => Unplugged(dev)
  /\ at \notin Probes \cup {"resume"} /\ Got("EBADFD") => Interrupted
  /\ at \in {"terminal", "stateProbe"} /\ cause = "EBADFD" => Interrupted
  /\ at = "stateProbe" => cause = "EBADFD"
  /\ res[Reader] # "EBUSY" /\ cause # "EBUSY"

\* The state the places of a call find the stream in.
Ready == dev.state \in {"PREPARED", "SUSPENDED", "DISCONNECTED"} \/ (dev.state = "SETUP" /\ sclosed)

States ==
  /\ dev.saved \in {"PREPARED", "RUNNING", "XRUN"}
  /\ dev.state = "SETUP" =>
       \/ sclosed
       \/ dev.shut /\ pc[Reader] # "parked"
       \/ at = "drop" /\ Got("ok")
       \/ at = "prepare" /\ Waiting
  /\ fresh \/ (call = "Start" /\ at = "entry") \/ (at = "start" /\ Waiting) => Ready
  /\ at = "readi" /\ (Got("EPIPE") \/ Got("ESTRPIPE")) => ~ Waits(dev)
  /\ at = "drop" /\ Got("ok") => ~ Waits(dev)
  /\ at = "prepare" /\ ~ Got("ok") => ~ Waits(dev)
  /\ at = "prepare" /\ Got("ok") => Ready
  /\ at = "restart" /\ Waiting => Ready
  /\ at = "restart" /\ Failed => dev.state # "RUNNING"
  /\ at = "resume" /\ ~ Got("ok") => ~ Waits(dev)

\* In a recovery, or not before the next Read, does the stream run after a discontinuity is not counted.
Uncounted ==
  /\ winOn /\ winLost => lost
  /\ lost /\ at \notin {"restart", "resume"} => dev.state # "RUNNING"
  /\ lost /\ (fresh \/ call = "Start") => ~ Waits(dev)

\* A recovery is counted when it is begun and again when it is complete, and so many
\* recoverable failures has this Read met; a probe that passed found the device there.
ReadiFailed == Answered /\ res[Reader] \in Recoverable

Budgeted ==
  /\ at \in Recovering => recoveries = xruns + 1 /\ fails = xruns + 1 /\ timeouts = stalls
  /\ at \in {"idle", "entry", "readi", "stallProbe"} => recoveries = xruns
  /\ at \in {"idle", "entry"} => fails = xruns /\ timeouts = stalls
  /\ at = "readi" =>
       /\ fails = IF ReadiFailed THEN xruns + 1 ELSE xruns
       /\ timeouts = IF Got("EIO") THEN stalls + 1 ELSE stalls
  /\ at = "stallProbe" => fails = xruns + 1 /\ (fails = MaxRecoveries + 1 \/ timeouts = MaxStalls + 1)
  /\ at = "shortProbe" => fails = xruns
  /\ at \in {"stallProbe", "shortProbe"} /\ Answered =>
       there \/ sclosed \/ res[Reader] \in {"ENODEV", "EBADFD"}

StreamInv ==
  /\ TypeOK /\ Guarded
  /\ Placed /\ ClosedFirst /\ Meanings /\ States /\ Uncounted /\ Budgeted

LEMMA StreamBegins == Init => StreamInv
<1> SUFFICES ASSUME Init PROVE StreamInv
  OBVIOUS
<1>1. /\ closed = FALSE /\ inflight = 0 /\ fd = "open" /\ dev = Prepared
      /\ pc = [t \in {Reader} \cup Closers |-> "out"] /\ op = [u \in {Reader} |-> "none"]
      /\ res = [u \in {Reader} |-> "ok"]
  BY DEF Init, G!Init, G!Threads, G!Prepared, Prepared
<1>2. Prepared \in Devices /\ Prepared.state = "PREPARED" /\ Prepared.saved = "PREPARED"
  BY DEF Prepared, Devices, PcmStates
<1>3. G!TypeOK
  BY <1>1, <1>2, SameTypes DEF G!TypeOK, G!Threads, G!UserPcs, G!CloserPcs
<1>4. TypeOK
  <2>1. /\ closer \in [Closers -> {"out", "closing", "returned"}] /\ at \in Places /\ result \in Results
        /\ cause \in Errnos \cup {"ok"}
    BY DEF Init, Places, Results
  <2>2. /\ 0 \in 0 .. MaxRecoveries /\ 0 \in 0 .. MaxStalls /\ 0 \in 0 .. ResumeRetries
        /\ 0 \in 0 .. MaxRecoveries + 1 /\ 0 \in 0 .. MaxStalls + 1
    BY BudgetAssumption
  <2> QED
    BY <1>3, <2>1, <2>2 DEF Init, TypeOK
<1>5. Guarded
  BY <1>1, <1>3 DEF Guarded
<1>6. Placed /\ ClosedFirst /\ Budgeted
  BY <1>1 DEF Init, Placed, ClosedFirst, Budgeted, Answered, Recovering
<1>7. Meanings /\ States /\ Uncounted
  BY <1>1, <1>2 DEF Init, Meanings, States, Uncounted, Answered, Waiting, Got, Failed, Ready, Waits, Probes
<1> QED
  BY <1>4, <1>5, <1>6, <1>7 DEF StreamInv

-----------------------------------------------------------------------------
\* Steps of the others: the stream may stop, vanish or, once closed, be dropped.
Moves(d, n, stopped) ==
  /\ n \in Devices /\ n.saved \in {d.saved, "PREPARED", "RUNNING", "XRUN"}
  /\ d.shut => n.shut
  /\ \/ n.state = d.state /\ ~ stopped
     \/ n.state = "DISCONNECTED" /\ ~ stopped
     \/ n.state = "SETUP" /\ sclosed /\ d.state # "DISCONNECTED" /\ ~ stopped
     \/ n.state = "XRUN" /\ d.state = "RUNNING"
     \/ n.state = "SUSPENDED" /\ d.state \in {"PREPARED", "RUNNING", "XRUN"}

LEMMA OthersMove ==
  ASSUME StreamInv, (\E c \in Closers : PcmClose(c)) \/ Interrupt \/ Vanish
  PROVE  /\ Guarded' /\ UNCHANGED <<op, res, closing, caller, place, budget, winOn, met>>
         /\ pc'[Reader] = pc[Reader] /\ (closed => closed') /\ (closed' => sclosed)
         /\ \/ Moves(dev, dev', FALSE) /\ UNCHANGED <<lost, winLost>>
            \/ Moves(dev, dev', TRUE) /\ lost' = TRUE /\ winLost' = TRUE
<1> USE DEF StreamInv
<1>1. dev \in Devices /\ dev.state \in PcmStates /\ dev.saved \in PcmStates
  BY GuardTypes DEF Devices
<1>2. ASSUME NEW c \in Closers, PcmClose(c)
      PROVE  /\ Guarded' /\ UNCHANGED <<op, res, closing, caller, place, budget, gaps, met>>
             /\ pc'[Reader] = pc[Reader] /\ (closed => closed') /\ sclosed
             /\ Moves(dev, dev', FALSE)
  <2>1. G!Closer(c) /\ UNCHANGED <<closing, caller, place, budget, gaps, met>> /\ sclosed
    BY <1>2 DEF PcmClose, ClosedFirst
  <2>2. /\ Guarded' /\ UNCHANGED <<op, res>> /\ pc'[Reader] = pc[Reader] /\ (closed => closed')
        /\ dev' = dev \/ \E a \in Answers("DROP", dev) : dev' = a.dev
    BY <2>1, GuardCloses
  <2>3. ASSUME NEW a \in Answers("DROP", dev) PROVE Moves(dev, a.dev, FALSE)
    <3>1. Means("DROP", dev, a.err, a.dev, FALSE)
      BY <1>1, AnswersMean DEF Ioctls
    <3> QED
      BY <2>1, <3>1 DEF Means, Moves
  <2>4. Moves(dev, dev, FALSE)
    BY <1>1 DEF Moves
  <2> QED
    BY <2>1, <2>2, <2>3, <2>4
<1>3. ASSUME NEW n \in Devices, dev' = n, UNCHANGED <<closed, inflight, fd, pc, op, res>> PROVE Guarded'
  BY <1>3, GuardTypes, GuardKept DEF Guarded
<1>4. CASE Interrupt
  <2>1. /\ UNCHANGED <<closed, inflight, fd, pc, op, res>> /\ dev' \in Overrun(dev) \cup Suspend(dev)
        /\ lost' = TRUE /\ winLost' = TRUE /\ UNCHANGED <<closing, caller, place, budget, winOn, met>>
    BY <1>4 DEF Interrupt, G!Event
  <2>2. Moves(dev, dev', TRUE)
    BY <1>1, <2>1 DEF Overrun, Suspend, In, Moves, Devices, PcmStates
  <2> QED
    BY <1>3, <2>1, <2>2 DEF Moves, ClosedFirst
<1>5. CASE Vanish
  <2>1. /\ UNCHANGED <<closed, inflight, fd, pc, op, res>> /\ dev' \in ShutDown(dev) \cup Disconnect(dev)
        /\ UNCHANGED <<closing, caller, place, budget, gaps, met>>
    BY <1>5 DEF Vanish, G!Event
  <2>2. Moves(dev, dev', FALSE)
    BY <1>1, <2>1 DEF ShutDown, Disconnect, In, Moves, Devices, PcmStates
  <2> QED
    BY <1>3, <2>1, <2>2 DEF Moves, ClosedFirst, gaps
<1> QED
  BY <1>2, <1>4, <1>5 DEF gaps

LEMMA OthersKeep ==
  ASSUME StreamInv, (\E c \in Closers : PcmClose(c)) \/ Interrupt \/ Vanish
  PROVE  StreamInv'
<1> USE DEF StreamInv
<1>1. /\ Guarded' /\ UNCHANGED <<sclosed, closer, fresh, call, late, result, at, asked, cause, dirty>>
      /\ UNCHANGED <<recoveries, stalls, attempt, xruns, winOn, op, res, fails, timeouts, there>>
      /\ pc'[Reader] = pc[Reader] /\ (closed => closed') /\ (closed' => sclosed)
      /\ \/ Moves(dev, dev', FALSE) /\ UNCHANGED <<lost, winLost>>
         \/ Moves(dev, dev', TRUE) /\ lost' = TRUE /\ winLost' = TRUE
  BY OthersMove DEF closing, caller, place, budget, met
<1>2. Answered' = Answered /\ Waiting' = Waiting /\ Failed' = Failed
  BY <1>1 DEF Answered, Waiting, Failed
<1>3. TypeOK'
  <2>1. G!TypeOK'
    BY <1>1 DEF Guarded
  <2>2. lost' \in BOOLEAN /\ winLost' \in BOOLEAN
    BY <1>1 DEF TypeOK
  <2> QED
    BY <1>1, <2>1, <2>2 DEF TypeOK
<1>4. Placed' /\ ClosedFirst' /\ Budgeted'
  BY <1>1, <1>2 DEF Placed, ClosedFirst, Budgeted, ReadiFailed, Got
<1>5. /\ dev'.saved \in {"PREPARED", "RUNNING", "XRUN"} /\ (dev.shut => dev'.shut)
      /\ dev'.state = "RUNNING" => dev.state = "RUNNING" /\ UNCHANGED <<lost, winLost>>
      /\ dev'.state = "PREPARED" => dev.state = "PREPARED" /\ UNCHANGED <<lost, winLost>>
      /\ dev'.state = "SETUP" => sclosed \/ dev.state = "SETUP"
      /\ dev'.state = "XRUN" => dev.state \in {"XRUN", "RUNNING"}
      /\ dev.state = "DISCONNECTED" => dev'.state = "DISCONNECTED"
      /\ dev.state = "SUSPENDED" => dev'.state \in {"SUSPENDED", "DISCONNECTED"} \/ sclosed
      /\ dev'.state \in PcmStates
  BY <1>1 DEF Moves, States, Devices
<1>6. Meanings'
  BY <1>1, <1>5 DEF Meanings, Got, Answered, Unplugged, Interrupted
<1>7. dev.state \in PcmStates
  BY GuardTypes DEF Devices
<1>8. States'
  BY <1>1, <1>5, <1>7 DEF States, Got, Answered, Waiting, Failed, Ready, Waits, PcmStates
<1>9. Uncounted'
  BY <1>1, <1>5 DEF Uncounted, Moves, Waits
<1> QED
  BY <1>1, <1>3, <1>4, <1>6, <1>8, <1>9

-----------------------------------------------------------------------------
\* Steps of an ioctl of the reader.
LEMMA AskKeeps ==
  ASSUME StreamInv, Ask
  PROVE  StreamInv'
<1> USE DEF StreamInv
<1>1. /\ at \in DOMAIN OpAt /\ ~ asked /\ asked' = TRUE
      /\ UNCHANGED <<sclosed, closer, fresh, call, late, result, at, cause>>
      /\ UNCHANGED <<recoveries, stalls, attempt, xruns, winOn, lost, winLost, fails, timeouts, there>>
      /\ \/ G!Acquire(Reader, OpAt[at]) /\ UNCHANGED dirty
         \/ G!Refuse(Reader) /\ dirty' = sclosed
  BY DEF Ask, closing, caller, budget, gaps, met
<1>2. OpAt[at] \in Ioctls
  BY <1>1 DEF OpAt, Ioctls
<1>3. /\ Guarded' /\ UNCHANGED <<closed, dev>> /\ pc[Reader] = "out"
      /\ \/ pc'[Reader] = "held" /\ op'[Reader] = OpAt[at] /\ res'[Reader] = "ok" /\ UNCHANGED dirty
         \/ pc'[Reader] = "out" /\ res'[Reader] = "EBADF" /\ closed /\ dirty' = sclosed
  BY <1>1, <1>2, GuardAcquires, GuardRefuses
<1>4. TypeOK'
  <2>1. dirty' \in BOOLEAN
    BY <1>1 DEF TypeOK
  <2> QED
    BY <1>1, <1>3, <2>1 DEF TypeOK, Guarded
<1>5. Placed'
  BY <1>1, <1>3 DEF Placed
<1>10. Budgeted'
  <2>1. ~ Answered /\ ~ ReadiFailed' /\ ~ Got("EIO")' /\ (Answered' => sclosed')
    BY <1>1, <1>3 DEF Answered, ReadiFailed, Got, Recoverable, ClosedFirst
  <2> QED
    BY <1>1, <2>1 DEF Budgeted, ReadiFailed, Got
<1>6. ClosedFirst'
  BY <1>1, <1>3 DEF ClosedFirst, Answered
<1>7. Meanings'
  BY <1>1, <1>3 DEF Meanings, Got, Answered, Interrupted, Probes
<1>8. States'
  <2>1. dev' = dev /\ sclosed' = sclosed /\ fresh' = fresh /\ call' = call /\ at' = at /\ ~ asked
    BY <1>1, <1>3
  <2>2. \/ pc'[Reader] = "held"
        \/ pc'[Reader] = "out" /\ res'[Reader] = "EBADF" /\ sclosed
    BY <1>1, <1>3 DEF ClosedFirst
  <2> QED
    BY <2>1, <2>2 DEF States, Got, Answered, Waiting, Failed, Ready, Waits
<1>9. Uncounted'
  BY <1>1, <1>3 DEF Uncounted
<1> QED
  BY <1>3, <1>4, <1>5, <1>6, <1>7, <1>8, <1>9, <1>10

LEMMA HoldKeeps ==
  ASSUME StreamInv, Hold
  PROVE  StreamInv'
<1> USE DEF StreamInv
<1>1. /\ UNCHANGED <<sclosed, closer, fresh, call, late, result, at, asked, cause, dirty>>
      /\ UNCHANGED <<recoveries, stalls, attempt, xruns, winOn, lost, winLost, fails, timeouts, there>>
      /\ G!Park(Reader) \/ G!Release(Reader)
  BY DEF Hold, closing, caller, place, budget, gaps, met
<1>2. /\ Guarded' /\ UNCHANGED <<closed, dev, res>>
      /\ \/ /\ Waits(dev) /\ pc[Reader] = "held" /\ op[Reader] = "READI"
            /\ pc'[Reader] = "parked" /\ op'[Reader] = "READI"
         \/ pc[Reader] = "back" /\ pc'[Reader] = "out"
  BY <1>1, GuardParks, GuardReleases
<1>3. TypeOK'
  BY <1>1, <1>2 DEF TypeOK, Guarded
<1>4. pc[Reader] = "held" /\ op[Reader] = "READI" => at = "readi" /\ asked
  BY DEF Placed, OpAt
<1>5. Placed'
  BY <1>1, <1>2, <1>4 DEF Placed
<1>6. Answered' = Answered
  BY <1>1, <1>2 DEF Answered
<1>11. Budgeted'
  BY <1>1, <1>2, <1>6 DEF Budgeted, ReadiFailed, Got
<1>7. ClosedFirst'
  BY <1>1, <1>2, <1>6 DEF ClosedFirst
<1>8. Meanings'
  BY <1>1, <1>2 DEF Meanings, Got, Answered, Interrupted, Probes
<1>9. States'
  BY <1>1, <1>2 DEF States, Got, Answered, Waiting, Failed, Ready, Waits
<1>10. Uncounted'
  BY <1>1, <1>2 DEF Uncounted
<1> QED
  BY <1>2, <1>3, <1>5, <1>7, <1>8, <1>9, <1>10, <1>11

LEMMA AnswerComes ==
  ASSUME StreamInv, Issue \/ Deliver \/ TimeOut \/ Wake
  PROVE  /\ pc[Reader] \in {"held", "parked"} /\ Answer1
         /\ \E e \in Errnos \cup {"ok"}, n \in Devices :
              G!Back(Reader, e, n) /\ Means(op[Reader], dev, e, n, pc[Reader] = "parked")
<1> USE DEF StreamInv
<1>1. dev \in Devices /\ (pc[Reader] # "out" => op[Reader] \in Ioctls)
  BY GuardTypes
<1>2. pc[Reader] = "parked" => op[Reader] = "READI"
  BY DEF Placed, OpAt
<1>3. CASE Issue
  <2>1. pc[Reader] = "held" /\ Answer1 /\ \E a \in G!Answers(op[Reader], dev) : G!Back(Reader, a.err, a.dev)
    BY <1>3 DEF Issue, G!Issue
  <2>2. PICK a \in Answers(op[Reader], dev) : G!Back(Reader, a.err, a.dev)
    BY <2>1, SameKernel
  <2>3. Means(op[Reader], dev, a.err, a.dev, FALSE)
    BY <1>1, <2>1, <2>2, AnswersMean
  <2>4. a.err \in Errnos \cup {"ok"} /\ a.dev \in Devices /\ Means(op[Reader], dev, a.err, a.dev, pc[Reader] = "parked")
    BY <2>1, <2>3 DEF Means
  <2> QED
    BY <2>1, <2>2, <2>4
<1>4. CASE Deliver
  <2>1. pc[Reader] = "parked" /\ Answer1 /\ G!Back(Reader, "ok", dev) /\ dev.state = "RUNNING"
    BY <1>4 DEF Deliver, G!Deliver
  <2>2. Means(op[Reader], dev, "ok", dev, pc[Reader] = "parked")
    BY <1>1, <1>2, <2>1 DEF Means
  <2> QED
    BY <1>1, <2>1, <2>2
<1>5. CASE TimeOut
  <2>1. pc[Reader] = "parked" /\ Answer1 /\ G!Back(Reader, "EIO", dev)
    BY <1>5 DEF TimeOut, G!TimeOut
  <2>2. Means(op[Reader], dev, "EIO", dev, pc[Reader] = "parked") /\ "EIO" \in Errnos
    BY <1>1, <1>2, <2>1 DEF Means, Errnos
  <2> QED
    BY <1>1, <2>1, <2>2
<1>6. CASE Wake
  <2> DEFINE e == StateErrno(dev.state)
  <2>1. pc[Reader] = "parked" /\ Answer1 /\ ~ Waits(dev) /\ G!Back(Reader, e, dev)
    BY <1>6, SameKernel DEF Wake, G!Wake
  <2>2. e \in {"EPIPE", "ESTRPIPE", "EBADFD"} /\ (e = "EBADFD" => dev.state \in {"SETUP", "DISCONNECTED"})
    BY <1>1, <2>1, ReadErrno
  <2> HIDE DEF e
  <2>3. e \in Errnos /\ Means(op[Reader], dev, e, dev, pc[Reader] = "parked")
    BY <1>1, <1>2, <2>1, <2>2 DEF Means, Errnos
  <2> QED
    BY <1>1, <2>1, <2>3
<1> QED
  BY <1>3, <1>4, <1>5, <1>6

LEMMA AnswerKeeps ==
  ASSUME StreamInv, Issue \/ Deliver \/ TimeOut \/ Wake
  PROVE  StreamInv'
<1> USE DEF StreamInv
<1>1. pc[Reader] \in {"held", "parked"} /\ Answer1
  BY AnswerComes
<1>2. PICK e \in Errnos \cup {"ok"}, n \in Devices :
        G!Back(Reader, e, n) /\ Means(op[Reader], dev, e, n, pc[Reader] = "parked")
  BY AnswerComes
<1>3. /\ Guarded' /\ UNCHANGED <<closed, op>> /\ dev' = n
      /\ pc'[Reader] = "back" /\ res'[Reader] = e
  BY <1>1, <1>2, GuardAnswers
<1>4. /\ UNCHANGED <<sclosed, closer, fresh, call, late, result, at, asked, cause>>
      /\ UNCHANGED <<recoveries, stalls, attempt, xruns, winOn>>
      /\ dirty' = (e # "ok" /\ sclosed)
      /\ lost' = (lost \/ (op[Reader] = "DROP" /\ e = "ok"))
      /\ winLost' = (winLost \/ (op[Reader] = "DROP" /\ e = "ok"))
      /\ fails' = IF at = "readi" /\ e \in Recoverable THEN fails + 1 ELSE fails
      /\ timeouts' = IF at = "readi" /\ e = "EIO" THEN timeouts + 1 ELSE timeouts
      /\ there' = (at \in {"stallProbe", "shortProbe"} /\ ~ Unplugged(dev))
  BY <1>1, <1>3 DEF Answer1, closing, caller, budget, Recoverable
<1>5. asked /\ at \in DOMAIN OpAt /\ op[Reader] = OpAt[at] /\ (pc[Reader] = "parked" => at = "readi")
  BY <1>1 DEF Placed
<1>6. \/ at \in {"start", "restart"} /\ op[Reader] = "START"
      \/ at = "readi" /\ op[Reader] = "READI"
      \/ at = "drop" /\ op[Reader] = "DROP"
      \/ at = "prepare" /\ op[Reader] = "PREPARE"
      \/ at = "resume" /\ op[Reader] = "RESUME"
      \/ at \in Probes /\ op[Reader] = "PVERSION"
  BY <1>5 DEF OpAt, Probes
<1>7. TypeOK'
  <2>1. lost' \in BOOLEAN /\ winLost' \in BOOLEAN /\ dirty' \in BOOLEAN /\ there' \in BOOLEAN
    BY <1>4
  <2>2. /\ fails \in 0 .. MaxRecoveries + 1 /\ timeouts \in 0 .. MaxStalls + 1
        /\ xruns \in 0 .. MaxRecoveries /\ stalls \in 0 .. MaxStalls
    BY DEF TypeOK
  <2>3. at = "readi" => fails = xruns /\ timeouts = stalls
    BY <1>1 DEF Budgeted, ReadiFailed, Got, Answered
  <2>4. fails' \in 0 .. MaxRecoveries + 1 /\ timeouts' \in 0 .. MaxStalls + 1
    BY <1>4, <2>2, <2>3, BudgetAssumption
  <2> QED
    BY <1>3, <1>4, <2>1, <2>4 DEF TypeOK, Guarded
<1>8. Placed'
  BY <1>3, <1>4, <1>5 DEF Placed
<1>15. Budgeted'
  <2>1. Answered' /\ ~ Answered /\ at' = at
    BY <1>1, <1>3, <1>4, <1>5 DEF Answered
  <2>2. (ReadiFailed' <=> e \in Recoverable) /\ \A x : Got(x)' <=> e = x
    BY <1>3, <2>1 DEF ReadiFailed, Got
  <2>3. at = "readi" => fails = xruns /\ timeouts = stalls
    BY <2>1 DEF Budgeted, ReadiFailed, Got
  <2>4. at \in {"stallProbe", "shortProbe"} => there' \/ e \in {"ENODEV", "EBADFD"}
    BY <1>2, <1>4, <1>6 DEF Means, Probes
  <2>5. res'[Reader] = e
    BY <1>3
  <2> QED
    BY <1>4, <2>1, <2>2, <2>3, <2>4, <2>5 DEF Budgeted, Recovering
<1>9. ClosedFirst'
  BY <1>1, <1>2, <1>3, <1>4 DEF ClosedFirst, Answered, Means
<1>10. dev.state \in PcmStates /\ dev.saved \in {"PREPARED", "RUNNING", "XRUN"} /\ n.state \in PcmStates
  BY GuardTypes DEF Devices, States
<1>11. Waiting
  BY <1>1 DEF Waiting, Answered
<1>12. Meanings'
  BY <1>1, <1>2, <1>3, <1>4, <1>5, <1>6, <1>10, <1>11
     DEF Meanings, Means, Got, Answered, Interrupted, Unplugged, States, Ready, Probes, Waits
<1>13. States'
  <2>1. Answered' /\ ~ Waiting' /\ at \notin {"idle", "entry"} /\ at' = at /\ sclosed' = sclosed /\ call' = call
    BY <1>3, <1>4, <1>5, <1>6 DEF Answered, Waiting, Probes
  <2>2. \A x : Got(x)' <=> e = x
    BY <1>3, <2>1 DEF Got
  <2>3. dev'.saved \in {"PREPARED", "RUNNING", "XRUN"} /\ dev'.shut = dev.shut
    BY <1>2, <1>3, <1>10 DEF Means
  <2>4. ~ fresh'
    BY <1>4, <2>1 DEF Placed
  <2>5. dev'.state = "SETUP" => sclosed \/ dev.shut \/ (at = "drop" /\ e = "ok")
    <3>1. CASE e # "ok"
      <4>1. dev'.state = dev.state
        BY <1>2, <1>3, <3>1 DEF Means
      <4>2. at = "prepare" /\ dev.state = "SETUP" => sclosed \/ dev.shut
        BY <1>2, <1>6, <3>1 DEF Means, Probes
      <4> QED
        BY <4>1, <4>2, <1>11 DEF States, Waiting, Got
    <3>2. CASE e = "ok"
      <4>1. \/ dev'.state \in {"PREPARED", "RUNNING", "XRUN"}
            \/ at = "drop"
            \/ at \in Probes /\ dev'.state = dev.state
        BY <1>2, <1>3, <1>6, <1>10, <3>2 DEF Means
      <4>2. at \in Probes /\ dev.state = "SETUP" => sclosed \/ dev.shut
        BY DEF States, Probes
      <4> QED
        BY <3>2, <4>1, <4>2
    <3> QED
      BY <3>1, <3>2
  <2>6. at = "readi" /\ e \in {"EPIPE", "ESTRPIPE"} => ~ Waits(dev')
    BY <1>2, <1>3 DEF Means, Waits
  <2>7. at = "drop" /\ e = "ok" => ~ Waits(dev')
    BY <1>2, <1>3, <1>6 DEF Means, Waits, Probes
  <2>8. at = "prepare" => IF e = "ok" THEN Ready' ELSE ~ Waits(dev')
    BY <1>2, <1>3, <1>6, <1>11 DEF Means, Waits, Probes, Ready, States, Waiting, Got
  <2>9. at = "restart" /\ e # "ok" => dev'.state # "RUNNING"
    BY <1>2, <1>3, <1>11 DEF Means, Ready, States
  <2>10. at = "resume" /\ e # "ok" => ~ Waits(dev')
    BY <1>2, <1>3, <1>11 DEF Means, States, Waits, Waiting, Got
  <2>11. Failed' <=> e # "ok"
    BY <1>3, <2>1 DEF Failed
  <2> QED
    BY <1>3, <2>1, <2>2, <2>3, <2>4, <2>5, <2>6, <2>7, <2>8, <2>9, <2>10, <2>11 DEF States
<1>14. Uncounted'
  BY <1>1, <1>2, <1>3, <1>4, <1>5, <1>6, <1>10, <1>11
     DEF Uncounted, Means, Placed, Probes, Waits, States, Got, Answered, Ready
<1> QED
  BY <1>3, <1>7, <1>8, <1>9, <1>12, <1>13, <1>14, <1>15

-----------------------------------------------------------------------------
\* Steps between two ioctls: the call goes on to a place the device is ready for,
Prepares(p, e) ==
  /\ p \in Places \ {"idle", "entry"} /\ e \in Errnos \cup {"ok"}
  /\ call = "Start" => p \in {"start", "terminal", "stateProbe"}
  /\ p = "start" => call = "Start" /\ Ready
  /\ e = "EBADF" => sclosed
  /\ e = "ENODEV" => Unplugged(dev)
  /\ e # "EBUSY"
  /\ p \in {"terminal", "stateProbe"} /\ e = "EBADFD" => Interrupted
  /\ p = "stateProbe" => e = "EBADFD"
  /\ p \in {"prepare", "resume"} => ~ Waits(dev)
  /\ p = "restart" => Ready
  /\ dev.state = "SETUP" => sclosed \/ dev.shut \/ p = "prepare"

LEMMA GotoKeeps ==
  ASSUME StreamInv, NEW p, NEW e, Goto(p, e), Prepares(p, e),
         pc[Reader] = "out", call # "none", ~ late, UNCHANGED caller,
         recoveries' \in 0 .. MaxRecoveries, stalls' \in 0 .. MaxStalls,
         attempt' \in 0 .. ResumeRetries, xruns' \in 0 .. MaxRecoveries,
         p \in Recovering => recoveries' = xruns' + 1 /\ fails = xruns' + 1 /\ timeouts = stalls',
         p \in {"readi", "stallProbe"} => recoveries' = xruns',
         p = "readi" => fails = xruns' /\ timeouts = stalls',
         p = "stallProbe" => fails = xruns' + 1 /\ (fails = MaxRecoveries + 1 \/ timeouts = MaxStalls + 1),
         p = "shortProbe" => fails = xruns',
         winOn' \in BOOLEAN, lost' \in BOOLEAN, winLost' \in BOOLEAN,
         winOn' /\ winLost' => lost',
         lost' /\ p \notin {"restart", "resume"} => dev.state # "RUNNING",
         lost' /\ call = "Start" => ~ Waits(dev)
  PROVE  StreamInv'
<1> USE DEF StreamInv
<1>1. /\ UNCHANGED <<closed, inflight, fd, dev, pc, op, res>> /\ UNCHANGED <<sclosed, closer>>
      /\ UNCHANGED <<fresh, call, late, result>>
      /\ at' = p /\ asked' = FALSE /\ cause' = e /\ dirty' = dirty
      /\ UNCHANGED <<fails, timeouts, there>>
  BY DEF Goto, guard, closing, caller, met
<1>2. ~ Answered' /\ Waiting' /\ ~ Failed' /\ \A x : ~ Got(x)'
  BY <1>1 DEF Answered, Waiting, Failed, Got
<1>3. Guarded' /\ G!TypeOK'
  <2>1. UNCHANGED G!TypeOK
    BY <1>1 DEF G!TypeOK
  <2> QED
    BY <1>1, <2>1 DEF Guarded
<1>4. TypeOK'
  <2>1. p \in Places /\ e \in Errnos \cup {"ok"}
    BY DEF Prepares
  <2> QED
    BY <1>1, <1>3, <2>1 DEF TypeOK
<1>5. Placed'
  BY <1>1 DEF Placed, Prepares
<1>6. ClosedFirst'
  BY <1>1, <1>2 DEF ClosedFirst, Prepares
<1>7. Meanings'
  BY <1>1, <1>2 DEF Meanings, Prepares, Interrupted, Unplugged, Got
<1>8. ~ fresh /\ pc[Reader] # "parked"
  BY DEF Placed
<1>9. States'
  BY <1>1, <1>2, <1>8 DEF States, Prepares, Ready, Waits, Got
<1>10. Uncounted'
  BY <1>1, <1>8 DEF Uncounted, Waits
<1>11. Budgeted'
  <2>1. ~ ReadiFailed'
    BY <1>2 DEF ReadiFailed
  <2> QED
    BY <1>1, <1>2, <2>1 DEF Budgeted, Prepares
<1> QED
  BY <1>3, <1>4, <1>5, <1>6, <1>7, <1>9, <1>10, <1>11

\* or returns.
LEMMA ReturnKeeps ==
  ASSUME StreamInv, NEW r \in Results, Return(r), pc[Reader] = "out", call # "none",
         dev.state = "SETUP" => sclosed \/ dev.shut,
         winOn' \in BOOLEAN, lost' \in BOOLEAN, winLost' \in BOOLEAN,
         winOn' /\ winLost' => lost',
         lost' => dev.state # "RUNNING"
  PROVE  StreamInv'
<1> USE DEF StreamInv
<1>1. /\ UNCHANGED <<closed, inflight, fd, dev, pc, op, res>> /\ UNCHANGED <<sclosed, closer>>
      /\ fresh' = fresh /\ call' = "none" /\ late' = FALSE /\ result' = r
      /\ at' = "idle" /\ asked' = FALSE /\ cause' = "ok" /\ dirty' = FALSE
      /\ recoveries' = 0 /\ stalls' = 0 /\ attempt' = 0 /\ xruns' = 0
      /\ fails' = 0 /\ timeouts' = 0 /\ there' = FALSE
  BY DEF Return, guard, closing
<1>2. ~ Answered' /\ ~ Failed' /\ \A x : ~ Got(x)'
  BY <1>1 DEF Answered, Failed, Got
<1>3. Guarded' /\ G!TypeOK'
  <2>1. UNCHANGED G!TypeOK
    BY <1>1 DEF G!TypeOK
  <2> QED
    BY <1>1, <2>1 DEF Guarded
<1>4. TypeOK'
  <2>1. /\ 0 \in 0 .. MaxRecoveries /\ 0 \in 0 .. MaxStalls /\ 0 \in 0 .. ResumeRetries
        /\ 0 \in 0 .. MaxRecoveries + 1 /\ 0 \in 0 .. MaxStalls + 1
    BY BudgetAssumption
  <2> QED
    BY <1>1, <1>3, <2>1 DEF TypeOK, Places
<1>5. ~ fresh /\ pc[Reader] # "parked"
  BY DEF Placed
<1>6. Placed' /\ ClosedFirst' /\ Budgeted'
  BY <1>1, <1>2, <1>5 DEF Placed, ClosedFirst, Budgeted, Recovering
<1>7. Meanings'
  BY <1>1, <1>2 DEF Meanings, Got, Unplugged
<1>8. States'
  BY <1>1, <1>2, <1>5 DEF States, Got
<1>9. Uncounted'
  BY <1>1, <1>5 DEF Uncounted
<1> QED
  BY <1>3, <1>4, <1>6, <1>7, <1>8, <1>9

LEMMA BeginKeeps ==
  ASSUME StreamInv, NEW kind \in {"Start", "Read"}, Begin(kind)
  PROVE  StreamInv'
<1> USE DEF StreamInv
<1>1. /\ UNCHANGED <<closed, inflight, fd, dev, pc, op, res>> /\ UNCHANGED <<sclosed, closer, result>>
      /\ UNCHANGED <<asked, cause, dirty, recoveries, stalls, attempt, xruns, winOn, lost, winLost>>
      /\ UNCHANGED <<fails, timeouts, there>>
      /\ call = "none" /\ (kind = "Start" => fresh)
      /\ call' = kind /\ fresh' = FALSE /\ late' = sclosed /\ at' = "entry"
  BY DEF Begin, guard, closing, budget, gaps, met
<1>2. at = "idle" /\ ~ asked /\ pc[Reader] = "out"
  BY <1>1 DEF Placed, OpAt
<1>3. ~ Answered' /\ ~ Failed' /\ \A x : ~ Got(x)'
  BY <1>1, <1>2 DEF Answered, Failed, Got
<1>4. Guarded' /\ G!TypeOK'
  <2>1. UNCHANGED G!TypeOK
    BY <1>1 DEF G!TypeOK
  <2> QED
    BY <1>1, <2>1 DEF Guarded
<1>5. TypeOK'
  BY <1>1, <1>4 DEF TypeOK, Places
<1>6. Placed' /\ ClosedFirst' /\ Budgeted'
  BY <1>1, <1>2, <1>3 DEF Placed, ClosedFirst, Budgeted, Recovering
<1>7. Meanings'
  BY <1>1, <1>3 DEF Meanings, Got, Unplugged
<1>8. States'
  BY <1>1, <1>2, <1>3 DEF States, Got, Ready
<1>9. Uncounted'
  BY <1>1, <1>2 DEF Uncounted, Waits
<1> QED
  BY <1>4, <1>5, <1>6, <1>7, <1>8, <1>9

LEMMA SwapKeeps ==
  ASSUME StreamInv, NEW c \in Closers, Swap(c)
  PROVE  StreamInv'
<1> USE DEF StreamInv
<1>1. /\ UNCHANGED <<closed, inflight, fd, dev, pc, op, res>> /\ UNCHANGED <<fresh, call, late, result>>
      /\ UNCHANGED <<at, asked, cause, dirty, recoveries, stalls, attempt, xruns, winOn, lost, winLost>>
      /\ UNCHANGED <<fails, timeouts, there>>
      /\ sclosed' = TRUE /\ closer' = [closer EXCEPT ![c] = IF sclosed THEN "returned" ELSE "closing"]
  BY DEF Swap, guard, caller, place, budget, gaps, met
<1>2. Guarded' /\ G!TypeOK'
  <2>1. UNCHANGED G!TypeOK
    BY <1>1 DEF G!TypeOK
  <2> QED
    BY <1>1, <2>1 DEF Guarded
<1>3. TypeOK'
  BY <1>1, <1>2 DEF TypeOK
<1>4. Placed' /\ ClosedFirst' /\ Budgeted'
  BY <1>1 DEF Placed, ClosedFirst, Budgeted, Answered, ReadiFailed, Got
<1>5. Meanings'
  BY <1>1 DEF Meanings, Got, Answered, Unplugged, Interrupted
<1>6. States'
  BY <1>1 DEF States, Got, Answered, Waiting, Failed, Ready, Waits
<1>7. Uncounted'
  BY <1>1 DEF Uncounted, Waits
<1> QED
  BY <1>2, <1>3, <1>4, <1>5, <1>6, <1>7

-----------------------------------------------------------------------------
\* What the result of a call promises.
Promised(r) ==
  /\ r \in Results
  /\ r = "ErrClosed" => sclosed
  /\ r = "ErrDeviceGone" => Unplugged(dev)
  /\ late \/ dirty => r = "ErrClosed"
  /\ r # "EBUSY"
  /\ r = "EBADFD" => dev.state \in {"SUSPENDED", "DISCONNECTED"}
  /\ r \in {"StallError", "ShortfallError"} =>
       there /\ ~ sclosed /\ xruns = IF r = "StallError" THEN fails - 1 ELSE fails
  /\ r = "StallError" => fails = MaxRecoveries + 1 \/ timeouts = MaxStalls + 1

\* A decision keeps the invariant and its promise.
Decided ==
  /\ StreamInv'
  /\ \/ UNCHANGED <<guard, closing, caller>>
     \/ call # "none" /\ \E r : Return(r) /\ Promised(r)

\* A call that has its answer.
LEMMA Inside ==
  ASSUME StreamInv, asked, pc[Reader] = "out"
  PROVE  /\ Answered /\ call # "none" /\ ~ late /\ ~ fresh /\ at \in DOMAIN OpAt
         /\ Err \in Errnos \cup {"ok"} /\ (dirty => sclosed /\ Err # "ok")
         /\ (Err = "EBADF" => sclosed) /\ (Err = "ENODEV" => Unplugged(dev)) /\ Err # "EBUSY"
         /\ \A e : Got(e) <=> Err = e
<1>1. at \in DOMAIN OpAt /\ at \notin {"idle", "entry"}
  BY DEF StreamInv, Placed, OpAt
<1>2. Answered /\ \A e : Got(e) <=> Err = e
  BY DEF Answered, Got, Err
<1>3. call # "none" /\ ~ late /\ ~ fresh
  BY <1>1 DEF StreamInv, Placed
<1>4. Err \in Errnos \cup {"ok"}
  BY GuardTypes DEF StreamInv, Err
<1>5. /\ dirty => sclosed /\ Err # "ok"
      /\ Err = "EBADF" => sclosed
      /\ Err = "ENODEV" => Unplugged(dev)
      /\ Err # "EBUSY"
  BY <1>2 DEF StreamInv, ClosedFirst, Meanings, Err
<1> QED
  BY <1>1, <1>2, <1>3, <1>4, <1>5

LEMMA Went ==
  ASSUME StreamInv, NEW p, NEW e, Goto(p, e), Prepares(p, e),
         pc[Reader] = "out", call # "none", ~ late, UNCHANGED <<budget, gaps>>,
         p \in Recovering => at \in Recovering,
         p = "readi" => at = "entry",
         p = "stallProbe" => at = "readi" /\ ReadiFailed /\ (fails = MaxRecoveries + 1 \/ timeouts = MaxStalls + 1),
         p = "shortProbe" => at = "readi" /\ ~ ReadiFailed,
         lost /\ p \notin {"restart", "resume"} => dev.state # "RUNNING"
  PROVE  Decided
<1>1. /\ UNCHANGED <<guard, closing, caller>>
      /\ UNCHANGED <<recoveries, stalls, attempt, xruns>> /\ UNCHANGED <<winOn, lost, winLost>>
  BY DEF Goto, budget, gaps
<1>2. /\ recoveries \in 0 .. MaxRecoveries /\ stalls \in 0 .. MaxStalls
      /\ attempt \in 0 .. ResumeRetries /\ xruns \in 0 .. MaxRecoveries
      /\ winOn \in BOOLEAN /\ lost \in BOOLEAN /\ winLost \in BOOLEAN
  BY DEF StreamInv, TypeOK
<1>3. /\ p \in Recovering => recoveries = xruns + 1 /\ fails = xruns + 1 /\ timeouts = stalls
      /\ p \in {"readi", "stallProbe"} => recoveries = xruns
      /\ p = "readi" => fails = xruns /\ timeouts = stalls
      /\ p = "stallProbe" => fails = xruns + 1
      /\ p = "shortProbe" => fails = xruns
  BY DEF StreamInv, Budgeted
<1>4. (winOn /\ winLost => lost) /\ (lost /\ call = "Start" => ~ Waits(dev))
  BY DEF StreamInv, Uncounted
<1>5. UNCHANGED caller
  BY <1>1
<1>6. StreamInv'
  BY <1>1, <1>2, <1>3, <1>4, <1>5, GotoKeeps
<1> QED
  BY <1>1, <1>6 DEF Decided

LEMMA Returned ==
  ASSUME StreamInv, NEW r, Return(r), Promised(r), pc[Reader] = "out", call # "none",
         dev.state = "SETUP" => sclosed \/ dev.shut,
         UNCHANGED gaps, lost => dev.state # "RUNNING"
  PROVE  Decided
<1>1. UNCHANGED <<winOn, lost, winLost>> /\ r \in Results
  BY DEF gaps, Promised
<1>2. winOn \in BOOLEAN /\ lost \in BOOLEAN /\ winLost \in BOOLEAN /\ (winOn /\ winLost => lost)
  BY DEF StreamInv, TypeOK, Uncounted
<1>3. StreamInv'
  BY <1>1, <1>2, ReturnKeeps
<1> QED
  BY <1>3 DEF Decided

\* A failed ioctl is classified.
LEMMA ToTerminal ==
  ASSUME StreamInv, asked, pc[Reader] = "out", at \notin Probes, Err # "ok",
         at = "resume" => Err \in {"EBADF", "ENODEV"},
         Goto("terminal", Err), UNCHANGED <<budget, gaps>>
  PROVE  Decided
<1>1. Err = "EBADFD" => Interrupted
  BY Inside DEF StreamInv, Meanings
<1>2. dev.state = "SETUP" => sclosed \/ dev.shut
  BY Inside DEF StreamInv, States, Waiting
<1>3. "terminal" \in Places \ {"idle", "entry"}
  BY DEF Places
<1>4. Prepares("terminal", Err)
  BY <1>1, <1>2, <1>3, Inside DEF Prepares
<1>5. lost => dev.state # "RUNNING"
  BY Inside DEF StreamInv, Uncounted, States, Waits, Failed, Err
<1> QED
  BY <1>4, <1>5, Inside, Went DEF Recovering

\* A probe decides.
LEMMA ProbeDecides ==
  ASSUME StreamInv, asked, pc[Reader] = "out", at \in Probes, NEW x \in Results \ {"ErrClosed", "ErrDeviceGone"},
         Return(AfterProbe(x)), UNCHANGED gaps,
         ~ sclosed /\ Err \notin {"ENODEV", "EBADFD"} => Promised(x)
  PROVE  Decided
<1> DEFINE r == AfterProbe(x)
<1>1. \/ sclosed /\ r = "ErrClosed"
      \/ ~ sclosed /\ Err \in {"ENODEV", "EBADFD"} /\ r = "ErrDeviceGone"
      \/ ~ sclosed /\ Err \notin {"ENODEV", "EBADFD"} /\ r = x
  BY DEF AfterProbe, ProbedGone
<1>2. Err \in {"ENODEV", "EBADFD"} => Unplugged(dev)
  BY Inside DEF StreamInv, Meanings
<1>3. Promised(r)
  <2>1. CASE r = x /\ ~ sclosed /\ Err \notin {"ENODEV", "EBADFD"}
    BY <2>1
  <2>2. CASE r = "ErrClosed" /\ sclosed
    BY <2>2 DEF Promised, Results
  <2>3. CASE r = "ErrDeviceGone" /\ ~ sclosed /\ Err \in {"ENODEV", "EBADFD"}
    BY <2>3, <1>2, Inside DEF Promised, Results
  <2> QED
    BY <1>1, <2>1, <2>2, <2>3
<1>4. dev.state = "SETUP" => sclosed \/ dev.shut
  BY DEF StreamInv, States, Probes
<1>5. lost => dev.state # "RUNNING"
  BY DEF StreamInv, Uncounted, Probes
<1> HIDE DEF r
<1>6. Return(r)
  BY DEF r
<1> QED
  BY <1>3, <1>4, <1>5, <1>6, Inside, Returned

LEMMA EnterDecides ==
  ASSUME StreamInv, Enter
  PROVE  Decided
<1>1. at = "entry" /\ ~ asked /\ pc[Reader] = "out" /\ call # "none"
  BY DEF Enter, StreamInv, Placed, OpAt
<1>2. dev.state = "SETUP" => sclosed \/ dev.shut
  BY <1>1 DEF StreamInv, States
<1>3. lost => dev.state # "RUNNING"
  BY <1>1 DEF StreamInv, Uncounted
<1>4. CASE sclosed
  <2>1. Return("ErrClosed") /\ UNCHANGED gaps
    BY <1>4 DEF Enter
  <2>2. Promised("ErrClosed")
    BY <1>4 DEF Promised, Results
  <2> QED
    BY <1>1, <1>2, <1>3, <2>1, <2>2, Returned
<1>5. CASE ~ sclosed /\ call = "Start"
  <2>1. Goto("start", "ok") /\ UNCHANGED <<budget, gaps>>
    BY <1>5 DEF Enter
  <2>2. Ready /\ ~ late
    BY <1>1, <1>5 DEF StreamInv, States, Placed
  <2>3. Prepares("start", "ok")
    BY <1>2, <1>5, <2>2 DEF Prepares, Places, OpAt
  <2> QED
    BY <1>1, <1>3, <2>1, <2>2, <2>3, Went DEF Recovering
<1>6. CASE ~ sclosed /\ call # "Start"
  <2>1. Goto("readi", "ok") /\ UNCHANGED <<budget, gaps>>
    BY <1>6 DEF Enter
  <2>2. ~ late
    BY <1>6 DEF StreamInv, Placed
  <2>3. Prepares("readi", "ok")
    BY <1>2, <1>6 DEF Prepares, Places, OpAt
  <2> QED
    BY <1>1, <1>3, <2>1, <2>2, <2>3, Went DEF Recovering
<1> QED
  BY <1>4, <1>5, <1>6

\* A Start or a Read that got what it asked for.
LEMMA SucceedsDecides ==
  ASSUME StreamInv, asked, pc[Reader] = "out", at \in {"start", "readi"}, Err = "ok",
         Return("ok"),
         winOn' \in BOOLEAN, winLost' \in BOOLEAN, winOn' /\ winLost' => lost, lost' = lost
  PROVE  Decided
<1>1. Promised("ok")
  BY Inside DEF Promised, Results
<1>2. dev.state = "SETUP" => sclosed \/ dev.shut
  BY Inside DEF StreamInv, States, Waiting
<1>3. (lost => dev.state # "RUNNING") /\ lost \in BOOLEAN /\ "ok" \in Results
  BY DEF StreamInv, Uncounted, TypeOK, Results
<1>4. StreamInv'
  BY <1>2, <1>3, Inside, ReturnKeeps
<1> QED
  BY <1>1, <1>4, Inside DEF Decided

LEMMA StartedDecides ==
  ASSUME StreamInv, Started
  PROVE  Decided
<1>1. asked /\ pc[Reader] = "out" /\ at = "start"
  BY DEF Started, Back
<1>2. CASE Err = "ok"
  <2>1. Return("ok") /\ UNCHANGED <<winOn, lost, winLost>>
    BY <1>2 DEF Started, gaps
  <2>2. winOn \in BOOLEAN /\ winLost \in BOOLEAN /\ (winOn /\ winLost => lost)
    BY DEF StreamInv, TypeOK, Uncounted
  <2> QED
    BY <1>1, <1>2, <2>1, <2>2, SucceedsDecides
<1>3. CASE Err # "ok"
  <2>1. Goto("terminal", Err) /\ UNCHANGED <<budget, gaps>>
    BY <1>3 DEF Started
  <2> QED
    BY <1>1, <1>3, <2>1, ToTerminal DEF Probes
<1> QED
  BY <1>2, <1>3

LEMMA WindowDecides ==
  ASSUME StreamInv, StartWindow \/ WindowPasses \/ WindowShort
  PROVE  Decided
<1>1. asked /\ pc[Reader] = "out" /\ at = "readi" /\ Err = "ok"
  BY DEF StartWindow, WindowPasses, WindowShort, Back
<1>2. winOn \in BOOLEAN /\ winLost \in BOOLEAN /\ (winOn /\ winLost => lost)
  BY DEF StreamInv, TypeOK, Uncounted
<1>3. CASE StartWindow
  <2>1. Return("ok") /\ winOn' = TRUE /\ winLost' = FALSE /\ lost' = lost
    BY <1>3 DEF StartWindow
  <2> QED
    BY <1>1, <2>1, SucceedsDecides
<1>4. CASE WindowPasses
  <2>1. Return("ok") /\ UNCHANGED <<winOn, lost, winLost>>
    BY <1>4 DEF WindowPasses, gaps
  <2> QED
    BY <1>1, <1>2, <2>1, SucceedsDecides
<1>5. CASE WindowShort
  <2>1. Goto("shortProbe", "ok") /\ UNCHANGED <<budget, gaps>>
    BY <1>5 DEF WindowShort
  <2>2. dev.state = "SETUP" => sclosed \/ dev.shut
    BY <1>1, Inside DEF StreamInv, States, Waiting
  <2>3. call # "Start" /\ (lost => dev.state # "RUNNING")
    BY <1>1 DEF StreamInv, Placed, Uncounted
  <2>4. Prepares("shortProbe", "ok")
    BY <2>2, <2>3 DEF Prepares, Places, OpAt
  <2>5. ~ ReadiFailed
    BY <1>1 DEF ReadiFailed, Recoverable, Err
  <2> QED
    BY <1>1, <2>1, <2>3, <2>4, <2>5, Inside, Went DEF Recovering
<1> QED
  BY <1>3, <1>4, <1>5

\* A probe of an open stream fails only of a device that is gone.
LEMMA ProbePasses ==
  ASSUME StreamInv, asked, pc[Reader] = "out", at \in {"stallProbe", "shortProbe"},
         ~ sclosed, Err \notin {"ENODEV", "EBADFD"}
  PROVE  there
BY Inside DEF StreamInv, Budgeted, Err

LEMMA ProbedDecides ==
  ASSUME StreamInv, ShortfallError \/ StallError \/ StateError
  PROVE  Decided
<1>1. asked /\ pc[Reader] = "out" /\ at \in Probes /\ UNCHANGED gaps
  BY DEF ShortfallError, StallError, StateError, Back, Probes
<1>2. ~ late /\ (dirty => sclosed)
  BY <1>1, Inside
<1>3. CASE ShortfallError
  <2>1. "ShortfallError" \in Results \ {"ErrClosed", "ErrDeviceGone"} /\ Return(AfterProbe("ShortfallError"))
    BY <1>3 DEF ShortfallError, Results, Errors
  <2>2. at = "shortProbe" /\ fails = xruns
    BY <1>3 DEF ShortfallError, Back, StreamInv, Budgeted
  <2>3. ~ sclosed /\ Err \notin {"ENODEV", "EBADFD"} => there
    BY <1>1, <2>2, ProbePasses
  <2>4. ~ sclosed /\ Err \notin {"ENODEV", "EBADFD"} => Promised("ShortfallError")
    BY <1>2, <2>1, <2>2, <2>3 DEF Promised
  <2> QED
    BY <1>1, <2>1, <2>4, ProbeDecides
<1>4. CASE StallError
  <2>1. "StallError" \in Results \ {"ErrClosed", "ErrDeviceGone"} /\ Return(AfterProbe("StallError"))
    BY <1>4 DEF StallError, Results, Errors
  <2>2. /\ at = "stallProbe" /\ fails = xruns + 1
        /\ fails = MaxRecoveries + 1 \/ timeouts = MaxStalls + 1
    BY <1>4 DEF StallError, Back, StreamInv, Budgeted
  <2>3. ~ sclosed /\ Err \notin {"ENODEV", "EBADFD"} => there
    BY <1>1, <2>2, ProbePasses
  <2>4. xruns \in Int
    BY DEF StreamInv, TypeOK
  <2>5. ~ sclosed /\ Err \notin {"ENODEV", "EBADFD"} => Promised("StallError")
    BY <1>2, <2>1, <2>2, <2>3, <2>4 DEF Promised
  <2> QED
    BY <1>1, <2>1, <2>5, ProbeDecides
<1>5. CASE StateError
  <2>1. at = "stateProbe" /\ Return(AfterProbe(cause))
    BY <1>5 DEF StateError, Back
  <2>2. cause = "EBADFD" /\ Interrupted
    BY <2>1 DEF StreamInv, Meanings
  <2>3. cause \in Results \ {"ErrClosed", "ErrDeviceGone"}
    BY <2>2 DEF Results, Errors, Errnos
  <2>4. ~ sclosed => Promised(cause)
    BY <1>2, <2>2, <2>3 DEF Promised, Interrupted
  <2> QED
    BY <1>1, <2>1, <2>3, <2>4, ProbeDecides
<1> QED
  BY <1>3, <1>4, <1>5

LEMMA ReadFailedDecides ==
  ASSUME StreamInv, ReadFailed \/ GiveUp \/ Recover
  PROVE  Decided
<1>1. asked /\ pc[Reader] = "out" /\ at = "readi" /\ Err # "ok"
  BY DEF ReadFailed, GiveUp, Recover, Back, Recoverable
<1>2. dev.state = "SETUP" => sclosed \/ dev.shut
  BY <1>1, Inside DEF StreamInv, States, Waiting
<1>3. call # "Start" /\ (lost => dev.state # "RUNNING")
  BY <1>1 DEF StreamInv, Placed, Uncounted
<1>4. CASE ReadFailed
  <2>1. Goto("terminal", Err) /\ UNCHANGED <<budget, gaps>>
    BY <1>4 DEF ReadFailed
  <2> QED
    BY <1>1, <2>1, ToTerminal DEF Probes
<1>5. CASE GiveUp
  <2>1. Goto("stallProbe", Err) /\ UNCHANGED <<budget, gaps>> /\ OutOfBudget /\ Err \in Recoverable
    BY <1>5 DEF GiveUp
  <2>2. Prepares("stallProbe", Err)
    BY <1>1, <1>2, <1>3, <2>1, Inside DEF Prepares, Places, OpAt, Recoverable
  <2>3. ReadiFailed
    BY <1>1, <2>1, Inside DEF ReadiFailed, Err
  <2>4. /\ fails = xruns + 1 /\ recoveries = xruns
        /\ timeouts = IF Err = "EIO" THEN stalls + 1 ELSE stalls
    BY <1>1, <2>3, Inside DEF StreamInv, Budgeted
  <2>5. fails = MaxRecoveries + 1 \/ timeouts = MaxStalls + 1
    BY <2>1, <2>4 DEF OutOfBudget
  <2> QED
    BY <1>1, <1>3, <2>1, <2>2, <2>3, <2>5, Inside, Went DEF Recovering
<1>6. CASE Recover
  <2> DEFINE p == FirstStep(Err)
  <2>1. /\ Err \in Recoverable /\ ~ OutOfBudget /\ Goto(p, "ok") /\ UNCHANGED <<xruns, winOn, lost, winLost>>
        /\ recoveries' = recoveries + 1 /\ attempt' = 0
        /\ stalls' = IF Err = "EIO" THEN stalls + 1 ELSE stalls
    BY <1>6 DEF Recover, gaps
  <2>2. \/ p = "resume" /\ Err = "ESTRPIPE"
        \/ p = "drop" /\ Err = "EIO"
        \/ p = "prepare" /\ Err = "EPIPE"
    BY <2>1 DEF FirstStep, Recoverable
  <2> HIDE DEF p
  <2>3. p \in {"resume", "prepare"} => ~ Waits(dev)
    BY <1>1, <2>2, Inside DEF StreamInv, States
  <2>4. Prepares(p, "ok")
    BY <1>2, <1>3, <2>2, <2>3 DEF Prepares, Places, OpAt
  <2>5. /\ recoveries \in 0 .. MaxRecoveries /\ stalls \in 0 .. MaxStalls
        /\ xruns \in 0 .. MaxRecoveries /\ recoveries = xruns /\ fails = xruns + 1
        /\ timeouts = IF Err = "EIO" THEN stalls + 1 ELSE stalls
        /\ winOn \in BOOLEAN /\ lost \in BOOLEAN /\ winLost \in BOOLEAN
    <3>1. ReadiFailed
      BY <1>1, <2>1, Inside DEF ReadiFailed, Err
    <3> QED
      BY <1>1, <3>1, Inside DEF StreamInv, TypeOK, Budgeted
  <2>6. /\ fails = xruns' + 1 /\ timeouts = stalls'
        /\ recoveries' \in 0 .. MaxRecoveries /\ stalls' \in 0 .. MaxStalls
        /\ attempt' \in 0 .. ResumeRetries /\ recoveries' = xruns' + 1
    BY <2>1, <2>5, BudgetAssumption DEF OutOfBudget
  <2>7. UNCHANGED <<guard, closing, caller>>
    BY <2>1 DEF Goto
  <2>8. StreamInv'
    <3>1. p \notin {"readi", "stallProbe", "shortProbe"} /\ UNCHANGED caller
      BY <2>2, <2>7
    <3>2. (winOn /\ winLost => lost) /\ (lost => dev.state # "RUNNING")
      BY <1>3 DEF StreamInv, Uncounted
    <3> QED
      BY <1>1, <1>3, <2>1, <2>4, <2>5, <2>6, <3>1, <3>2, Inside, GotoKeeps
  <2> QED
    BY <2>7, <2>8 DEF Decided
<1> QED
  BY <1>4, <1>5, <1>6

\* One ioctl of a recovery succeeded.
LEMMA RecoveryStepDecides ==
  ASSUME StreamInv, RecoveryStep("drop", "prepare") \/ RecoveryStep("prepare", "restart") \/ RestartFailed
  PROVE  Decided
<1>1. /\ asked /\ pc[Reader] = "out" /\ at \in {"drop", "prepare", "restart"}
      /\ UNCHANGED <<budget, gaps>>
  BY DEF RecoveryStep, RestartFailed, Back
<1>2. CASE Err # "ok"
  <2>1. Goto("terminal", Err)
    BY <1>2 DEF RecoveryStep, RestartFailed
  <2> QED
    BY <1>1, <1>2, <2>1, ToTerminal DEF Probes
<1>3. CASE Err = "ok"
  <2>1. \/ at = "drop" /\ Goto("prepare", "ok")
        \/ at = "prepare" /\ Goto("restart", "ok")
    BY <1>3 DEF RecoveryStep, RestartFailed, Back
  <2>2. Got("ok") /\ call # "Start"
    BY <1>1, <1>3, Inside DEF StreamInv, Placed
  <2>3. CASE at = "drop"
    <3>1. ~ Waits(dev)
      BY <2>2, <2>3 DEF StreamInv, States
    <3>2. Prepares("prepare", "ok") /\ dev.state # "RUNNING"
      BY <2>2, <3>1 DEF Prepares, Places, OpAt, Waits
    <3> QED
      BY <1>1, <2>1, <2>3, <3>2, Inside, Went DEF Recovering
  <2>4. CASE at = "prepare"
    <3>1. Ready
      BY <2>2, <2>4 DEF StreamInv, States
    <3>2. Prepares("restart", "ok")
      BY <2>2, <3>1 DEF Prepares, Places, OpAt, Ready
    <3> QED
      BY <1>1, <2>1, <2>4, <3>2, Inside, Went DEF Recovering
  <2> QED
    BY <2>1, <2>3, <2>4
<1> QED
  BY <1>2, <1>3

LEMMA RecoveredDecides ==
  ASSUME StreamInv, Recovered
  PROVE  Decided
<1>1. /\ asked /\ pc[Reader] = "out" /\ at \in {"restart", "resume"} /\ Err = "ok" /\ Goto("readi", "ok")
      /\ winOn' = FALSE /\ lost' = FALSE /\ winLost' = winLost /\ xruns' = xruns + 1 /\ attempt' = 0
      /\ recoveries' = recoveries /\ stalls' = stalls
  BY DEF Recovered, Back
<1>2. dev.state = "SETUP" => sclosed \/ dev.shut
  BY <1>1, Inside DEF StreamInv, States, Waiting
<1>3. call # "Start"
  BY <1>1 DEF StreamInv, Placed
<1>4. Prepares("readi", "ok")
  BY <1>2, <1>3 DEF Prepares, Places, OpAt
<1>5. /\ recoveries \in 0 .. MaxRecoveries /\ stalls \in 0 .. MaxStalls /\ recoveries = xruns + 1
      /\ fails = xruns + 1 /\ timeouts = stalls
      /\ xruns \in 0 .. MaxRecoveries /\ winLost \in BOOLEAN
  BY <1>1 DEF StreamInv, TypeOK, Budgeted, Recovering
<1>6. /\ xruns' \in 0 .. MaxRecoveries /\ attempt' \in 0 .. ResumeRetries
      /\ recoveries' = xruns' /\ fails = xruns' /\ timeouts = stalls'
  BY <1>1, <1>5, BudgetAssumption
<1>7. UNCHANGED <<guard, closing, caller>>
  BY <1>1 DEF Goto
<1>8. StreamInv'
  <2>1. "readi" \notin Recovering /\ UNCHANGED caller
    BY <1>7 DEF Recovering
  <2> QED
    BY <1>1, <1>4, <1>5, <1>6, <2>1, Inside, GotoKeeps
<1> QED
  BY <1>7, <1>8 DEF Decided

LEMMA ResumeFailedDecides ==
  ASSUME StreamInv, ResumeFailed
  PROVE  Decided
<1>1. asked /\ pc[Reader] = "out" /\ at = "resume" /\ Err # "ok"
  BY DEF ResumeFailed, Back
<1>2. ~ Waits(dev) /\ call # "Start" /\ dev.state # "RUNNING"
  BY <1>1, Inside DEF StreamInv, States, Placed, Waits
<1>3. dev.state = "SETUP" => sclosed \/ dev.shut
  BY <1>1 DEF StreamInv, States
<1>4. CASE Goto("terminal", Err) /\ Err \in {"EBADF", "ENODEV"} /\ UNCHANGED <<budget, gaps>>
  BY <1>1, <1>4, ToTerminal DEF Probes
<1>5. CASE Goto("prepare", "ok") /\ UNCHANGED <<budget, gaps>>
  <2>1. Prepares("prepare", "ok")
    BY <1>2 DEF Prepares, Places, OpAt
  <2> QED
    BY <1>1, <1>2, <1>5, <2>1, Inside, Went DEF Recovering
<1>6. CASE /\ Goto("resume", "ok") /\ attempt < ResumeRetries /\ attempt' = attempt + 1
           /\ UNCHANGED <<recoveries, stalls, xruns, winOn, lost, winLost>>
  <2>1. Prepares("resume", "ok")
    BY <1>2, <1>3 DEF Prepares, Places, OpAt
  <2>2. /\ recoveries \in 0 .. MaxRecoveries /\ stalls \in 0 .. MaxStalls /\ recoveries = xruns + 1
        /\ fails = xruns + 1 /\ timeouts = stalls
        /\ xruns \in 0 .. MaxRecoveries /\ attempt \in 0 .. ResumeRetries
        /\ winOn \in BOOLEAN /\ lost \in BOOLEAN /\ winLost \in BOOLEAN
    BY <1>1 DEF StreamInv, TypeOK, Budgeted, Recovering
  <2>3. attempt' \in 0 .. ResumeRetries
    BY <1>6, <2>2, BudgetAssumption
  <2>4. UNCHANGED <<guard, closing, caller>> /\ UNCHANGED caller
    BY <1>6 DEF Goto
  <2>5. winOn /\ winLost => lost
    BY DEF StreamInv, Uncounted
  <2>6. StreamInv'
    BY <1>1, <1>2, <1>6, <2>1, <2>2, <2>3, <2>4, <2>5, Inside, GotoKeeps
  <2> QED
    BY <2>4, <2>6 DEF Decided
<1> QED
  BY <1>4, <1>5, <1>6 DEF ResumeFailed, DeviceGone, budget, gaps

LEMMA TerminalDecides ==
  ASSUME StreamInv, Terminal
  PROVE  Decided
<1>1. at = "terminal" /\ ~ asked /\ pc[Reader] = "out" /\ call # "none" /\ ~ late
  BY DEF Terminal, StreamInv, Placed, OpAt
<1>2. dev.state = "SETUP" => sclosed \/ dev.shut
  BY <1>1 DEF StreamInv, States
<1>3. lost => dev.state # "RUNNING"
  BY <1>1 DEF StreamInv, Uncounted
<1>4. /\ cause \in Errnos \cup {"ok"} /\ cause # "EBUSY" /\ (cause = "EBADFD" => Interrupted)
      /\ (cause = "EBADF" => sclosed) /\ (cause = "ENODEV" => Unplugged(dev)) /\ (dirty => sclosed)
  BY <1>1 DEF StreamInv, TypeOK, Meanings, ClosedFirst
<1>5. CASE ~ sclosed /\ cause = "EBADFD"
  <2>1. Goto("stateProbe", "EBADFD") /\ UNCHANGED <<budget, gaps>>
    BY <1>5 DEF Terminal
  <2>2. Prepares("stateProbe", "EBADFD")
    BY <1>2, <1>4, <1>5 DEF Prepares, Places, OpAt, Errnos
  <2> QED
    BY <1>1, <1>3, <2>1, <2>2, Went DEF Recovering
<1>6. CASE ~ (~ sclosed /\ cause = "EBADFD")
  <2>1. /\ UNCHANGED gaps
        /\ Return(CASE sclosed \/ cause = "EBADF"         -> "ErrClosed"
                    [] ~ sclosed /\ cause \in DeviceGone -> "ErrDeviceGone"
                    [] OTHER                            -> cause)
    BY <1>6 DEF Terminal
  <2>2. CASE sclosed
    <3>1. Return("ErrClosed")
      BY <2>1, <2>2
    <3>2. Promised("ErrClosed")
      BY <2>2 DEF Promised, Results
    <3> QED
      BY <1>1, <1>2, <1>3, <2>1, <3>1, <3>2, Returned
  <2>3. CASE ~ sclosed /\ cause = "ENODEV"
    <3>1. Return("ErrDeviceGone")
      BY <2>1, <2>3 DEF DeviceGone
    <3>2. Promised("ErrDeviceGone")
      BY <1>1, <1>4, <2>3 DEF Promised, Results
    <3> QED
      BY <1>1, <1>2, <1>3, <2>1, <3>1, <3>2, Returned
  <2>4. CASE ~ sclosed /\ cause # "ENODEV"
    <3>1. cause \notin {"EBADF", "EBADFD"}
      BY <1>4, <1>6, <2>4
    <3>2. Return(cause)
      BY <2>1, <2>4, <3>1 DEF DeviceGone
    <3>3. cause \in Results /\ cause \notin {"ErrClosed", "ErrDeviceGone", "StallError", "ShortfallError"}
      BY <1>4, <2>4, <3>1 DEF Results, Errors, Errnos
    <3>4. Promised(cause)
      BY <1>1, <1>4, <2>4, <3>1, <3>3 DEF Promised
    <3> QED
      BY <1>1, <1>2, <1>3, <2>1, <3>2, <3>4, Returned
  <2> QED
    BY <2>2, <2>3, <2>4
<1> QED
  BY <1>5, <1>6

LEMMA Decides == ASSUME StreamInv, Decide PROVE Decided
BY EnterDecides, StartedDecides, WindowDecides, ProbedDecides, ReadFailedDecides, RecoveryStepDecides,
   RecoveredDecides, ResumeFailedDecides, TerminalDecides
   DEF Decide

-----------------------------------------------------------------------------
LEMMA StreamStep ==
  ASSUME StreamInv, [Next]_vars
  PROVE  StreamInv'
<1>1. CASE Decide
  BY <1>1, Decides DEF Decided
<1>2. ASSUME NEW c \in Closers, Swap(c) \/ PcmClose(c) PROVE StreamInv'
  BY <1>2, SwapKeeps, OthersKeep
<1>3. ASSUME NEW kind \in {"Start", "Read"}, Begin(kind) PROVE StreamInv'
  BY <1>3, BeginKeeps
<1>4. CASE Ask \/ Hold \/ Issue \/ Deliver \/ TimeOut \/ Wake \/ Interrupt \/ Vanish
  BY <1>4, AskKeeps, HoldKeeps, AnswerKeeps, OthersKeep
<1>5. CASE UNCHANGED vars
  <2>1. /\ UNCHANGED <<closed, inflight, fd, dev, pc, op, res>> /\ UNCHANGED <<sclosed, closer>>
        /\ UNCHANGED <<fresh, call, late, result, at, asked, cause, dirty>>
        /\ UNCHANGED <<recoveries, stalls, attempt, xruns, winOn, lost, winLost, fails, timeouts, there>>
    BY <1>5 DEF vars, guard, closing, caller, place, budget, gaps, met
  <2>2. UNCHANGED G!TypeOK
    BY <2>1 DEF G!TypeOK
  <2>3. TypeOK' /\ Guarded'
    BY <2>1, <2>2 DEF StreamInv, TypeOK, Guarded
  <2>4. Placed' /\ ClosedFirst' /\ Budgeted'
    BY <2>1 DEF StreamInv, Placed, ClosedFirst, Budgeted, Answered, ReadiFailed, Got
  <2>5. Meanings'
    BY <2>1 DEF StreamInv, Meanings, Got, Answered, Unplugged, Interrupted
  <2>6. States' /\ Uncounted'
    BY <2>1 DEF StreamInv, States, Uncounted, Got, Answered, Waiting, Failed, Ready, Waits
  <2> QED
    BY <2>3, <2>4, <2>5, <2>6 DEF StreamInv
<1> QED
  BY <1>1, <1>2, <1>3, <1>4, <1>5 DEF Next

\* The invariant: what an errno, a place of the call and a history variable say of the
\* device stays true whatever Close and the kernel do in between.
THEOREM StreamInvariant == Spec => []StreamInv
<1>1. Init => StreamInv
  BY StreamBegins
<1>2. StreamInv /\ [Next]_vars => StreamInv'
  BY StreamStep
<1> QED
  BY <1>1, <1>2, PTL DEF Spec

\* The consumer never gets frames from across a discontinuity that Xruns does not count,
\* and the shortfall window never spans one.
THEOREM GapsStayCounted == Spec => []GapsAreCounted
<1>1. StreamInv => GapsAreCounted
  BY DEF StreamInv, Placed, Uncounted, GapsAreCounted
<1> QED
  BY <1>1, StreamInvariant, PTL

-----------------------------------------------------------------------------
\* How a step moves the consumer: a Begin, a Return that keeps its promise, or not at all.
LEMMA CallerMoves ==
  ASSUME StreamInv, [Next]_vars
  PROVE  \/ UNCHANGED <<sclosed, dev>> /\ \E kind \in {"Start", "Read"} : Begin(kind)
         \/ UNCHANGED <<sclosed, dev>> /\ call # "none" /\ \E r : Return(r) /\ Promised(r)
         \/ UNCHANGED <<call, late, result>>
<1>1. CASE Decide
  <2>1. \/ UNCHANGED <<guard, closing, caller>>
        \/ call # "none" /\ \E r : Return(r) /\ Promised(r)
    BY <1>1, Decides DEF Decided
  <2>2. \A r : Return(r) => UNCHANGED <<sclosed, dev>>
    BY DEF Return, guard, closing
  <2> QED
    BY <2>1, <2>2 DEF caller
<1>2. ASSUME NEW c \in Closers, Swap(c) \/ PcmClose(c) PROVE UNCHANGED <<call, late, result>>
  BY <1>2 DEF Swap, PcmClose, caller
<1>3. ASSUME NEW kind \in {"Start", "Read"}, Begin(kind) PROVE UNCHANGED <<sclosed, dev>>
  BY <1>3 DEF Begin, guard, closing
<1>4. CASE Ask \/ Hold \/ Issue \/ Deliver \/ TimeOut \/ Wake \/ Interrupt \/ Vanish
  BY <1>4 DEF Ask, Hold, Issue, Deliver, TimeOut, Wake, Answer1, Interrupt, Vanish, caller
<1>5. CASE UNCHANGED vars
  BY <1>5 DEF vars, caller
<1> QED
  BY <1>1, <1>2, <1>3, <1>4, <1>5 DEF Next

LEMMA ReturnsPromised ==
  ASSUME StreamInv, [Next]_vars, Returns
  PROVE  Promised(result')
<1>1. call # "none" /\ call' = "none"
  BY DEF Returns
<1>2. \A kind \in {"Start", "Read"} : ~ Begin(kind)
  BY <1>1 DEF Begin
<1>3. PICK r : Return(r) /\ Promised(r)
  BY <1>1, <1>2, CallerMoves
<1>4. result' = r
  BY <1>3 DEF Return
<1> QED
  BY <1>3, <1>4

\* A failure met after Close was called is returned as ErrClosed.
THEOREM CloseStaysFirst == Spec => CloseWins
<1>1. StreamInv /\ [Next]_vars => [Returns /\ dirty => result' = "ErrClosed"]_vars
  BY ReturnsPromised DEF Promised
<1> QED
  BY <1>1, StreamInvariant, PTL DEF Spec, CloseWins

\* A state error a caller sees was a suspend between two ioctls, or an unplug.
THEOREM StateErrorsAreSuspends == Spec => StateErrorIsSuspend
<1>1. StreamInv /\ [Next]_vars =>
        [Returns => /\ result' # "EBUSY"
                    /\ result' = "EBADFD" => dev.state \in {"SUSPENDED", "DISCONNECTED"}]_vars
  BY ReturnsPromised DEF Promised
<1> QED
  BY <1>1, StreamInvariant, PTL DEF Spec, StateErrorIsSuspend

\* A StallError or ShortfallError is of a device the probe found there, with every
\* recovery counted, and a StallError comes at the last failure the budget allows.
THEOREM StallsAreExhausted == Spec => StallIsExhausted
<1>1. StreamInv /\ [Next]_vars =>
        [/\ Returns /\ result' \in {"StallError", "ShortfallError"} =>
              there /\ ~ sclosed /\ xruns = IF result' = "StallError" THEN fails - 1 ELSE fails
         /\ Returns /\ result' = "StallError" =>
              fails = MaxRecoveries + 1 \/ timeouts = MaxStalls + 1]_vars
  BY ReturnsPromised DEF Promised
<1> QED
  BY <1>1, StreamInvariant, PTL DEF Spec, StallIsExhausted

-----------------------------------------------------------------------------
\* A device that is gone stays gone, and a set flag stays set.
LEMMA GoneStaysGone ==
  ASSUME StreamInv, [Next]_vars
  PROVE  (Unplugged(dev) => Unplugged(dev')) /\ (sclosed => sclosed') /\ sclosed' \in BOOLEAN
         /\ (UNCHANGED sclosed \/ UNCHANGED <<dev, call, late, result>>)
<1>0. sclosed \in BOOLEAN
  BY DEF StreamInv, TypeOK
<1>1. CASE Ask \/ Hold
  <2>1. /\ UNCHANGED sclosed
        /\ \/ G!Acquire(Reader, OpAt[at]) \/ G!Refuse(Reader)
           \/ G!Park(Reader) \/ G!Release(Reader)
    BY <1>1 DEF Ask, Hold, closing
  <2>2. UNCHANGED dev
    BY <2>1 DEF G!Acquire, G!Refuse, G!Park, G!Release
  <2> QED
    BY <1>0, <2>1, <2>2
<1>2. CASE Issue \/ Deliver \/ TimeOut \/ Wake
  <2>1. PICK e \in Errnos \cup {"ok"}, n \in Devices :
          G!Back(Reader, e, n) /\ Means(op[Reader], dev, e, n, pc[Reader] = "parked")
    BY <1>2, AnswerComes
  <2>2. dev' = n
    BY <2>1 DEF G!Back
  <2>3. Unplugged(dev) => Unplugged(n)
    BY <2>1 DEF Means, Unplugged
  <2>4. UNCHANGED sclosed
    BY <1>2, AnswerComes DEF Answer1, closing
  <2> QED
    BY <1>0, <2>2, <2>3, <2>4
<1>3. CASE (\E c \in Closers : PcmClose(c)) \/ Interrupt \/ Vanish
  <2>1. (Moves(dev, dev', FALSE) \/ Moves(dev, dev', TRUE)) /\ UNCHANGED sclosed
    BY <1>3, OthersMove DEF closing
  <2> QED
    BY <1>0, <2>1 DEF Moves, Unplugged
<1>4. ASSUME NEW c \in Closers, Swap(c)
      PROVE  sclosed' = TRUE /\ UNCHANGED <<dev, call, late, result>>
  BY <1>4 DEF Swap, guard, caller
<1>5. CASE Decide
  <2>1. Decided
    BY <1>5, Decides
  <2>2. \A r : Return(r) => UNCHANGED <<sclosed, dev>>
    BY DEF Return, guard, closing
  <2>3. UNCHANGED <<sclosed, dev>>
    BY <2>1, <2>2 DEF Decided, guard, closing
  <2> QED
    BY <1>0, <2>3
<1>6. ASSUME NEW kind \in {"Start", "Read"}, Begin(kind) PROVE UNCHANGED <<sclosed, dev>>
  BY <1>6 DEF Begin, guard, closing
<1>7. CASE UNCHANGED vars
  BY <1>0, <1>7 DEF vars, guard, closing
<1> QED
  BY <1>0, <1>1, <1>2, <1>3, <1>4, <1>5, <1>6, <1>7 DEF Next

LEMMA ContractStep ==
  ASSUME StreamInv, [Next]_vars
  PROVE  [Contract!Next]_(Contract!vars)
<1>1. Unplugged(dev) \in BOOLEAN
  BY GuardTypes DEF StreamInv, Unplugged, Devices
<1>2. Unplugged(dev') \in BOOLEAN
  BY StreamStep, GuardTypes DEF StreamInv, Unplugged, Devices
<1>3. CASE UNCHANGED <<sclosed, dev>> /\ \E kind \in {"Start", "Read"} : Begin(kind)
  BY <1>3 DEF Begin, Contract!Next, Contract!Begin
<1>4. CASE UNCHANGED <<sclosed, dev>> /\ call # "none" /\ \E r : Return(r) /\ Promised(r)
  <2>1. PICK r : Return(r) /\ Promised(r)
    BY <1>4
  <2>2. Contract!Return(r)
    BY <1>4, <2>1 DEF Return, Promised, Contract!Return
  <2>3. r \in Contract!Results
    BY <2>1 DEF Promised, Results, Contract!Results
  <2> QED
    BY <2>2, <2>3 DEF Contract!Next
<1>5. CASE UNCHANGED <<call, late, result>>
  <2>1. CASE UNCHANGED sclosed
    BY <1>1, <1>2, <1>5, <2>1, GoneStaysGone DEF Contract!Next, Contract!Unplug, Contract!vars
  <2>2. CASE sclosed' # sclosed
    <3>1. ~ sclosed /\ sclosed' /\ UNCHANGED dev
      BY <2>2, GoneStaysGone DEF StreamInv, TypeOK
    <3> QED
      BY <1>5, <3>1, GoneStaysGone DEF Contract!Next, Contract!Close
  <2> QED
    BY <2>1, <2>2
<1> QED
  BY <1>3, <1>4, <1>5, CallerMoves

\* Start and Read keep the stream's contract, whatever recovery goes on inside them.
THEOREM StreamKeepsContract == Spec => ContractSpec
<1>1. Init => Contract!Init
  BY DEF Init, G!Init, G!Prepared, Contract!Init, Unplugged
<1> QED
  BY <1>1, ContractStep, StreamInvariant, PTL DEF Spec, ContractSpec, Contract!Spec

-----------------------------------------------------------------------------
\* What the stream does with its PCM is what PcmGuard lets one user, the closers and the
\* kernel do, so what is proved of every use of the guard is true of the stream's.
LEMMA StreamGuardStep ==
  ASSUME StreamInv, [Next]_vars
  PROVE  [G!Next]_(G!vars)
<1>1. CASE Ask
  <2>1. at \in DOMAIN OpAt /\ (G!Acquire(Reader, OpAt[at]) \/ G!Refuse(Reader))
    BY <1>1 DEF Ask
  <2>2. OpAt[at] \in OpsOf[Reader]
    BY <2>1 DEF OpAt, OpsOf, Ioctls
  <2> QED
    BY <2>1, <2>2 DEF G!Next, G!User
<1>2. CASE Hold
  BY <1>2 DEF Hold, G!Next, G!User
<1>3. CASE Issue \/ Deliver \/ TimeOut \/ Wake
  BY <1>3 DEF Issue, Deliver, TimeOut, Wake, G!Next, G!User
<1>4. ASSUME NEW c \in Closers, PcmClose(c) PROVE G!Next
  BY <1>4 DEF PcmClose, G!Next
<1>5. CASE Interrupt \/ Vanish
  <2>1. /\ G!Overrun(dev) = Overrun(dev) /\ G!Suspend(dev) = Suspend(dev)
        /\ G!ShutDown(dev) = ShutDown(dev) /\ G!Disconnect(dev) = Disconnect(dev)
    BY DEF G!Overrun, Overrun, G!Suspend, Suspend, G!ShutDown, ShutDown, G!Disconnect, Disconnect, G!In, In
  <2>2. G!Environment
    BY <1>5, <2>1 DEF Interrupt, Vanish, G!Environment
  <2> QED
    BY <2>2 DEF G!Next
<1>6. CASE Decide
  <2>1. \A r : Return(r) => UNCHANGED guard
    BY DEF Return
  <2>2. UNCHANGED guard
    BY <1>6, <2>1, Decides DEF Decided
  <2> QED
    BY <2>2 DEF guard, G!vars
<1>7. ASSUME NEW c \in Closers, Swap(c) PROVE UNCHANGED G!vars
  BY <1>7 DEF Swap, guard, G!vars
<1>8. ASSUME NEW kind \in {"Start", "Read"}, Begin(kind) PROVE UNCHANGED G!vars
  BY <1>8 DEF Begin, guard, G!vars
<1>9. CASE UNCHANGED vars
  BY <1>9 DEF vars, guard, G!vars
<1> QED
  BY <1>1, <1>2, <1>3, <1>4, <1>5, <1>6, <1>7, <1>8, <1>9 DEF Next

THEOREM StreamUsesGuard == Spec => G!Spec
<1>1. Init => G!Init
  BY DEF Init
<1> QED
  BY <1>1, StreamGuardStep, StreamInvariant, PTL DEF Spec, G!Spec
===============================================================================
