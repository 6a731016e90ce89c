--------------------------- MODULE PcmGuardProofs ---------------------------
(***************************************************************************)
(* PcmGuard for every finite set of users and any set of closers: its      *)
(* types, the in-flight count, and that it implements FdLifetime.          *)
(***************************************************************************)
EXTENDS PcmGuard, FiniteSetTheorems, TLAPS

-----------------------------------------------------------------------------
\* The kernel's answers keep the device a device and carry a known errno.
LEMMA AnswersType ==
  ASSUME NEW d \in Devices, NEW o \in Ioctls, NEW a \in Answers(o, d)
  PROVE  a.err \in Errnos \cup {"ok"} /\ a.dev \in Devices
<1> DEFINE Ok(x) == x.err \in Errnos \cup {"ok"} /\ x.dev \in Devices
<1>1. \A e \in Errnos \cup {"ok"}, x \in Devices : Ok(Answer(e, x))
  BY DEF Answer
<1>2. \A s \in PcmStates : In(s, d) \in Devices
  BY DEF In, Devices
<1>3. \A s \in PcmStates : StateErrno(s) \in Errnos
  BY DEF StateErrno, Errnos, PcmStates
<1>4. d.state \in PcmStates /\ d.saved \in PcmStates /\ d.shut \in BOOLEAN
  BY DEF Devices
<1>5. "PREPARED" \in PcmStates /\ "RUNNING" \in PcmStates /\ "SETUP" \in PcmStates
  BY DEF PcmStates
<1>6. {"EBUSY", "EBADFD", "ENODEV", "EDRV", "EAGAIN", "ENOSYS", "ok"} \subseteq Errnos \cup {"ok"}
  BY DEF Errnos
<1> HIDE DEF Ok
<1>7. \A x \in PrepareAnswers(d) : Ok(x)
  BY <1>1, <1>2, <1>5, <1>6 DEF PrepareAnswers
<1>8. \A x \in StartAnswers(d) : Ok(x)
  BY <1>1, <1>2, <1>5, <1>6 DEF StartAnswers
<1>9. \A x \in DropAnswers(d) : Ok(x)
  BY <1>1, <1>2, <1>5, <1>6 DEF DropAnswers
<1>10. \A x \in ResumeAnswers(d) : Ok(x)
  BY <1>1, <1>2, <1>4, <1>6 DEF ResumeAnswers
<1>11. \A x \in ProbeAnswers(d) : Ok(x)
  BY <1>1, <1>6 DEF ProbeAnswers
<1>12. Ok(Answer("ENODEV", d)) /\ Ok(Answer(StateErrno(d.state), d))
  BY <1>1, <1>3, <1>4, <1>6
<1>13. Ok(a)
  BY <1>4, <1>7, <1>8, <1>9, <1>10, <1>11, <1>12 DEF Answers, Ioctls
<1> QED
  BY <1>13 DEF Ok

-----------------------------------------------------------------------------
\* The types are invariant: in particular inflight never drops below zero, for which
\* the count it keeps is needed.

LEMMA CountedFinite == Counted \in SUBSET Users /\ IsFiniteSet(Counted) /\ Cardinality(Counted) \in Nat
<1>1. Counted \in SUBSET Users
  BY DEF Counted
<1>2. IsFiniteSet(Counted)
  BY <1>1, FS_Subset, ThreadsAssumption
<1> QED
  BY <1>1, <1>2, FS_CardinalityType

\* A closer that has claimed the descriptor and not closed it yet.
Active == {"drop", "drain", "waiting", "close"}

\* The inductive invariant.  Beside the properties it says that an active closer has
\* set closed, that one about to close the descriptor found no ioctl in flight and
\* none can start any more, and that nobody is active once the descriptor is closed.
GuardInv ==
  /\ TypeOK
  /\ InflightCounts
  /\ OneClaimer
  /\ NoLostWakeup
  /\ \A c \in Closers : pc[c] \in Active => closed
  /\ \A c \in Closers : pc[c] = "close" => Counted = {}
  /\ fd = "closed" => closed /\ Counted = {} /\ \A c \in Closers : pc[c] \notin Active

LEMMA GuardInit == Init => GuardInv
<1> SUFFICES ASSUME Init PROVE GuardInv
  OBVIOUS
<1>1. Counted = {}
  BY DEF Init, Counted, Threads
<1>2. inflight = Cardinality(Counted)
  BY <1>1, FS_EmptySet DEF Init
<1>3. Prepared \in Devices
  BY DEF Prepared, Devices, PcmStates
<1>4. TypeOK
  BY <1>3, ThreadsAssumption DEF Init, TypeOK, Threads, UserPcs, CloserPcs
<1> QED
  BY <1>1, <1>2, <1>4 DEF Init, GuardInv, InflightCounts, OneClaimer, NoLostWakeup, Active, Threads

\* A step that takes no user into or out of the counted section, moves no closer and
\* leaves the descriptor alone preserves the invariant if it keeps the types.
LEMMA Quiet ==
  ASSUME GuardInv, TypeOK', Counted' = Counted,
         UNCHANGED <<closed, inflight, fd>>,
         \A c \in Closers : pc'[c] = pc[c]
  PROVE  GuardInv'
BY DEF GuardInv, InflightCounts, OneClaimer, NoLostWakeup, Active

LEMMA GuardAcquire ==
  ASSUME GuardInv, NEW u \in Users, NEW o \in OpsOf[u], Acquire(u, o)
  PROVE  GuardInv'
<1>1. TypeOK /\ u \in Threads /\ u \notin Closers /\ o \in Ioctls
  BY ThreadsAssumption DEF GuardInv, Threads
<1>2. TypeOK'
  BY <1>1 DEF Acquire, TypeOK, Threads, UserPcs, Errnos
<1>3. Counted' = Counted \cup {u} /\ u \notin Counted
  BY <1>1 DEF Acquire, Counted, TypeOK, Threads
<1>4. InflightCounts'
  BY <1>3, CountedFinite, FS_AddElement DEF Acquire, GuardInv, InflightCounts
<1>5. \A c \in Closers : pc'[c] = pc[c]
  BY <1>1, ThreadsAssumption DEF Acquire, TypeOK, Threads
<1>6. ~ closed /\ UNCHANGED <<closed, fd>>
  BY DEF Acquire
<1> QED
  BY <1>2, <1>4, <1>5, <1>6 DEF GuardInv, OneClaimer, NoLostWakeup, Active

LEMMA GuardUser ==
  ASSUME GuardInv, NEW u \in Users,
         Refuse(u) \/ Issue(u) \/ Park(u) \/ Deliver(u) \/ TimeOut(u) \/ Wake(u)
  PROVE  GuardInv'
<1> USE DEF GuardInv
<1>1. u \in Threads /\ u \notin Closers
  BY ThreadsAssumption DEF Threads
<1>2. CASE Refuse(u)
  <2>1. TypeOK'
    BY <1>2 DEF Refuse, TypeOK, Errnos
  <2> QED
    BY <2>1, <1>2, Quiet DEF Refuse, Counted
<1>3. CASE Park(u)
  <2>1. TypeOK'
    BY <1>1, <1>3 DEF Park, TypeOK, Threads, UserPcs
  <2>2. Counted' = Counted
    BY <1>1, <1>3 DEF Park, Counted, TypeOK, Threads
  <2> QED
    BY <1>1, <1>3, <2>1, <2>2, Quiet DEF Park, TypeOK, Threads
<1>4. ASSUME NEW e \in Errnos \cup {"ok"}, NEW d \in Devices, Back(u, e, d),
             pc[u] \in {"held", "parked"}
      PROVE  GuardInv'
  <2>1. TypeOK'
    BY <1>1, <1>4 DEF Back, TypeOK, Threads, UserPcs
  <2>2. Counted' = Counted
    BY <1>1, <1>4 DEF Back, Counted, TypeOK, Threads
  <2> QED
    BY <1>1, <1>4, <2>1, <2>2, Quiet DEF Back, TypeOK, Threads
<1>5. CASE Issue(u)
  <2>1. PICK a \in Answers(op[u], dev) : Back(u, a.err, a.dev)
    BY <1>5 DEF Issue
  <2>2. op[u] \in Ioctls
    BY <1>5 DEF TypeOK, Issue
  <2> QED
    BY <1>4, <1>5, <2>1, <2>2, AnswersType DEF Issue, TypeOK
<1>6. CASE Deliver(u)
  BY <1>4, <1>6 DEF Deliver, TypeOK
<1>7. CASE TimeOut(u)
  BY <1>4, <1>7 DEF TimeOut, TypeOK, Errnos
<1>8. CASE Wake(u)
  <2>1. StateErrno(dev.state) \in Errnos
    BY DEF StateErrno, Errnos
  <2> QED
    BY <1>4, <1>8, <2>1 DEF Wake, TypeOK
<1> QED
  BY <1>2, <1>3, <1>5, <1>6, <1>7, <1>8

LEMMA GuardRelease ==
  ASSUME GuardInv, NEW u \in Users, Release(u)
  PROVE  GuardInv'
<1> USE DEF GuardInv
<1>1. u \in Threads /\ u \notin Closers /\ Users \cap Closers = {} /\ pc[u] = "back"
  BY ThreadsAssumption DEF Threads, Release
<1>2. Counted' = Counted \ {u} /\ u \in Counted
  BY <1>1 DEF Release, Counted, TypeOK, Threads
<1>3. InflightCounts' /\ inflight' \in Nat
  <2>1. Cardinality(Counted \ {u}) = Cardinality(Counted) - 1 /\ IsFiniteSet(Counted \ {u})
    BY <1>2, CountedFinite, FS_RemoveElement
  <2>2. Cardinality(Counted \ {u}) \in Nat
    BY <2>1, FS_CardinalityType
  <2> QED
    BY <1>2, <2>1, <2>2 DEF Release, InflightCounts
<1>4. \A t \in Threads : pc'[t] = IF t = u THEN "out"
                                   ELSE IF pc[t] = "waiting" /\ inflight = 1 /\ closed THEN "drain"
                                   ELSE pc[t]
  BY DEF Release
<1>5. TypeOK'
  <2>1. pc' \in [Threads -> UserPcs \cup CloserPcs]
    BY <1>1, <1>4 DEF Release, TypeOK, UserPcs, CloserPcs
  <2>2. \A v \in Users : pc'[v] \in UserPcs /\ (pc'[v] # "out" => op'[v] \in Ioctls)
    BY <1>1, <1>4 DEF Release, TypeOK, UserPcs, Threads
  <2>3. \A c \in Closers : pc'[c] \in CloserPcs
    BY <1>1, <1>4 DEF TypeOK, CloserPcs, Threads
  <2> QED
    BY <1>3, <2>1, <2>2, <2>3 DEF Release, TypeOK
<1>6. \A c \in Closers : pc'[c] = IF pc[c] = "waiting" /\ inflight = 1 /\ closed THEN "drain" ELSE pc[c]
  BY <1>1, <1>4 DEF Threads
<1>7. NoLostWakeup'
  <2> SUFFICES ASSUME NEW c \in Closers, pc'[c] = "waiting"
               PROVE  closed' /\ Counted' # {}
    BY DEF NoLostWakeup
  <2>1. pc[c] = "waiting" /\ ~ (inflight = 1 /\ closed)
    BY <1>6
  <2>2. closed
    BY <2>1 DEF Active
  <2>3. Cardinality(Counted) # 1
    BY <2>1, <2>2 DEF InflightCounts
  <2>4. Counted # {u}
    BY <2>3, FS_Singleton
  <2> QED
    BY <1>2, <2>2, <2>4 DEF Release
<1>8. OneClaimer'
  BY <1>6 DEF OneClaimer, Active
<1> QED
  BY <1>2, <1>3, <1>5, <1>6, <1>7, <1>8 DEF Release

LEMMA GuardCloser ==
  ASSUME GuardInv, NEW c \in Closers, Closer(c)
  PROVE  GuardInv'
<1> USE DEF GuardInv
<1>1. c \in Threads /\ c \notin Users /\ Users \cap Closers = {}
  BY ThreadsAssumption DEF Threads
<1>2. ASSUME NEW s \in CloserPcs, pc' = [pc EXCEPT ![c] = s],
             UNCHANGED <<inflight, op, res>>, dev' \in Devices,
             closed' \in BOOLEAN, fd' \in {"open", "closed"}
      PROVE  /\ TypeOK'
             /\ Counted' = Counted
             /\ InflightCounts'
             /\ \A d \in Closers : pc'[d] = IF d = c THEN s ELSE pc[d]
  <2>1. \A d \in Threads : pc'[d] = IF d = c THEN s ELSE pc[d]
    BY <1>2 DEF TypeOK
  <2>2. Counted' = Counted
    BY <1>1, <2>1 DEF Counted, Threads
  <2>3. pc' \in [Threads -> UserPcs \cup CloserPcs]
    BY <1>2 DEF TypeOK
  <2>4. TypeOK'
    BY <1>1, <1>2, <2>1, <2>3 DEF TypeOK, Threads
  <2> QED
    BY <1>2, <2>1, <2>2, <2>4 DEF InflightCounts, Threads
<1>3. CASE Claim(c)
  <2>1. CASE closed
    <3>1. TypeOK' /\ Counted' = Counted /\ InflightCounts' /\ \A d \in Closers : pc'[d] = IF d = c THEN "done" ELSE pc[d]
      BY <1>2, <1>3, <2>1 DEF Claim, TypeOK, CloserPcs
    <3> QED
      BY <1>3, <2>1, <3>1 DEF Claim, OneClaimer, NoLostWakeup, Active
  <2>2. CASE ~ closed
    <3>1. TypeOK' /\ Counted' = Counted /\ InflightCounts' /\ \A d \in Closers : pc'[d] = IF d = c THEN "drop" ELSE pc[d]
      BY <1>2, <1>3, <2>2 DEF Claim, TypeOK, CloserPcs
    <3>2. \A d \in Closers : pc[d] \notin Active
      BY <2>2
    <3>3. OneClaimer' /\ NoLostWakeup'
      BY <1>3, <3>1, <3>2 DEF Claim, OneClaimer, NoLostWakeup, Active
    <3> QED
      BY <1>3, <2>2, <3>1, <3>2, <3>3 DEF Claim, Active
  <2> QED
    BY <2>1, <2>2
<1>4. CASE Drop(c)
  <2>1. dev' \in Devices
    BY <1>4, AnswersType DEF Drop, TypeOK, Ioctls
  <2>2. TypeOK' /\ Counted' = Counted /\ InflightCounts' /\ \A d \in Closers : pc'[d] = IF d = c THEN "drain" ELSE pc[d]
    BY <1>2, <1>4, <2>1 DEF Drop, TypeOK, CloserPcs
  <2> QED
    BY <1>4, <2>2 DEF Drop, OneClaimer, NoLostWakeup, Active
<1>5. CASE Drain(c)
  <2>1. CASE inflight > 0
    <3>1. TypeOK' /\ Counted' = Counted /\ InflightCounts' /\ \A d \in Closers : pc'[d] = IF d = c THEN "waiting" ELSE pc[d]
      BY <1>2, <1>5, <2>1 DEF Drain, TypeOK, CloserPcs
    <3>2. Counted # {}
      BY <2>1, FS_EmptySet DEF InflightCounts
    <3> QED
      BY <1>5, <3>1, <3>2 DEF Drain, OneClaimer, NoLostWakeup, Active
  <2>2. CASE ~ (inflight > 0)
    <3>1. TypeOK' /\ Counted' = Counted /\ InflightCounts' /\ \A d \in Closers : pc'[d] = IF d = c THEN "close" ELSE pc[d]
      BY <1>2, <1>5, <2>2 DEF Drain, TypeOK, CloserPcs
    <3>2. Counted = {}
      BY <2>2, CountedFinite, FS_EmptySet DEF InflightCounts, TypeOK
    <3> QED
      BY <1>5, <3>1, <3>2 DEF Drain, OneClaimer, NoLostWakeup, Active
  <2> QED
    BY <2>1, <2>2
<1>6. CASE CloseFd(c)
  <2>1. TypeOK' /\ Counted' = Counted /\ InflightCounts' /\ \A d \in Closers : pc'[d] = IF d = c THEN "done" ELSE pc[d]
    BY <1>2, <1>6 DEF CloseFd, TypeOK, CloserPcs
  <2>2. closed /\ Counted = {}
    BY <1>6 DEF CloseFd, Active
  <2>3. \A d \in Closers : d # c => pc[d] \notin Active
    BY <1>6 DEF CloseFd, OneClaimer, Active
  <2> QED
    BY <1>6, <2>1, <2>2, <2>3 DEF CloseFd, OneClaimer, NoLostWakeup, Active
<1> QED
  BY <1>3, <1>4, <1>5, <1>6 DEF Closer

LEMMA GuardEnvironment ==
  ASSUME GuardInv, Environment
  PROVE  GuardInv'
<1> USE DEF GuardInv
<1>1. PICK d \in Devices : Event({d})
  <2>1. dev \in Devices
    BY DEF TypeOK
  <2>2. \A x \in Overrun(dev) \cup Suspend(dev) \cup ShutDown(dev) \cup Disconnect(dev) : x \in Devices
    BY <2>1 DEF Overrun, Suspend, ShutDown, Disconnect, In, Devices, PcmStates
  <2> QED
    BY <2>2 DEF Environment, Event
<1>2. TypeOK'
  BY <1>1 DEF Event, TypeOK
<1> QED
  BY <1>1, <1>2, Quiet DEF Event, Counted

-----------------------------------------------------------------------------
LEMMA GuardStep == GuardInv /\ [Next]_vars => GuardInv'
<1> SUFFICES ASSUME GuardInv, [Next]_vars PROVE GuardInv'
  OBVIOUS
<1>1. ASSUME NEW u \in Users, User(u) PROVE GuardInv'
  BY <1>1, GuardAcquire, GuardUser, GuardRelease DEF User
<1>2. ASSUME NEW c \in Closers, Closer(c) PROVE GuardInv'
  BY <1>2, GuardCloser
<1>3. CASE Environment
  BY <1>3, GuardEnvironment
<1>4. CASE UNCHANGED vars
  <2>1. TypeOK'
    BY <1>4 DEF GuardInv, TypeOK, vars
  <2> QED
    BY <1>4, <2>1, Quiet DEF vars, Counted
<1> QED
  BY <1>1, <1>2, <1>3, <1>4 DEF Next

\* Every behaviour of the guard keeps its inductive invariant.
THEOREM GuardInvariant == Spec => []GuardInv
BY GuardInit, GuardStep, PTL DEF Spec

\* The variables of the guard keep their types.
THEOREM GuardTypes == Spec => []TypeOK
<1>1. GuardInv => TypeOK
  BY DEF GuardInv
<1> QED
  BY <1>1, GuardInvariant, PTL

\* inflight is always the number of goroutines between acquire and release.
THEOREM InflightIsExact == Spec => []InflightCounts
<1>1. GuardInv => InflightCounts
  BY DEF GuardInv
<1> QED
  BY <1>1, GuardInvariant, PTL

\* No ioctl, of a user or of a Close, meets a closed descriptor.
THEOREM FdOutlivesIoctls == Spec => []NoIoctlOnClosedFd
<1>1. GuardInv => NoIoctlOnClosedFd
  BY DEF GuardInv, NoIoctlOnClosedFd, Using, Counted, Active
<1> QED
  BY <1>1, GuardInvariant, PTL

\* A Close that sleeps has an ioctl in flight whose release will wake it.
THEOREM WakeupsAreKept == Spec => []NoLostWakeup
<1>1. GuardInv => NoLostWakeup
  BY DEF GuardInv
<1> QED
  BY <1>1, GuardInvariant, PTL

-----------------------------------------------------------------------------
\* How a step changes who uses the descriptor: it is one step of the life cycle, or
\* none.  The invariant is what makes Enter legal (a thread is handed the descriptor
\* only while it is open) and CloseFd legal (nobody uses it).
LEMMA UsingStep ==
  ASSUME GuardInv, [Next]_vars
  PROVE  [Lifetime!Next]_(Lifetime!vars)
<1> USE DEF GuardInv
<1>1. Users \cap Closers = {} /\ Using \subseteq Threads
  BY ThreadsAssumption DEF Using, Threads
<1>2. ASSUME NEW t \in Threads, UNCHANGED fd, fd = "open", t \notin Using, Using' = Using \cup {t}
      PROVE  Lifetime!Next
  BY <1>2 DEF Lifetime!Next, Lifetime!Enter
<1>3. ASSUME NEW t \in Threads, UNCHANGED fd, t \in Using, Using' = Using \ {t}
      PROVE  Lifetime!Next
  BY <1>3 DEF Lifetime!Next, Lifetime!Leave
<1>4. ASSUME UNCHANGED fd, Using' = Using
      PROVE  UNCHANGED Lifetime!vars
  BY <1>4 DEF Lifetime!vars
<1>5. ASSUME NEW u \in Users, User(u)
      PROVE  [Lifetime!Next]_(Lifetime!vars)
  <2>1. u \in Threads /\ u \notin Closers
    BY <1>1 DEF Threads
  <2>2. ASSUME NEW o \in OpsOf[u], Acquire(u, o) PROVE Lifetime!Next
    <3>1. fd = "open" /\ UNCHANGED fd
      BY <2>2 DEF Acquire, TypeOK
    <3>2. Using' = Using \cup {u} /\ u \notin Using
      BY <1>1, <2>1, <2>2 DEF Acquire, Using, TypeOK, Threads
    <3> QED
      BY <1>2, <2>1, <3>1, <3>2
  <2>3. ASSUME NEW e, NEW d, Back(u, e, d), pc[u] \in {"held", "parked"} PROVE Lifetime!Next
    <3>1. Using' = Using \ {u} /\ u \in Using
      BY <1>1, <2>1, <2>3 DEF Back, Using, TypeOK, Threads
    <3> QED
      BY <1>3, <2>1, <2>3, <3>1 DEF Back
  <2>4. CASE Refuse(u)
    BY <1>4, <2>4 DEF Refuse, Using
  <2>5. CASE Issue(u)
    BY <2>3, <2>5 DEF Issue
  <2>6. CASE Park(u)
    <3>1. Using' = Using
      BY <1>1, <2>1, <2>6 DEF Park, Using, TypeOK, Threads
    <3> QED
      BY <1>4, <2>6, <3>1 DEF Park
  <2>7. CASE Deliver(u) \/ TimeOut(u) \/ Wake(u)
    BY <2>3, <2>7 DEF Deliver, TimeOut, Wake
  <2>8. CASE Release(u)
    <3>1. \A t \in Threads : pc'[t] = IF t = u THEN "out"
                                     ELSE IF pc[t] = "waiting" /\ inflight = 1 /\ closed THEN "drain"
                                     ELSE pc[t]
      BY <2>8 DEF Release
    <3>2. Using' = Using
      BY <1>1, <2>1, <2>8, <3>1 DEF Release, Using, TypeOK, Threads
    <3> QED
      BY <1>4, <2>8, <3>2 DEF Release
  <2> QED
    BY <1>5, <2>2, <2>4, <2>5, <2>6, <2>7, <2>8 DEF User
<1>6. ASSUME NEW c \in Closers, Closer(c)
      PROVE  [Lifetime!Next]_(Lifetime!vars)
  <2>1. c \in Threads /\ c \notin Users
    BY <1>1 DEF Threads
  <2>2. CASE Claim(c)
    <3>1. CASE closed
      <4>1. Using' = Using
        BY <1>1, <2>1, <2>2, <3>1 DEF Claim, Using, TypeOK, Threads
      <4> QED
        BY <1>4, <2>2, <4>1 DEF Claim
    <3>2. CASE ~ closed
      <4>1. fd = "open" /\ UNCHANGED fd
        BY <2>2, <3>2 DEF Claim, TypeOK
      <4>2. Using' = Using \cup {c} /\ c \notin Using
        BY <1>1, <2>1, <2>2, <3>2 DEF Claim, Using, TypeOK, Threads
      <4> QED
        BY <1>2, <2>1, <4>1, <4>2
    <3> QED
      BY <3>1, <3>2
  <2>3. CASE Drop(c)
    <3>1. Using' = Using \ {c} /\ c \in Using
      BY <1>1, <2>1, <2>3 DEF Drop, Using, TypeOK, Threads
    <3> QED
      BY <1>3, <2>1, <2>3, <3>1 DEF Drop
  <2>4. CASE Drain(c)
    <3>1. Using' = Using
      BY <1>1, <2>1, <2>4 DEF Drain, Using, TypeOK, Threads
    <3> QED
      BY <1>4, <2>4, <3>1 DEF Drain
  <2>5. CASE CloseFd(c)
    <3>1. fd = "open" /\ fd' = "closed"
      BY <2>5 DEF CloseFd, Active, TypeOK
    <3>2. \A d \in Closers : pc[d] # "drop"
      BY <2>5 DEF CloseFd, OneClaimer
    <3>3. Using = {}
      BY <2>5, <3>2 DEF CloseFd, Using, Counted
    <3>4. Using' = Using
      BY <1>1, <2>1, <2>5 DEF CloseFd, Using, TypeOK, Threads
    <3> QED
      BY <3>1, <3>3, <3>4 DEF Lifetime!Next, Lifetime!CloseFd
  <2> QED
    BY <1>6, <2>2, <2>3, <2>4, <2>5 DEF Closer
<1>7. CASE Environment
  BY <1>4, <1>7 DEF Environment, Event, Using
<1>8. CASE UNCHANGED vars
  BY <1>4, <1>8 DEF vars, Using
<1> QED
  BY <1>5, <1>6, <1>7, <1>8 DEF Next

\* The guard implements the life cycle of the descriptor: whoever issues ioctls and
\* whenever Close is called, the descriptor is used only while open and closed once,
\* under nobody.
THEOREM GuardImplementsLifetime == Spec => FdLifetimeSpec
<1>1. Init => Lifetime!Init
  BY DEF Init, Lifetime!Init, Using, Threads
<1> QED
  BY <1>1, UsingStep, GuardInvariant, PTL DEF Spec, FdLifetimeSpec, Lifetime!Spec
=============================================================================
