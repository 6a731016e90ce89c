------------------------------ MODULE PcmGuard ------------------------------
(***************************************************************************)
(* The PCM of internal/alsa/pcm.go: ioctls of several goroutines on one    *)
(* file descriptor, kept apart from Close by a mutex, an in-flight count   *)
(* and a condition variable.  Every critical section of the mutex is one   *)
(* action; the ioctls run outside it.                                      *)
(***************************************************************************)
EXTENDS PcmKernel, FiniteSets

CONSTANTS Users,    \* goroutines that issue ioctls (ReadI and the controls)
          Closers,  \* goroutines that call Close
          OpsOf     \* the ioctls each user issues

ASSUME ThreadsAssumption ==
  /\ IsFiniteSet(Users)
  /\ Users \cap Closers = {}
  /\ OpsOf \in [Users -> SUBSET Ioctls]

VARIABLES closed,    \* PCM.closed
          inflight,  \* PCM.inflight
          fd,        \* the descriptor: "open", or "closed" once unix.Close ran
          dev,       \* the substream behind it (PcmKernel)
          pc,        \* where each goroutine is
          op,        \* the ioctl each user is in, or "none"
          res        \* what its last ioctl, or its acquire, returned

vars == <<closed, inflight, fd, dev, pc, op, res>>

Threads == Users \cup Closers

\* A user is outside, holds the descriptor without having entered the kernel,
\* waits in READI_FRAMES, or is back from the kernel without its release.
UserPcs == {"out", "held", "parked", "back"}

\* A closer has not called Close, is about to DROP, about to look at inflight,
\* in cond.Wait, about to call unix.Close, or has returned.
CloserPcs == {"out", "drop", "drain", "waiting", "close", "done"}

TypeOK ==
  /\ closed \in BOOLEAN
  /\ inflight \in Nat
  /\ fd \in {"open", "closed"}
  /\ dev \in Devices
  /\ pc \in [Threads -> UserPcs \cup CloserPcs]
  /\ \A u \in Users : pc[u] \in UserPcs /\ (pc[u] # "out" => op[u] \in Ioctls)
  /\ \A c \in Closers : pc[c] \in CloserPcs
  /\ op \in [Users -> Ioctls \cup {"none"}]
  /\ res \in [Users -> Errnos \cup {"ok"}]

Init ==
  /\ closed = FALSE
  /\ inflight = 0
  /\ fd = "open"
  /\ dev = Prepared
  /\ pc = [t \in Threads |-> "out"]
  /\ op = [u \in Users |-> "none"]
  /\ res = [u \in Users |-> "ok"]

-----------------------------------------------------------------------------
\* Faulty variants, each of which a property has to catch, stand before the action
\* they are variants of.  Here: acquire that does not look at closed.
AcquireUnchecked(u, o) ==
  /\ pc[u] = "out"
  /\ inflight' = inflight + 1
  /\ pc' = [pc EXCEPT ![u] = "held"]
  /\ op' = [op EXCEPT ![u] = o]
  /\ res' = [res EXCEPT ![u] = "ok"]
  /\ UNCHANGED <<closed, fd, dev>>

\* acquire on an open PCM: counted, and the descriptor is handed out.
Acquire(u, o) ==
  /\ pc[u] = "out"
  /\ ~ closed
  /\ inflight' = inflight + 1
  /\ pc' = [pc EXCEPT ![u] = "held"]
  /\ op' = [op EXCEPT ![u] = o]
  /\ res' = [res EXCEPT ![u] = "ok"]
  /\ UNCHANGED <<closed, fd, dev>>

\* acquire on a closed PCM: EBADF, and no ioctl.
Refuse(u) ==
  /\ pc[u] = "out"
  /\ closed
  /\ res' = [res EXCEPT ![u] = "EBADF"]
  /\ UNCHANGED <<closed, inflight, fd, dev, pc, op>>

\* The kernel answers user u and leaves the substream as d.
Back(u, e, d) ==
  /\ pc' = [pc EXCEPT ![u] = "back"]
  /\ res' = [res EXCEPT ![u] = e]
  /\ dev' = d
  /\ UNCHANGED <<closed, inflight, fd, op>>

\* The ioctl is issued and answered at once.
Issue(u) ==
  /\ pc[u] = "held"
  /\ \E a \in Answers(op[u], dev) : Back(u, a.err, a.dev)

\* READI_FRAMES on a substream that may still deliver waits for frames.
Park(u) ==
  /\ pc[u] = "held"
  /\ op[u] = "READI"
  /\ Waits(dev) /\ ~ dev.shut
  /\ pc' = [pc EXCEPT ![u] = "parked"]
  /\ UNCHANGED <<closed, inflight, fd, dev, op, res>>

\* A parked READI_FRAMES gets its frames,
Deliver(u) ==
  /\ pc[u] = "parked"
  /\ dev.state = "RUNNING"
  /\ Back(u, "ok", dev)

\* runs into the kernel's read timeout, which leaves the substream as it is,
TimeOut(u) ==
  /\ pc[u] = "parked"
  /\ Waits(dev)
  /\ Back(u, "EIO", dev)

\* or is woken because the substream left the states it waits in.
Wake(u) ==
  /\ pc[u] = "parked"
  /\ ~ Waits(dev)
  /\ Back(u, StateErrno(dev.state), dev)

\* Faulty: release wakes nobody.
ReleaseSilently(u) ==
  /\ pc[u] = "back"
  /\ inflight' = inflight - 1
  /\ pc' = [pc EXCEPT ![u] = "out"]
  /\ op' = [op EXCEPT ![u] = "none"]
  /\ UNCHANGED <<closed, fd, dev, res>>

\* release: the last ioctl of a closed PCM wakes the Close that drains it.
Release(u) ==
  /\ pc[u] = "back"
  /\ inflight' = inflight - 1
  /\ pc' = [t \in Threads |->
              CASE t = u -> "out"
                [] t # u /\ pc[t] = "waiting" /\ inflight = 1 /\ closed -> "drain"
                [] OTHER -> pc[t]]
  /\ op' = [op EXCEPT ![u] = "none"]
  /\ UNCHANGED <<closed, fd, dev, res>>

-----------------------------------------------------------------------------
\* Close claims the descriptor, once: a second Close returns without waiting.
Claim(c) ==
  /\ pc[c] = "out"
  /\ pc' = [pc EXCEPT ![c] = IF closed THEN "done" ELSE "drop"]
  /\ closed' = TRUE
  /\ UNCHANGED <<inflight, fd, dev, op, res>>

\* Faulty: Close drains without the DROP that wakes a parked READI_FRAMES.
DropSkipped(c) ==
  /\ pc[c] = "drop"
  /\ pc' = [pc EXCEPT ![c] = "drain"]
  /\ UNCHANGED <<closed, inflight, fd, dev, op, res>>

\* The best-effort DROP, outside the guard, whose error is ignored.
Drop(c) ==
  /\ pc[c] = "drop"
  /\ \E a \in Answers("DROP", dev) : dev' = a.dev
  /\ pc' = [pc EXCEPT ![c] = "drain"]
  /\ UNCHANGED <<closed, inflight, fd, op, res>>

\* for p.inflight > 0 { p.cond.Wait() }
Drain(c) ==
  /\ pc[c] = "drain"
  /\ pc' = [pc EXCEPT ![c] = IF inflight > 0 THEN "waiting" ELSE "close"]
  /\ UNCHANGED <<closed, inflight, fd, dev, op, res>>

CloseFd(c) ==
  /\ pc[c] = "close"
  /\ fd' = "closed"
  /\ pc' = [pc EXCEPT ![c] = "done"]
  /\ UNCHANGED <<closed, inflight, dev, op, res>>

-----------------------------------------------------------------------------
\* The substream changes by itself while the descriptor keeps it open.
Event(ds) ==
  /\ fd = "open"
  /\ dev' \in ds
  /\ UNCHANGED <<closed, inflight, fd, pc, op, res>>

\* The kernel disconnects the PCMs of a card whose operations it shut down.
Unplug == dev.shut /\ Event(Disconnect(dev))

Environment ==
  \/ Event(Overrun(dev))
  \/ Event(Suspend(dev))
  \/ Event(ShutDown(dev))
  \/ Event(Disconnect(dev))

User(u) ==
  \/ \E o \in OpsOf[u] : Acquire(u, o)
  \/ Refuse(u)
  \/ Issue(u)
  \/ Park(u)
  \/ Deliver(u)
  \/ TimeOut(u)
  \/ Wake(u)
  \/ Release(u)

Closer(c) == Claim(c) \/ Drop(c) \/ Drain(c) \/ CloseFd(c)

Next ==
  \/ \E u \in Users : User(u)
  \/ \E c \in Closers : Closer(c)
  \/ Environment

Spec == Init /\ [][Next]_vars

\* Goroutines that hold something run on, and the kernel wakes a parked reader
\* whose substream stopped.  Nothing obliges the device to deliver, the kernel to
\* time out, or a goroutine to call anything.
Fairness ==
  /\ \A u \in Users : WF_vars(Issue(u)) /\ WF_vars(Park(u)) /\ WF_vars(Wake(u)) /\ WF_vars(Release(u))
  /\ \A c \in Closers : WF_vars(Drop(c)) /\ WF_vars(Drain(c)) /\ WF_vars(CloseFd(c))
  /\ WF_vars(Unplug)

FairSpec == Spec /\ Fairness

-----------------------------------------------------------------------------
\* The goroutines acquire has counted in and release has not counted out.
Counted == {u \in Users : pc[u] \in {"held", "parked", "back"}}

\* The goroutines that may be passing the descriptor to the kernel.
Using == {u \in Users : pc[u] \in {"held", "parked"}} \cup {c \in Closers : pc[c] = "drop"}

\* inflight counts exactly the goroutines between acquire and release, so the
\* drain loop of Close waits for them and for nothing else.
InflightCounts == inflight = Cardinality(Counted)

\* The descriptor is never closed under a live ioctl, nor is an ioctl issued on a
\* descriptor number that was closed and may name another file by then.
NoIoctlOnClosedFd == fd = "closed" => Using = {} /\ Counted = {}

\* Of the goroutines that call Close, one at most goes on to drop, drain and close.
OneClaimer ==
  \A c, d \in Closers :
    pc[c] \in {"drop", "drain", "waiting", "close"} /\ pc[d] \in {"drop", "drain", "waiting", "close"} => c = d

\* A closer sleeps on the condition variable only while some ioctl is in flight
\* whose release will broadcast: there is no lost wake-up.
NoLostWakeup == (\E c \in Closers : pc[c] = "waiting") => closed /\ Counted # {}

\* The guard implements the descriptor's life cycle.
Lifetime == INSTANCE FdLifetime WITH using <- Using
FdLifetimeSpec == Lifetime!Spec

\* Every Close returns, whatever the reader is parked on: the DROP wakes it.  This
\* needs the single consumer of stream_linux.go: were a second goroutine allowed to
\* PREPARE, its PREPARE could follow the DROP and let a late READI park again.
CloseReturns == \A c \in Closers : pc[c] = "drop" ~> pc[c] = "done"
=============================================================================
