----------------------------- MODULE FdLifetime -----------------------------
(***************************************************************************)
(* What the in-flight guard of internal/alsa promises about a device file  *)
(* descriptor, whatever the ioctls are: threads use the descriptor only    *)
(* while it is open, and it is closed once, when no thread uses it.  A     *)
(* descriptor closed under a live ioctl would let a reused number take an  *)
(* ioctl meant for the old device.                                         *)
(***************************************************************************)
CONSTANT Threads

VARIABLES fd,     \* "open" or "closed"
          using   \* the threads that may hand the descriptor to the kernel

vars == <<fd, using>>

Init == fd = "open" /\ using = {}

\* A thread starts to use the descriptor.
Enter(t) ==
  /\ fd = "open"
  /\ t \notin using
  /\ using' = using \cup {t}
  /\ UNCHANGED fd

\* A thread is done with the descriptor.
Leave(t) ==
  /\ t \in using
  /\ using' = using \ {t}
  /\ UNCHANGED fd

\* The descriptor is closed, under nobody.
CloseFd ==
  /\ fd = "open"
  /\ using = {}
  /\ fd' = "closed"
  /\ UNCHANGED using

Next == CloseFd \/ \E t \in Threads : Enter(t) \/ Leave(t)

Spec == Init /\ [][Next]_vars
=============================================================================
