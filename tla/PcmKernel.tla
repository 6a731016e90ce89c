----------------------------- MODULE PcmKernel -----------------------------
(***************************************************************************)
(* The ALSA PCM substream as internal/alsa sees it through its ioctls: a   *)
(* capture substream state, what a system suspend saved of it, and whether *)
(* the card's file operations were shut down by an unplug.                 *)
(*                                                                         *)
(* The kernel is not part of this repository.  The transitions are the     *)
(* ones the errno handling of pcm.go and stream_linux.go is written        *)
(* against, and that the fakeKernel of lifecycle_test.go encodes.          *)
(***************************************************************************)
EXTENDS Naturals

PcmStates == {"SETUP", "PREPARED", "RUNNING", "XRUN", "SUSPENDED", "DISCONNECTED"}

Devices == [state : PcmStates, saved : PcmStates, shut : BOOLEAN]

\* A substream as Negotiate leaves it: hardware parameters set, then PREPARE.
Prepared == [state |-> "PREPARED", saved |-> "PREPARED", shut |-> FALSE]

Ioctls == {"READI", "PREPARE", "START", "DROP", "RESUME", "PVERSION"}

Errnos == {"EBADF", "EBADFD", "EPIPE", "ESTRPIPE", "EIO", "EBUSY", "EAGAIN",
           "ENOSYS", "ENODEV", "EDRV"}

Unplugged(d) == d.shut \/ d.state = "DISCONNECTED"

-----------------------------------------------------------------------------
\* An answer is an errno ("ok" for success) and the device it leaves behind.
Answer(e, d) == [err |-> e, dev |-> d]

In(s, d) == [d EXCEPT !.state = s]

\* READI_FRAMES on a state that can never deliver: the errno the state gives.
StateErrno(s) ==
  CASE s = "XRUN"      -> "EPIPE"
    [] s = "SUSPENDED" -> "ESTRPIPE"
    [] OTHER           -> "EBADFD"

\* A substream on which READI_FRAMES waits for frames instead of failing.
Waits(d) == d.state \in {"PREPARED", "RUNNING"}

\* What each ioctl answers while the card's file operations are in place.
PrepareAnswers(d) ==
  CASE d.state = "RUNNING"      -> {Answer("EBUSY", d)}
    [] d.state = "DISCONNECTED" -> {Answer("EBADFD", d)}
    [] OTHER                    -> {Answer("ok", In("PREPARED", d))}

StartAnswers(d) ==
  IF d.state = "PREPARED" THEN {Answer("ok", In("RUNNING", d)), Answer("EDRV", d)}
  ELSE {Answer("EBADFD", d)}

DropAnswers(d) ==
  IF d.state = "DISCONNECTED" THEN {Answer("EBADFD", d)} ELSE {Answer("ok", In("SETUP", d))}

\* RESUME restores the state the suspend found, may ask to be retried, or fails.
ResumeAnswers(d) ==
  IF d.state = "SUSPENDED"
  THEN {Answer("ok", In(d.saved, d)), Answer("EAGAIN", d), Answer("ENOSYS", d)}
  ELSE {Answer("EBADFD", d)}

ProbeAnswers(d) ==
  IF d.state = "DISCONNECTED" THEN {Answer("EBADFD", d)} ELSE {Answer("ok", d)}

\* Every answer an ioctl that does not wait can get.  Shut-down file operations
\* answer ENODEV whatever the substream state is.
Answers(op, d) ==
  CASE d.shut -> {Answer("ENODEV", d)}
    [] ~ d.shut /\ op = "READI"    -> IF Waits(d) THEN {} ELSE {Answer(StateErrno(d.state), d)}
    [] ~ d.shut /\ op = "PREPARE"  -> PrepareAnswers(d)
    [] ~ d.shut /\ op = "START"    -> StartAnswers(d)
    [] ~ d.shut /\ op = "DROP"     -> DropAnswers(d)
    [] ~ d.shut /\ op = "RESUME"   -> ResumeAnswers(d)
    [] ~ d.shut /\ op = "PVERSION" -> ProbeAnswers(d)

-----------------------------------------------------------------------------
\* What happens to the substream by itself.  An overrun stops it; a system
\* suspend saves the state RESUME will restore; an unplug first shuts the
\* card's file operations down and then disconnects the PCM, or disconnects
\* the PCM alone.
Overrun(d)    == IF d.state = "RUNNING" THEN {In("XRUN", d)} ELSE {}
Suspend(d)    == IF d.state \in {"PREPARED", "RUNNING", "XRUN"}
                 THEN {[d EXCEPT !.state = "SUSPENDED", !.saved = d.state]} ELSE {}
ShutDown(d)   == IF ~ d.shut THEN {[d EXCEPT !.shut = TRUE]} ELSE {}
Disconnect(d) == IF d.state # "DISCONNECTED" THEN {In("DISCONNECTED", d)} ELSE {}

=============================================================================
