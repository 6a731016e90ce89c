--------------------------- MODULE CaptureContract ---------------------------
(***************************************************************************)
(* What a capture stream promises its one consumer about the results of    *)
(* Start and Read, whatever recovery goes on inside them: ErrClosed means  *)
(* closed and ErrDeviceGone means gone, a call begun after Close can only  *)
(* say ErrClosed, and a call that met a failure after Close says ErrClosed *)
(* however the failure looked.                                             *)
(***************************************************************************)
CONSTANT Errors   \* the other errors Start and Read may return

VARIABLES isClosed,   \* Close has been called
          isGone,     \* the device has been unplugged
          call,       \* what the consumer is in: "none", "Start" or "Read"
          late,       \* the call began after Close
          result      \* what the last call returned

vars == <<isClosed, isGone, call, late, result>>

Results == Errors \cup {"ok", "ErrClosed", "ErrDeviceGone"}

Init ==
  /\ isClosed = FALSE
  /\ isGone = FALSE
  /\ call = "none"
  /\ late = FALSE
  /\ result = "ok"

Close == ~ isClosed /\ isClosed' = TRUE /\ UNCHANGED <<isGone, call, late, result>>

Unplug == ~ isGone /\ isGone' = TRUE /\ UNCHANGED <<isClosed, call, late, result>>

Begin(kind) ==
  /\ call = "none"
  /\ call' = kind
  /\ late' = isClosed
  /\ UNCHANGED <<isClosed, isGone, result>>

Return(r) ==
  /\ call # "none"
  /\ r = "ErrClosed" => isClosed
  /\ r = "ErrDeviceGone" => isGone
  /\ late => r = "ErrClosed"
  /\ call' = "none"
  /\ late' = FALSE
  /\ result' = r
  /\ UNCHANGED <<isClosed, isGone>>

Next ==
  \/ Close
  \/ Unplug
  \/ \E kind \in {"Start", "Read"} : Begin(kind)
  \/ \E r \in Results : Return(r)

Spec == Init /\ [][Next]_vars
==============================================================================
