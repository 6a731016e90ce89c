----------------------------- MODULE MCPcmGuard -----------------------------
(***************************************************************************)
(* PcmGuard for TLC.  Two users are the reader and a goroutine that calls  *)
(* Start or a control; two closers make Close race itself.                 *)
(***************************************************************************)
EXTENDS PcmGuard, TLC

CONSTANTS u1, u2, c1, c2

MCUsers == {u1, u2}
MCClosers == {c1, c2}

\* u1 is the single consumer, which alone re-prepares the stream, and u2 calls Start.
\* CloseReturns needs the split; the safety theorems of PcmGuardProofs do not.
MCReaderAndStarter == (u1 :> Ioctls) @@ (u2 :> {"START"})
=============================================================================
