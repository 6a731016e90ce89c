--------------------------- MODULE MCCaptureStream ---------------------------
(***************************************************************************)
(* CaptureStream for TLC: one reader against one Close, and budgets small  *)
(* enough to run out (the code has 8 recoveries, 1 stall restart and 100   *)
(* RESUME retries).  Closes that race each other are MCPcmGuard's.         *)
(***************************************************************************)
EXTENDS CaptureStream

CONSTANT c1

MCClosers == {c1}
==============================================================================
