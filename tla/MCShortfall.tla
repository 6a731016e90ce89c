---------------------------- MODULE MCShortfall ----------------------------
(***************************************************************************)
(* Shortfall for TLC: four ticks and four frames to a second, a buffer of  *)
(* two frames, and so a window of forty ticks.                             *)
(***************************************************************************)
EXTENDS Shortfall
=============================================================================
