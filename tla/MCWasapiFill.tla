---------------------------- MODULE MCWasapiFill ----------------------------
(***************************************************************************)
(* WasapiFill for TLC.  Packets of up to three frames against buffers of   *)
(* one, two and four make the carry overflow, span several Reads and be    *)
(* topped up by a new packet.                                              *)
(***************************************************************************)
EXTENDS WasapiFill

MCMoving == [moving |-> TRUE,  sizes |-> {1, 2, 3}, horizon |-> 7]
MCStill  == [moving |-> FALSE, sizes |-> {3},       horizon |-> 30]

\* The two kinds of driver the code is written for.
MCUnderstood == {MCMoving, MCStill}
=============================================================================
