--------------------------- MODULE MCWasapiClient ---------------------------
(***************************************************************************)
(* WasapiClient for TLC: two endpoints that come and go until one is       *)
(* open, and the consumer of that one against closers that race.           *)
(***************************************************************************)
EXTENDS WasapiClient, TLC

CONSTANTS c1, c2, e1, e2

MCClosers == {c1, c2}
MCEndpoints == {e1, e2}
=============================================================================
