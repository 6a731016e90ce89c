-------------------------- MODULE MCControlSession --------------------------
(***************************************************************************)
(* ControlSession for TLC: two elements, either a volume with dB whose     *)
(* range goes below zero and whose step does not divide the word, here of  *)
(* five bits, or an enumeration that may be neither read nor written.  The *)
(* words of TLV items have five bits, so that a length may wrap around.    *)
(* Floats have nine bits: 54% of the range is 13.5 steps and comes out as  *)
(* 13, as 29% of 50 steps comes out as 14 in float64.                      *)
(***************************************************************************)
EXTENDS ControlSession

CONSTANTS v1, v2

MCNames  == {v1, v2}
MCAsked  == {v1}
MCShapes ==
  {[min |-> -11, max |-> 14, step |-> 5, items |-> 0, readable |-> TRUE,  writable |-> TRUE,  tlv |-> TRUE],
   [min |-> 0,   max |-> 1,  step |-> 0, items |-> 2, readable |-> FALSE, writable |-> FALSE, tlv |-> FALSE]}
MCValues == {-2, 15}
MCPercents == {54}

MCGrids == {2 ^ i : i \in 0 .. 15}

MCRaws == -13 .. 16

\* Items of every type over data of up to two words, whole or with a length that lies,
\* ranges of one or two entries, and containers of one or two children.
OfType(t, data) == <<t, 4 * Len(data)>> \o data

Data   == {<<>>, <<2>>, <<2, 6>>, <<29, 1>>, <<2, 6, 1>>}
Plain  == {OfType(t, d) : t \in 0 .. 5, d \in Data}
Lying  == {<<t, n, 2, 6>> : t \in {1, 4, 7}, n \in {1, 6, 9, 31}}
Bounds == {<<0, 2>>, <<28, 1>>, <<2, 1>>, <<1, 1>>}
Entry  == {b \o i : b \in Bounds, i \in {OfType(1, <<2, 6>>), OfType(5, <<29, 1>>), <<4, 31, 2, 6>>, OfType(2, <<>>)}}
Ranges == {OfType(3, e) : e \in Entry} \cup {OfType(3, d \o e) : d, e \in {x \in Entry : x[1] # 2}}
Child  == {OfType(1, <<2, 6>>), OfType(5, <<29, 1>>), OfType(7, <<9>>), <<7, 3, 9>>, <<7, 31, 9>>,
           OfType(3, <<0, 2, 4, 8, 2, 29>>), OfType(3, <<2, 0, 4, 8, 2, 29>>), OfType(0, OfType(1, <<2, 6>>))}
Nested == {OfType(0, c) : c \in Child} \cup {OfType(0, c \o d) : c, d \in Child}

MCItems == Plain \cup Lying \cup Ranges \cup Nested
=============================================================================
