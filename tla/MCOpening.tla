----------------------------- MODULE MCOpening -----------------------------
(***************************************************************************)
(* Opening for TLC.  Four families of devices and requests meet: every     *)
(* geometry of up to four period sizes and two counts against requests     *)
(* that the floors leave alone; some geometries with every behaviour of    *)
(* two rates; one device against rates on both sides of every rounding of  *)
(* the floors; and devices that grant one buffer, on both sides of the cap *)
(* of an eight-bit word, where 64 stands to 256 as 2^30 does to 2^32.      *)
(***************************************************************************)
EXTENDS Opening

Asked(sizes, counts) == [size : sizes, count : counts]

MCRounding == {1, 49, 51, 99, 100, 101, 999, 1000, 1001, 1999, 2001, 8000, 44100}
MCRates    == MCRounding \cup {50, 200}
MCSizes    == {0, 1, 2, 3, 4, 5, 7, 44, 45, 1000}
MCCounts   == {0, 1, 2, 3, 5, 21}
MCBuffers  == 0 .. 255

Square(s, c) == (1 .. s) \X (1 .. c)

\* A device that keeps the rates of one set and refuses the others.
Keeps(rates) == [r \in MCRates |-> IF r \in rates THEN "kept" ELSE "refused"]

MCSmall == [pairs : SUBSET Square(4, 2), exact : BOOLEAN, open : BOOLEAN, rates : {Keeps({50})}]

MCKinds == {"refused", "uncommitted", "substituted", "kept"}

MCRated ==
  [pairs : {{}, {<<1, 1>>}, {<<2, 1>>, <<1, 2>>}, {<<1, 2>>, <<3, 1>>, <<4, 1>>}, Square(4, 2)},
   exact : BOOLEAN, open : BOOLEAN,
   rates : {[Keeps({}) EXCEPT ![50] = k, ![200] = l] : k, l \in MCKinds}]

MCWide == [pairs : {Square(4, 2)}, exact : {TRUE}, open : {FALSE}, rates : {Keeps(MCRounding)}]

MCOne ==
  [pairs : {{<<s, c>>} : s \in {3, 5, 31, 32, 33, 63, 64, 65, 127}, c \in {1, 2}},
   exact : {TRUE}, open : {FALSE}, rates : {Keeps({50})}]

MCDrivers == MCSmall \cup MCRated \cup MCWide \cup MCOne

MCTried ==
       [driver : MCSmall, rate : {50}, asked : Asked(0 .. 5, {1, 2, 3})]
  \cup [driver : MCRated, rate : {50, 200}, asked : Asked({0, 3}, {0, 1})]
  \cup [driver : MCWide, rate : MCRounding, asked : Asked(MCSizes, MCCounts)]
  \cup [driver : MCOne, rate : {50}, asked : Asked({0}, {0})]
=============================================================================
