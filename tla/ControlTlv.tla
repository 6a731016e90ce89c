----------------------------- MODULE ControlTlv -----------------------------
(***************************************************************************)
(* ParseDB of internal/alsa/tlv.go, which turns the TLV item of a driver   *)
(* into segments of an element's raw range, and ValueDB of controls.go,    *)
(* which reads a raw value off them.  An item is a sequence of words: its  *)
(* type, its length in bytes, and its data.  Lengths may lie.              *)
(***************************************************************************)
EXTENDS Integers, Sequences, FiniteSetsExt

CONSTANTS Cell,      \* the values of a word: 2^32 in the code
          StepCells, \* one past tlvDBScaleMask, and the bit tlvDBScaleMute: 0x10000
          MaxSpan,   \* tlvMaxRawSpan: 2^40
          Long,      \* the values of an int64
          MaxPieces  \* bound: entries of a range or children of a container, for the reference

ASSUME TlvAssumption == Cell \in Nat \ {0} /\ StepCells \in Nat \ {0} /\ MaxSpan \in Nat /\ Long \in Nat

Container    == 0
DBScale      == 1
DBRange      == 3
DBMinMax     == 4
DBMinMaxMute == 5

Simple == {DBScale, DBMinMax, DBMinMaxMute}

\* A word, and a sum, as the signed number it is.
Signed(w) == IF w < Cell \div 2 THEN w ELSE w - Cell
Wrapped(x) == ((x + Long \div 2) % Long) - Long \div 2

\* What parsing returns: whether the item is well formed, and its segments.
Malformed   == [ok |-> FALSE, segs |-> <<>>]
Parsed(seq) == [ok |-> TRUE, segs |-> seq]

Segment(lo, hi, min, max, mute) == [lo |-> lo, hi |-> hi, min |-> min, max |-> max, mute |-> mute]

From(w, i)  == SubSeq(w, i, Len(w))

-----------------------------------------------------------------------------
\* tlvBody: the data words an item claims, counted in 64 bits.  Faulty: in 32.
ClaimedShort(w) == ((w[2] + 3) % Cell) \div 4
Claimed(w)      == (w[2] + 3) \div 4

Whole(w) == Len(w) >= 2 /\ Claimed(w) <= Len(w) - 2
Total(w) == 2 + Claimed(w)
Body(w)  == SubSeq(w, 3, Total(w))

\* parseDBItem of the kinds that map one range, lo to hi.
parseSimple(w, lo, hi) ==
  LET d == Body(w)
  IN IF Len(d) < 2 \/ (w[1] = DBScale /\ hi - lo > MaxSpan) THEN Malformed
     ELSE IF w[1] = DBScale
     THEN Parsed(<<Segment(lo, hi, Signed(d[1]), Wrapped(Signed(d[1]) + (hi - lo) * (d[2] % StepCells)),
                           (d[2] \div StepCells) % 2 = 1)>>)
     ELSE Parsed(<<Segment(lo, hi, Signed(d[1]), Signed(d[2]), w[1] = DBMinMaxMute)>>)

\* parseDBRange: entries of two bounds and an item, one after another.
parseDBRange(body) ==
  LET parse[i \in 1 .. Len(body) + 1] ==
        LET item == From(body, i + 2)
            lo   == Signed(body[i])
            hi   == Signed(body[i + 1])
            one  == parseSimple(item, lo, hi)
            rest == parse[i + 2 + Total(item)]
        IN IF i > Len(body) THEN Parsed(<<>>)
           ELSE IF Len(body) < i + 1 THEN Malformed
           ELSE IF lo > hi \/ ~ Whole(item) THEN Malformed
           ELSE IF item[1] \notin Simple THEN Malformed
           ELSE IF ~ one.ok \/ ~ rest.ok THEN Malformed
           ELSE Parsed(one.segs \o rest.segs)
      all == parse[1]
  IN IF all.segs = <<>> THEN Malformed ELSE all

\* parseDBItem inside a container, where another container is not descended into.
parseChild(w, lo, hi) ==
  CASE w[1] \in Simple  -> parseSimple(w, lo, hi)
    [] w[1] = DBRange   -> parseDBRange(Body(w))
    [] OTHER            -> Malformed

isDBKind(t) == t \in Simple \cup {DBRange, Container}

\* parseDBContainer: the first child with dB, if every child is whole and every one of
\* a dB kind parses.
parseDBContainer(body, lo, hi) ==
  LET parse[i \in 1 .. Len(body) + 1] ==
        LET child == From(body, i)
            one   == parseChild(child, lo, hi)
            rest  == parse[i + Total(child)]
        IN IF i > Len(body) THEN Parsed(<<>>)
           ELSE IF ~ Whole(child) THEN Malformed
           ELSE IF ~ one.ok /\ isDBKind(child[1]) THEN Malformed
           ELSE IF ~ rest.ok THEN Malformed
           ELSE IF one.ok THEN one ELSE rest
      all == parse[1]
  IN IF all.segs = <<>> THEN Malformed ELSE all

\* ParseDB of the item of an element whose values lie between lo and hi.
ParseDB(w, lo, hi) ==
  IF lo > hi \/ ~ Whole(w) THEN Malformed
  ELSE IF w[1] = Container THEN parseDBContainer(Body(w), lo, hi)
  ELSE parseChild(w, lo, hi)

\* ValueDB: mute, or the value as a fraction of two numbers.
Mute == [mute |-> TRUE, num |-> 0, den |-> 1]
DB(num, den) == [mute |-> FALSE, num |-> num, den |-> den]

HasValueDB(segs, raw) == \E i \in DOMAIN segs : raw \in segs[i].lo .. segs[i].hi

ValueDB(segs, raw) ==
  LET first == CHOOSE i \in DOMAIN segs :
                 /\ raw \in segs[i].lo .. segs[i].hi
                 /\ \A j \in 1 .. i - 1 : raw \notin segs[j].lo .. segs[j].hi
      s == segs[first]
  IN IF s.mute /\ raw = s.lo THEN Mute
     ELSE IF s.hi > s.lo THEN DB(s.min * (s.hi - s.lo) + (raw - s.lo) * (s.max - s.min), s.hi - s.lo)
     ELSE DB(s.min, 1)

-----------------------------------------------------------------------------
\* What include/uapi/sound/tlv.h and ParseDB's comment say of an item, told without
\* parsing it.  An item is exact when its length is that of its data, padded to words.
Exact(w) == Len(w) >= 2 /\ 4 * (Len(w) - 2) - w[2] \in 0 .. 3

\* The pieces of kind K that s falls into, at most MaxPieces, in order, if it does.
Cuts(s, K(_)) ==
  {cuts \in {{0, Len(s)} \cup c : c \in UNION {kSubset(k, 1 .. Len(s) - 1) : k \in 0 .. MaxPieces - 1}} :
     \A i \in cuts \ {Len(s)} : K(SubSeq(s, i + 1, Min({j \in cuts : j > i})))}

Pieces(s, K(_)) ==
  LET cuts   == CHOOSE c \in Cuts(s, K) : TRUE
      cut(k) == CHOOSE i \in cuts : Cardinality({j \in cuts : j < i}) = k
  IN [k \in 1 .. Cardinality(cuts) - 1 |-> SubSeq(s, cut(k - 1) + 1, cut(k))]

\* An item that maps the values from lo to hi by itself, and what it says of one: mute
\* at the lowest, a step for each value above it, or an even slope between the ends.
IsSimple(w, lo, hi) ==
  /\ Exact(w) /\ Len(w) >= 4 /\ w[1] \in Simple
  /\ lo <= hi /\ (w[1] = DBScale => hi - lo <= MaxSpan)

Mutes(w) == w[1] = DBMinMaxMute \/ (w[1] = DBScale /\ (w[4] \div StepCells) % 2 = 1)

Says(w, lo, hi, raw) ==
  IF raw = lo /\ Mutes(w) THEN Mute
  ELSE IF w[1] = DBScale THEN DB(Signed(w[3]) + (raw - lo) * (w[4] % StepCells), 1)
  ELSE IF lo = hi THEN DB(Signed(w[3]), 1)
  ELSE DB(Signed(w[3]) * (hi - raw) + Signed(w[4]) * (raw - lo), hi - lo)

\* A range is made of entries, each two bounds and an item over the values between them.
lowest(e)  == Signed(e[1])
highest(e) == Signed(e[2])
IsEntry(e) == Len(e) >= 4 /\ IsSimple(From(e, 3), lowest(e), highest(e))
IsRange(w) == Exact(w) /\ w[1] = DBRange /\ Len(w) > 2 /\ Cuts(From(w, 3), IsEntry) # {}

\* The readings of a value: one or none.
SimpleReading(w, lo, hi, raw) == IF raw \in lo .. hi THEN {Says(w, lo, hi, raw)} ELSE {}

RangeReading(w, raw) ==
  LET entries == Pieces(From(w, 3), IsEntry)
      holding == {k \in DOMAIN entries : raw \in lowest(entries[k]) .. highest(entries[k])}
      e       == entries[Min(holding)]
  IN IF holding = {} THEN {} ELSE {Says(From(e, 3), lowest(e), highest(e), raw)}

HasDB(w, lo, hi) == IsSimple(w, lo, hi) \/ IsRange(w)

Reading(w, lo, hi, raw) ==
  IF w[1] = DBRange THEN RangeReading(w, raw) ELSE SimpleReading(w, lo, hi, raw)

\* A container has the dB of the first child that carries any, if its children fill it
\* and none of them is of a dB kind in vain.  Any other item has its own.
Carrier(w, lo, hi) ==
  LET fits     == Len(w) > 2 /\ Cuts(From(w, 3), Exact) # {}
      children == Pieces(From(w, 3), Exact)
      having   == {k \in DOMAIN children : HasDB(children[k], lo, hi)}
      vain     == \E k \in DOMAIN children \ having : isDBKind(children[k][1])
  IN IF w[1] # Container THEN IF HasDB(w, lo, hi) THEN {w} ELSE {}
     ELSE IF ~ fits \/ vain \/ having = {} THEN {} ELSE {children[Min(having)]}

SameReading(a, b) == a.mute = b.mute /\ a.num * b.den = b.num * a.den

\* ParseDB takes item w of an element with values lo to hi exactly if it is well formed
\* and has dB information, and ValueDB then reads off it what it says, of any value.
ReadsRight(w, lo, hi, raws) ==
  LET carrier == Carrier(w, lo, hi)
      got     == ParseDB(w, lo, hi)
  IN /\ got.ok <=> carrier # {}
     /\ got.ok => \A i \in carrier, raw \in raws :
          LET told == Reading(i, lo, hi, raw)
          IN /\ HasValueDB(got.segs, raw) <=> told # {}
             /\ \A r \in told : SameReading(ValueDB(got.segs, raw), r)
=============================================================================
