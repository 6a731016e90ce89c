---------------------------- MODULE RecorderProofs ----------------------------
(***************************************************************************)
(* Recorder for every word width, buffer, frame and size field: whatever   *)
(* fails, and wherever it is killed, the header of the file is true, and a *)
(* recording that ends well is whole and sounds as it was delivered.       *)
(***************************************************************************)
EXTENDS Recorder, SequenceTheorems, TLAPS

-----------------------------------------------------------------------------
\* Division with remainder, of products.
LEMMA DivMod ==
  ASSUME NEW w \in Nat, NEW n \in Nat \ {0}
  PROVE  w \div n \in Nat /\ w % n \in 0 .. n - 1 /\ w = (n * (w \div n)) + (w % n)
  OBVIOUS

LEMMA DivModUnique ==
  ASSUME NEW n \in Nat \ {0}, NEW q \in Nat, NEW r \in 0 .. n - 1
  PROVE  ((n * q) + r) % n = r /\ ((n * q) + r) \div n = q
  OBVIOUS

LEMMA ModScales ==
  ASSUME NEW b \in Nat \ {0}, NEW n \in Nat \ {0}, NEW w \in Nat
  PROVE  (b * w) % (b * n) = b * (w % n)
<1> DEFINE q == w \div n
           r == w % n
           m == b * n
           s == b * r
<1>1. q \in Nat /\ r \in 0 .. n - 1 /\ w = n * q + r
  BY DivMod
<1> HIDE DEF q, r
<1>2. b * w = m * q + s
  BY <1>1
<1>3. s \in 0 .. m - 1 /\ m \in Nat \ {0}
  BY <1>1
<1> HIDE DEF m, s
<1>4. (m * q + s) % m = s
  BY <1>1, <1>3, DivModUnique
<1> QED
  BY <1>2, <1>4 DEF r, m, s

\* A multiple is in the lower half of the multiplied range as its factor is in the range.
LEMMA HalvesScale ==
  ASSUME NEW b \in Nat \ {0}, b % 2 = 0, NEW r \in Nat
  PROVE  b * r < (b * b * b * b) \div 2 <=> r < (b * b * b) \div 2
<1> DEFINE h == b \div 2
           c == b * b * b
<1>1. h \in Nat \ {0} /\ b = 2 * h
  OBVIOUS
<1> HIDE DEF h
<1>2. c = 2 * (h * b * b) /\ h * b * b \in Nat
  BY <1>1
<1>3. c \div 2 = h * b * b
  BY <1>2
<1>4. b * c = 2 * (b * (h * b * b))
  BY <1>2
<1>5. (b * c) \div 2 = b * (h * b * b)
  BY <1>2, <1>4
<1>6. \A x \in Nat : b * r < b * x <=> r < x
  OBVIOUS
<1> QED
  BY <1>2, <1>3, <1>5, <1>6

Range32 == Byte * Byte * Byte * Byte
Range24 == Byte * Byte * Byte

Values  == 0 .. Range32 - 1

LEMMA Ranges == Range24 \in Nat \ {0} /\ Range32 \in Nat \ {0} /\ Range32 = Byte * Range24
BY RecorderAssumption DEF Range24, Range32

\* leftAlignS24LE keeps the level and the sign of a sample and drops its padding.
LEMMA AlignedPlays ==
  ASSUME NEW w \in 0 .. Range32 - 1
  PROVE  leftAlign(w) \in 0 .. Range32 - 1 /\ Sample32(leftAlign(w)) = Byte * Sample24(w)
<1> DEFINE r == w % Range24
<1>1. w \in Nat /\ Byte \in Nat \ {0} /\ Byte % 2 = 0
  BY Ranges, RecorderAssumption
<1>2. r \in 0 .. Range24 - 1
  BY <1>1, Ranges, DivMod
<1>3. leftAlign(w) = Byte * r
  <2>1. (Byte * w) % (Byte * Range24) = Byte * (w % Range24)
    BY <1>1, Ranges, ModScales
  <2>2. leftAlign(w) = (Byte * w) % Range32
    BY DEF leftAlign, Range32
  <2> QED
    BY <2>1, <2>2, Ranges
<1> HIDE DEF r
<1>4. Byte * r \in 0 .. Range32 - 1
  BY <1>1, <1>2, Ranges
<1>5. Byte * r < Range32 \div 2 <=> r < Range24 \div 2
  BY <1>1, <1>2, HalvesScale DEF Range24, Range32
<1>6. Sample32(Byte * r) = IF Byte * r < Range32 \div 2 THEN Byte * r ELSE Byte * r - Range32
  BY DEF Sample32, Signed, Range32
<1>7. Sample24(w) = IF r < Range24 \div 2 THEN r ELSE r - Range24
  BY DEF Sample24, Signed, Range24, r
<1>8. Byte * (r - Range24) = Byte * r - Range32
  BY <1>1, <1>2, Ranges
<1>9. CASE r < Range24 \div 2
  BY <1>3, <1>4, <1>5, <1>6, <1>7, <1>9
<1>10. CASE ~ (r < Range24 \div 2)
  BY <1>3, <1>4, <1>5, <1>6, <1>7, <1>8, <1>10
<1> QED
  BY <1>9, <1>10

-----------------------------------------------------------------------------
\* What a step does to the sequences.
LEMMA Appended ==
  ASSUME NEW S, NEW s \in Seq(S), NEW n \in Nat, NEW new \in [1 .. n -> S]
  PROVE  /\ s \o new \in Seq(S) /\ Len(s \o new) = Len(s) + n
         /\ \A i \in 1 .. Len(s) : (s \o new)[i] = s[i]
         /\ \A i \in 1 .. n : (s \o new)[Len(s) + i] = new[i]
<1>1. new \in Seq(S) /\ Len(new) = n
  OBVIOUS
<1> QED
  BY <1>1

LEMMA Taken ==
  ASSUME NEW S, NEW p \in Nat, NEW s \in [1 .. p -> S], NEW k \in 0 .. p
  PROVE  SubSeq(s, 1, k) \in [1 .. k -> S] /\ \A i \in 1 .. k : SubSeq(s, 1, k)[i] = s[i]
<1>1. s \in Seq(S) /\ Len(s) = p
  OBVIOUS
<1>2. SubSeq(s, 1, k) \in Seq(S) /\ Len(SubSeq(s, 1, k)) = k /\ \A i \in 1 .. k : SubSeq(s, 1, k)[i] = s[i]
  BY <1>1
<1> QED
  BY <1>2, LenProperties

-----------------------------------------------------------------------------
Broken  == {"failed", "killed"}
InHand  == {"align", "write"}
Patched == {"data", "fact", "ok"}

\* The words of the file are those that were delivered, one by one, and those a Read
\* just delivered are the first of the buffer.
Recorded ==
  /\ Len(body) <= Len(delivered)
  /\ \A i \in 1 .. Len(body) : Plays(body[i], delivered[i])
  /\ pc \in InHand => Len(delivered) = Len(body) + frames
  /\ pc = "align" => \A i \in 1 .. frames : buf[i] = delivered[Len(body) + i]
  /\ pc = "write" => \A i \in 1 .. frames : Plays(buf[i], delivered[Len(body) + i])
  /\ pc \notin InHand \cup Broken => Len(delivered) = Len(body)
  /\ pc = "read" => Room

\* The header comes first, and its sizes last.
Accounted ==
  /\ pc \notin {"create", "header"} \cup Broken => header = "whole"
  /\ pc \notin Broken => dataBytes = Len(body) * FrameBytes /\ ~ torn
  /\ pc \notin Patched \cup Broken => field = Placeholders
  /\ pc \in Patched => field.riff = (headerLen - 8 + dataBytes) % Sizes
  /\ pc = "data" => field.data = 0 /\ field.fact = 0
  /\ pc = "fact" => HasFact /\ field.fact = 0
  /\ pc = "ok" /\ HasFact => field.fact = Len(delivered) % Sizes

RecordInv == Recorded /\ Accounted /\ HeaderIsTrue

LEMMA RecordBegins == Init => RecordInv
<1> SUFFICES ASSUME Init PROVE RecordInv
  OBVIOUS
<1>1. 0 \in Values /\ 0 \in 0 .. Sizes - 1
  BY Ranges, RecorderAssumption DEF Values
<1>2. TypeOK
  <2>1. buf \in [1 .. Period -> Values] /\ field \in [{"riff", "data", "fact"} -> 0 .. Sizes - 1]
    BY <1>1 DEF Init, Placeholders
  <2>2. delivered \in Seq(Words) /\ body \in Seq(Values) /\ Len(delivered) <= MaxFrames
    BY RecorderAssumption DEF Init
  <2>3. pc \in {"create", "header", "start", "loop", "read", "align", "write", "riff", "data", "fact"} \cup Results
    BY DEF Init
  <2>4. frames \in 0 .. Period /\ dataBytes \in Nat
    BY RecorderAssumption DEF Init
  <2> QED
    BY <2>1, <2>2, <2>3, <2>4 DEF Init, TypeOK, Values, Range32
<1>3. Recorded
  BY RecorderAssumption DEF Init, Recorded, InHand, Broken
<1>4. Accounted
  BY RecorderAssumption DEF Init, Accounted, InHand, Broken, Patched
<1>5. HeaderIsTrue
  BY <1>2 DEF Init, HeaderIsTrue, Placeholders
<1> QED
  BY <1>3, <1>4, <1>5 DEF RecordInv

\* Steps that write nothing and read nothing.
LEMMA RecordWaits ==
  ASSUME RecordInv, ~ Ended, Create \/ Start \/ Loop \/ ReadFails \/ Deadline \/ Kill
  PROVE  RecordInv'
<1> USE DEF RecordInv
<1>1. UNCHANGED <<format, buf, frames, delivered, header, body, torn, dataBytes, field>> /\ due' \in BOOLEAN
  BY DEF Create, Start, Loop, ReadFails, Deadline, Kill, file, HeaderIsTrue, TypeOK
<1>2. \/ pc = "create" /\ pc' \in {"header", "failed"}
      \/ pc = "start" /\ pc' \in {"loop", "failed"}
      \/ pc = "loop" /\ pc' = "riff"
      \/ pc = "loop" /\ pc' = "read" /\ Room
      \/ pc' \in Broken
      \/ pc' = pc
  BY DEF Create, Start, Loop, ReadFails, Deadline, Kill, Return, Broken, HeaderIsTrue, TypeOK
<1>3. HeaderIsTrue'
  BY <1>1, <1>2 DEF HeaderIsTrue, TypeOK, headerLen, HasFact, Results, Broken
<1>4. Recorded'
  BY <1>1, <1>2 DEF Recorded, InHand, Broken, Plays, Room
<1>5. Accounted'
  BY <1>1, <1>2 DEF Accounted, Patched, Broken, headerLen, HasFact
<1> QED
  BY <1>3, <1>4, <1>5

LEMMA RecordBeginsFile ==
  ASSUME RecordInv, WriteHeader
  PROVE  RecordInv'
<1> USE DEF RecordInv
<1>1. UNCHANGED <<format, due, buf, frames, delivered, body, torn, dataBytes, field>>
  BY DEF WriteHeader
<1>2. pc = "header" /\ header' \in {"none", "torn", "whole"}
      /\ ((header' = "whole" /\ pc' = "start") \/ pc' = "failed")
  BY DEF WriteHeader, Return
<1>3. HeaderIsTrue'
  BY <1>1, <1>2 DEF HeaderIsTrue, TypeOK, headerLen, HasFact, Results, Accounted, Patched, Broken, Placeholders
<1>4. Recorded'
  BY <1>1, <1>2 DEF Recorded, InHand, Broken, Plays, Room
<1>5. Accounted'
  BY <1>1, <1>2 DEF Accounted, Patched, Broken, headerLen, HasFact
<1> QED
  BY <1>3, <1>4, <1>5

LEMMA RecordReads ==
  ASSUME RecordInv, Read
  PROVE  RecordInv'
<1> USE DEF RecordInv
<1>0. PICK n \in 1 .. Period : /\ \E new \in [1 .. n -> Words] :
                                   /\ buf' = new \o SubSeq(buf, n + 1, Period)
                                   /\ delivered' = delivered \o new
                              /\ frames' = n
  BY DEF Read
<1>1. PICK new \in [1 .. n -> Words] : buf' = new \o SubSeq(buf, n + 1, Period) /\ delivered' = delivered \o new
  BY <1>0
<1>2. pc = "read" /\ pc' = "align" /\ UNCHANGED <<format, due, header, body, torn, dataBytes, field>>
  BY DEF Read, file
<1>3. TypeOK /\ Words \subseteq Values /\ Period \in Nat /\ MaxFrames \in Nat
  BY RecorderAssumption DEF HeaderIsTrue, Values, Range32
<1>4. buf \in [1 .. Period -> Values] /\ new \in [1 .. n -> Values] /\ delivered \in Seq(Words)
  BY <1>3 DEF TypeOK, Values, Range32
<1>5. buf' \in [1 .. Period -> Values] /\ \A i \in 1 .. n : buf'[i] = new[i]
  <2> DEFINE rest == SubSeq(buf, n + 1, Period)
  <2>1. n \in 1 .. Period /\ new \in Seq(Values) /\ Len(new) = n
    BY <1>0, <1>4
  <2>2. rest \in Seq(Values) /\ Len(rest) = Period - n
    BY <2>1, <1>3, <1>4
  <2>3. buf' = new \o rest
    BY <1>1
  <2> HIDE DEF rest, RecordInv
  <2>4. buf' \in Seq(Values) /\ Len(buf') = Period
    <3>1. buf' \in Seq(Values) /\ Len(buf') = Len(new) + Len(rest)
      BY <2>1, <2>2, <2>3, ConcatProperties
    <3>2. n + (Period - n) = Period
      BY <2>1, <1>3
    <3> QED
      BY <2>1, <2>2, <3>1, <3>2
  <2>5. buf' \in [1 .. Period -> Values]
    BY <2>4, LenProperties
  <2>6. \A i \in 1 .. n : buf'[i] = new[i]
    BY <2>1, <2>2, <2>3
  <2> QED
    BY <2>5, <2>6
<1>6. /\ delivered' \in Seq(Words) /\ Len(delivered') = Len(delivered) + n
      /\ \A i \in 1 .. Len(delivered) : delivered'[i] = delivered[i]
      /\ \A i \in 1 .. n : delivered'[Len(delivered) + i] = new[i]
  <2>1. n \in Nat /\ delivered \in Seq(Words) /\ new \in [1 .. n -> Words]
    BY <1>3, <1>4, <1>1
  <2>2. /\ delivered \o new \in Seq(Words) /\ Len(delivered \o new) = Len(delivered) + n
        /\ \A i \in 1 .. Len(delivered) : (delivered \o new)[i] = delivered[i]
        /\ \A i \in 1 .. n : (delivered \o new)[Len(delivered) + i] = new[i]
    BY <2>1, Appended
  <2>3. delivered' = delivered \o new
    BY <1>1
  <2> HIDE DEF RecordInv
  <2> QED
    BY <2>2, <2>3
<1>7. Len(delivered) = Len(body) /\ Len(delivered) + Period <= MaxFrames /\ Len(body) \in Nat
  BY <1>2, <1>3 DEF Recorded, InHand, Broken, Room, TypeOK
<1>8. TypeOK'
  <2>1. frames' \in 0 .. Period /\ Len(delivered') <= MaxFrames /\ delivered' \in Seq(Words)
    BY <1>0, <1>3, <1>6, <1>7
  <2> QED
    BY <1>2, <1>3, <1>5, <2>1 DEF TypeOK, Values, Range32
<1>9. field = Placeholders
  BY <1>2 DEF Accounted, Patched, Broken
<1>11. HeaderIsTrue'
  BY <1>2, <1>8, <1>9 DEF HeaderIsTrue, Placeholders
<1>12. Recorded'
  BY <1>0, <1>1, <1>2, <1>5, <1>6, <1>7 DEF Recorded, InHand, Broken, Plays
<1>13. Accounted'
  BY <1>2 DEF Accounted, Patched, Broken, headerLen, HasFact
<1> QED
  BY <1>11, <1>12, <1>13

LEMMA RecordAligns ==
  ASSUME RecordInv, Align
  PROVE  RecordInv'
<1> USE DEF RecordInv
<1>1. pc = "align" /\ pc' = "write" /\ UNCHANGED <<format, due, frames, delivered, header, body, torn, dataBytes, field>>
  BY DEF Align, file
<1>2. TypeOK /\ buf \in [1 .. Period -> Values] /\ frames \in 0 .. Period /\ Period \in Nat
  BY RecorderAssumption DEF HeaderIsTrue, TypeOK, Values, Range32
<1>3. \A w \in Values : leftAlign(w) \in Values
  BY AlignedPlays DEF Values
<1>4. /\ buf' \in [1 .. Period -> Values]
      /\ \A i \in 1 .. frames : buf'[i] = IF format = "s24" THEN leftAlign(buf[i]) ELSE buf[i]
  BY <1>2, <1>3 DEF Align
<1>5. TypeOK'
  BY <1>1, <1>2, <1>4 DEF TypeOK, Values, Range32
<1>6. \A i \in 1 .. frames : Plays(buf'[i], buf[i])
  <2> SUFFICES ASSUME NEW i \in 1 .. frames PROVE Plays(buf'[i], buf[i])
    OBVIOUS
  <2>1. buf[i] \in 0 .. Range32 - 1
    BY <1>2 DEF Values
  <2>2. Sample32(leftAlign(buf[i])) = Byte * Sample24(buf[i])
    BY <2>1, AlignedPlays
  <2> QED
    BY <1>4, <2>2 DEF Plays
<1>7. HeaderIsTrue'
  BY <1>1, <1>5 DEF HeaderIsTrue, Accounted, Patched, Broken, Placeholders
<1>8. Recorded'
  <2>1. (\A i \in 1 .. frames : Plays(buf[i], delivered[Len(body) + i]))'
    BY <1>1, <1>6 DEF Recorded, Plays
  <2> QED
    BY <1>1, <2>1 DEF Recorded, InHand, Broken, Plays
<1>9. Accounted'
  BY <1>1 DEF Accounted, Patched, Broken, headerLen, HasFact
<1> QED
  BY <1>7, <1>8, <1>9

\* The words of the buffer a write takes, all of them or some, join the file.
LEMMA TakenPlay ==
  ASSUME RecordInv, pc = "write", NEW k \in 0 .. frames, body' = body \o SubSeq(buf, 1, k),
         UNCHANGED <<format, buf, frames, delivered>>
  PROVE  /\ body' \in Seq(Values) /\ Len(body') = Len(body) + k
         /\ \A i \in 1 .. Len(body') : Plays(body'[i], delivered[i])
<1>1. buf \in [1 .. Period -> Values] /\ frames \in 0 .. Period /\ body \in Seq(Values) /\ Period \in Nat
  BY RecorderAssumption DEF RecordInv, HeaderIsTrue, TypeOK, Values, Range32
<1>2. k \in 0 .. Period /\ k \in Nat
  BY <1>1
<1> DEFINE new == SubSeq(buf, 1, k)
<1>3. new \in [1 .. k -> Values] /\ \A i \in 1 .. k : new[i] = buf[i]
  BY <1>1, <1>2, Taken
<1> HIDE DEF new
<1>4. /\ body \o new \in Seq(Values) /\ Len(body \o new) = Len(body) + k
      /\ \A i \in 1 .. Len(body) : (body \o new)[i] = body[i]
      /\ \A i \in 1 .. k : (body \o new)[Len(body) + i] = new[i]
  BY <1>1, <1>2, <1>3, Appended
<1>5. body' = body \o new
  BY DEF new
<1>6. \A i \in 1 .. Len(body) : Plays(body'[i], delivered[i])
  BY <1>4, <1>5 DEF RecordInv, Recorded
<1>7. \A i \in 1 .. k : Plays(body'[Len(body) + i], delivered[Len(body) + i])
  BY <1>1, <1>2, <1>3, <1>4, <1>5 DEF RecordInv, Recorded
<1>8. ASSUME NEW i \in 1 .. Len(body) + k PROVE Plays(body'[i], delivered[i])
  <2>1. CASE i \in 1 .. Len(body)
    BY <2>1, <1>6
  <2>2. CASE i \notin 1 .. Len(body)
    <3>1. Len(body) \in Nat
      BY <1>1
    <3>2. i - Len(body) \in 1 .. k /\ Len(body) + (i - Len(body)) = i
      BY <2>2, <3>1, <1>2
    <3> QED
      BY <3>2, <1>7
  <2> QED
    BY <2>1, <2>2
<1> QED
  BY <1>4, <1>5, <1>8

LEMMA RecordWrites ==
  ASSUME RecordInv, Write
  PROVE  RecordInv'
<1> USE DEF RecordInv
<1>1. /\ pc = "write" /\ pc' = "loop" /\ body' = body \o SubSeq(buf, 1, frames)
      /\ dataBytes' = dataBytes + frames * FrameBytes
      /\ UNCHANGED <<format, due, buf, frames, delivered, header, torn, field>>
  BY DEF Write
<1>2. TypeOK /\ frames \in Nat /\ Len(body) \in Nat /\ FrameBytes \in Nat /\ dataBytes \in Nat
  BY RecorderAssumption DEF HeaderIsTrue, TypeOK
<1>3. /\ body' \in Seq(Values) /\ Len(body') = Len(body) + frames
      /\ \A i \in 1 .. Len(body') : Plays(body'[i], delivered[i])
  <2>1. frames \in 0 .. frames
    BY <1>2
  <2> QED
    BY <1>1, <2>1, TakenPlay
<1>4. Len(delivered) = Len(body) + frames /\ field = Placeholders /\ header = "whole" /\ ~ torn
      /\ dataBytes = Len(body) * FrameBytes
  BY <1>1 DEF Recorded, Accounted, InHand, Patched, Broken
<1>5. dataBytes' = Len(body') * FrameBytes
  BY <1>1, <1>2, <1>3, <1>4
<1>6. TypeOK'
  <2> DEFINE more == frames * FrameBytes
  <2>1. \A x \in Nat, y \in Nat : x * y \in Nat
    OBVIOUS
  <2>2. more \in Nat
    BY <2>1, <1>2
  <2>3. dataBytes' = dataBytes + more
    BY <1>1
  <2> HIDE DEF more
  <2>4. dataBytes' \in Nat
    BY <2>2, <2>3, <1>2
  <2> QED
    BY <1>1, <1>2, <1>3, <2>4 DEF TypeOK, Values, Range32
<1>7. HeaderIsTrue'
  BY <1>1, <1>4, <1>6 DEF HeaderIsTrue, Placeholders
<1>8. Recorded'
  <2>1. (\A i \in 1 .. Len(body) : Plays(body[i], delivered[i]))'
    BY <1>1, <1>3 DEF Plays
  <2>2. Len(body') = Len(delivered')
    BY <1>1, <1>3, <1>4
  <2> QED
    BY <1>1, <1>2, <1>3, <2>1, <2>2 DEF Recorded, InHand, Broken
<1>9. Accounted'
  BY <1>1, <1>4, <1>5 DEF Accounted, Patched, Broken
<1> QED
  BY <1>7, <1>8, <1>9

LEMMA RecordIsCut ==
  ASSUME RecordInv, WriteFails
  PROVE  RecordInv'
<1> USE DEF RecordInv
<1>1. PICK k \in 0 .. frames - 1 : WriteStopsAt(k)
  BY DEF WriteFails
<1>2. /\ pc = "write" /\ pc' = "failed" /\ body' = body \o SubSeq(buf, 1, k) /\ torn' \in BOOLEAN
      /\ UNCHANGED <<format, due, buf, frames, delivered, header, dataBytes, field>>
  BY <1>1 DEF WriteFails, WriteStopsAt, Return
<1>3. TypeOK /\ frames \in Nat /\ k \in 0 .. frames /\ Len(body) \in Nat
  BY <1>1 DEF HeaderIsTrue, TypeOK
<1>4. /\ body' \in Seq(Values) /\ Len(body') = Len(body) + k
      /\ \A i \in 1 .. Len(body') : Plays(body'[i], delivered[i])
  BY <1>2, <1>3, TakenPlay
<1>5. Len(delivered) = Len(body) + frames /\ field = Placeholders
  BY <1>2 DEF Recorded, Accounted, InHand, Patched, Broken
<1>6. TypeOK'
  BY <1>2, <1>3, <1>4 DEF TypeOK, Values, Range32, Results
<1>7. HeaderIsTrue'
  BY <1>2, <1>5, <1>6 DEF HeaderIsTrue, Placeholders
<1>8. Recorded'
  <2>1. (\A i \in 1 .. Len(body) : Plays(body[i], delivered[i]))'
    BY <1>2, <1>4 DEF Plays
  <2>2. Len(body') <= Len(delivered')
    BY <1>2, <1>3, <1>4, <1>5
  <2> QED
    BY <1>2, <2>1, <2>2 DEF Recorded, InHand, Broken
<1>9. Accounted'
  BY <1>2, <1>5 DEF Accounted, Patched, Broken
<1> QED
  BY <1>7, <1>8, <1>9

\* The three sizes, of which each is the remainder of what the file holds.
LEMMA RecordPatches ==
  ASSUME RecordInv, PatchRiff \/ PatchData \/ PatchFact
  PROVE  RecordInv'
<1> USE DEF RecordInv
<1>1. UNCHANGED <<format, due, buf, frames, delivered, header, body, torn, dataBytes>>
  BY DEF PatchRiff, PatchData, PatchFact, Patch, file
<1>2. /\ pc \in {"riff", "data", "fact"} /\ TypeOK /\ header = "whole" /\ ~ torn
      /\ Len(body) = Len(delivered) /\ dataBytes = Len(body) * FrameBytes
  BY DEF PatchRiff, PatchData, PatchFact, Patch, Recorded, Accounted, HeaderIsTrue, InHand, Broken
<1>3. Len(body) \in Nat /\ FrameBytes \in Nat \ {0} /\ dataBytes \in Nat /\ Sizes \in Nat \ {0}
      /\ headerLen - 8 \in Nat
  BY <1>2, RecorderAssumption DEF TypeOK, headerLen
<1>4. dataBytes \div FrameBytes = Len(body)
  <2>1. dataBytes = (FrameBytes * Len(body)) + 0 /\ 0 \in 0 .. FrameBytes - 1
    BY <1>2, <1>3
  <2> QED
    BY <1>3, <2>1, DivModUnique
<1>5. \A v \in Nat : v % Sizes \in 0 .. Sizes - 1
  BY <1>3, DivMod
<1>6. /\ (headerLen - 8 + dataBytes) % Sizes \in 0 .. Sizes - 1 /\ dataBytes % Sizes \in 0 .. Sizes - 1
      /\ Len(body) % Sizes \in 0 .. Sizes - 1
  <2>1. headerLen - 8 + dataBytes \in Nat
    BY <1>3
  <2> HIDE DEF RecordInv
  <2> QED
    BY <2>1, <1>3, <1>5
<1>7. field \in [{"riff", "data", "fact"} -> 0 .. Sizes - 1]
  BY <1>2 DEF TypeOK
<1>8. /\ headerLen' = headerLen /\ HasFact' = HasFact
      /\ (headerLen - 8 + dataBytes)' = headerLen - 8 + dataBytes
  BY <1>1 DEF headerLen, HasFact
<1>9. \/ pc' = "failed" /\ UNCHANGED field
      \/ pc = "riff" /\ pc' = "data" /\ field' = [field EXCEPT !["riff"] = (headerLen - 8 + dataBytes) % Sizes]
      \/ pc = "data" /\ HasFact /\ pc' = "fact" /\ field' = [field EXCEPT !["data"] = dataBytes % Sizes]
      \/ pc = "data" /\ ~ HasFact /\ pc' = "ok" /\ field' = [field EXCEPT !["data"] = dataBytes % Sizes]
      \/ pc = "fact" /\ pc' = "ok" /\ field' = [field EXCEPT !["fact"] = Len(body) % Sizes]
  BY <1>4 DEF PatchRiff, PatchData, PatchFact, Patch, Return
<1>10. field' \in [{"riff", "data", "fact"} -> 0 .. Sizes - 1]
  BY <1>6, <1>7, <1>9
<1>11. TypeOK'
  BY <1>1, <1>2, <1>9, <1>10 DEF TypeOK, Results
<1>12. HeaderIsTrue'
  <2>1. /\ field'.riff # 0 => field'.riff = (headerLen - 8 + dataBytes) % Sizes
        /\ field'.data # 0 => field'.data = dataBytes % Sizes
        /\ field'.fact # 0 => HasFact /\ field'.fact = Len(body) % Sizes
    BY <1>2, <1>7, <1>9 DEF HeaderIsTrue, Accounted, Patched, Broken
  <2> QED
    BY <1>1, <1>2, <1>8, <1>11, <2>1 DEF HeaderIsTrue
<1>13. Recorded'
  BY <1>1, <1>2, <1>3, <1>9 DEF Recorded, InHand, Broken, Plays
<1>14. Accounted'
  <2>1. /\ pc' \in Patched => field'.riff = (headerLen - 8 + dataBytes) % Sizes
        /\ pc' = "data" => field'.data = 0 /\ field'.fact = 0
        /\ pc' = "fact" => HasFact /\ field'.fact = 0
        /\ pc' = "ok" /\ HasFact => field'.fact = Len(body) % Sizes
    BY <1>7, <1>9 DEF Accounted, Patched, Broken, Placeholders
  <2> QED
    BY <1>1, <1>2, <1>8, <1>9, <2>1 DEF Accounted, Patched, Broken
<1> QED
  BY <1>12, <1>13, <1>14

LEMMA RecordStep ==
  ASSUME RecordInv, [Next]_vars
  PROVE  RecordInv'
<1>1. CASE Next
  BY <1>1, RecordWaits, RecordBeginsFile, RecordReads, RecordAligns, RecordWrites, RecordIsCut, RecordPatches
     DEF Next, Goes
<1>2. CASE UNCHANGED vars
  BY <1>2 DEF vars, file, RecordInv, Recorded, Accounted, HeaderIsTrue, TypeOK, headerLen, HasFact, Plays, Room
<1> QED
  BY <1>1, <1>2

\* The invariant: what is in the file, what is in the buffer and what has been counted
\* agree at every step of record.
THEOREM RecordInvariant == Spec => []RecordInv
<1>1. Init => RecordInv
  BY RecordBegins
<1>2. RecordInv /\ [Next]_vars => RecordInv'
  BY RecordStep
<1> QED
  BY <1>1, <1>2, PTL DEF Spec

\* However record ends, a size in the header is the placeholder or true of the file.
THEOREM HeaderStaysTrue == Spec => []HeaderIsTrue
<1>1. RecordInv => HeaderIsTrue
  BY DEF RecordInv
<1> QED
  BY <1>1, RecordInvariant, PTL

\* A recording that ends well holds every frame Read returned, as a player hears it.
THEOREM SuccessStaysWhole == Spec => []SuccessIsWhole
<1>1. RecordInv => SuccessIsWhole
  BY DEF RecordInv, Recorded, Accounted, SuccessIsWhole, HeaderIsTrue, TypeOK, InHand, Broken, Patched
<1> QED
  BY <1>1, RecordInvariant, PTL
===============================================================================
