------------------------------ MODULE Recorder ------------------------------
(***************************************************************************)
(* record of cmd/gac-rec/main.go: one stream is read until its time is up, *)
(* each Read is written to a WAV file behind a header of placeholder       *)
(* sizes, and the sizes are patched at the end.  Start, a Read or a write  *)
(* may fail, a write may stop halfway, and the process may be killed       *)
(* between any two steps; the file stays as it is.                         *)
(*                                                                         *)
(* A frame is one word of four bytes, of which an s24 sample takes the     *)
(* lower three, whatever the device leaves in the fourth.  Channels would  *)
(* repeat the word and only count in FrameBytes.                           *)
(***************************************************************************)
EXTENDS Integers, Sequences

CONSTANTS Formats,     \* the sample formats: "s24", "f32", others
          Words,       \* the words a device delivers
          Byte,        \* the values of a byte: 256
          Period,      \* frames of the buffer handed to Read
          FrameBytes,  \* bytes of a frame in the file
          Sizes,       \* the values of a size field: 2^32
          MaxFrames    \* bound: frames of a recording

ASSUME RecorderAssumption ==
  /\ Byte \in Nat \ {0} /\ Byte % 2 = 0 /\ Words \subseteq 0 .. Byte * Byte * Byte * Byte - 1
  /\ Period \in Nat \ {0} /\ FrameBytes \in Nat \ {0} /\ MaxFrames \in Nat
  /\ Sizes \in Nat /\ Sizes > 58

VARIABLES format,     \* of the recording, one of Formats
          pc,         \* the step record is at; the result once it has one
          due,        \* the deadline has passed
          buf,        \* the buffer: what Reads left in it
          frames,     \* the frames of it the last Read filled
          delivered,  \* every frame Read returned
          header,     \* of the file: "none", "torn" or "whole"
          body,       \* the whole frames behind it
          torn,       \* a part of a frame follows them
          dataBytes,  \* the variable of record
          field       \* the sizes in the header, RIFF, data and fact; 0 is the placeholder

file == <<header, body, torn>>
vars == <<format, pc, due, buf, frames, delivered, file, dataBytes, field>>

Placeholders == [riff |-> 0, data |-> 0, fact |-> 0]
Results      == {"ok", "failed", "killed"}
Ended        == pc \in Results

Init ==
  /\ format \in Formats
  /\ pc = "create"
  /\ due = FALSE
  /\ buf = [i \in 1 .. Period |-> 0] /\ frames = 0 /\ delivered = <<>>
  /\ header = "none" /\ body = <<>> /\ torn = FALSE
  /\ dataBytes = 0
  /\ field = Placeholders

-----------------------------------------------------------------------------
\* The header of floats is longer by a two byte extension and a fact chunk.
HasFact   == format = "f32"
headerLen == IF HasFact THEN 58 ELSE 44

\* Bound: the deadline comes before the recording is longer than MaxFrames.
Room == Len(delivered) + Period <= MaxFrames

\* leftAlignS24LE: the sample moves into the upper three bytes of its word.
leftAlign(w) == (Byte * w) % (Byte * Byte * Byte * Byte)

\* record returns, which closes the file and the stream.
Return(result) == pc' = result

\* The stream is open.  os.Create may fail, and truncates what was there.
Create ==
  /\ pc = "create"
  /\ pc' \in {"header", "failed"}
  /\ UNCHANGED <<format, due, buf, frames, delivered, file, dataBytes, field>>

WriteHeader ==
  /\ pc = "header"
  /\ \/ header' = "whole" /\ pc' = "start"
     \/ header' \in {"none", "torn"} /\ Return("failed")
  /\ UNCHANGED <<format, due, buf, frames, delivered, body, torn, dataBytes, field>>

Start ==
  /\ pc = "start"
  /\ pc' \in {"loop", "failed"}
  /\ UNCHANGED <<format, due, buf, frames, delivered, file, dataBytes, field>>

\* The deadline is looked at between Reads only.
Loop ==
  /\ pc = "loop"
  /\ due \/ Room
  /\ pc' = IF due THEN "riff" ELSE "read"
  /\ UNCHANGED <<format, due, buf, frames, delivered, file, dataBytes, field>>

\* A Read fills any part of the buffer, from its start, and leaves the rest,
Read ==
  /\ pc = "read"
  /\ \E n \in 1 .. Period :
       /\ \E new \in [1 .. n -> Words] :
            /\ buf' = new \o SubSeq(buf, n + 1, Period)
            /\ delivered' = delivered \o new
       /\ frames' = n
  /\ pc' = "align"
  /\ UNCHANGED <<format, due, file, dataBytes, field>>

\* or ends the recording.
ReadFails ==
  /\ pc = "read"
  /\ Return("failed")
  /\ UNCHANGED <<format, due, buf, frames, delivered, file, dataBytes, field>>

\* leftAlignS24LE of the part that was read.
Align ==
  /\ pc = "align"
  /\ buf' = IF format = "s24"
            THEN [i \in 1 .. Period |-> IF i <= frames THEN leftAlign(buf[i]) ELSE buf[i]]
            ELSE buf
  /\ pc' = "write"
  /\ UNCHANGED <<format, due, frames, delivered, file, dataBytes, field>>

\* What was read goes into the file.  Faulty: the whole buffer does.
WriteBuffer ==
  /\ pc = "write"
  /\ body' = body \o buf
  /\ dataBytes' = dataBytes + Period * FrameBytes
  /\ pc' = "loop"
  /\ UNCHANGED <<format, due, buf, frames, delivered, header, torn, field>>

Write ==
  /\ pc = "write"
  /\ body' = body \o SubSeq(buf, 1, frames)
  /\ dataBytes' = dataBytes + frames * FrameBytes
  /\ pc' = "loop"
  /\ UNCHANGED <<format, due, buf, frames, delivered, header, torn, field>>

\* A full disk takes a part, perhaps of a frame, and the rest is lost.  Faulty: what
\* was counted until then goes into the header.
WriteStopsAt(k) ==
  /\ body' = body \o SubSeq(buf, 1, k)
  /\ torn' \in BOOLEAN
  /\ UNCHANGED <<format, due, buf, frames, delivered, header, dataBytes, field>>

WriteFailsPatching == pc = "write" /\ pc' = "riff" /\ \E k \in 0 .. frames - 1 : WriteStopsAt(k)

WriteFails == pc = "write" /\ Return("failed") /\ \E k \in 0 .. frames - 1 : WriteStopsAt(k)

\* patchSizes writes one size after another, each in 32 bits, and stops at an error.
Patch(at, name, value, then) ==
  /\ pc = at
  /\ \/ pc' = then /\ field' = [field EXCEPT ![name] = value % Sizes]
     \/ Return("failed") /\ UNCHANGED field
  /\ UNCHANGED <<format, due, buf, frames, delivered, file, dataBytes>>

PatchRiff == Patch("riff", "riff", headerLen - 8 + dataBytes, "data")
PatchData == Patch("data", "data", dataBytes, IF HasFact THEN "fact" ELSE "ok")
PatchFact == Patch("fact", "fact", dataBytes \div FrameBytes, "ok")

\* Time passes, and an interrupt ends the process wherever it is.
Deadline == ~ due /\ due' = TRUE /\ UNCHANGED <<format, pc, buf, frames, delivered, file, dataBytes, field>>

Kill ==
  /\ pc' = "killed"
  /\ UNCHANGED <<format, due, buf, frames, delivered, file, dataBytes, field>>

Goes ==
  \/ Create \/ WriteHeader \/ Start
  \/ Loop \/ Read \/ Align \/ Write
  \/ PatchRiff \/ PatchData \/ PatchFact

Next == ~ Ended /\ (Goes \/ ReadFails \/ WriteFails \/ Deadline \/ Kill)

Spec == Init /\ [][Next]_vars

-----------------------------------------------------------------------------
TypeOK ==
  /\ format \in Formats
  /\ pc \in {"create", "header", "start", "loop", "read", "align", "write", "riff", "data", "fact"} \cup Results
  /\ due \in BOOLEAN /\ torn \in BOOLEAN
  /\ buf \in [1 .. Period -> 0 .. Byte * Byte * Byte * Byte - 1] /\ frames \in 0 .. Period
  /\ delivered \in Seq(Words) /\ Len(delivered) <= MaxFrames
  /\ header \in {"none", "torn", "whole"}
  /\ body \in Seq(0 .. Byte * Byte * Byte * Byte - 1)
  /\ dataBytes \in Nat
  /\ field \in [{"riff", "data", "fact"} -> 0 .. Sizes - 1]

\* The sample in the lower digits of a word, or in all of them, with its sign.
Signed(v, range) == IF v < range \div 2 THEN v ELSE v - range
Sample24(w)      == Signed(w % (Byte * Byte * Byte), Byte * Byte * Byte)
Sample32(w)      == Signed(w, Byte * Byte * Byte * Byte)

\* A player finds in the file what the device delivered: an s24 sample at its level and
\* with its sign, whatever padded it, and any other word as it was.
Plays(stored, word) ==
  IF format = "s24" THEN Sample32(stored) = Byte * Sample24(word) ELSE stored = word

\* However record ends, a size in the header is the placeholder, or true of the file,
\* which then lacks nothing Read returned.  What is told in 32 bits is the size's
\* remainder.
HeaderIsTrue ==
  /\ TypeOK
  /\ field.riff # 0 => field.riff = (headerLen - 8 + Len(body) * FrameBytes) % Sizes
  /\ field.data # 0 => field.data = (Len(body) * FrameBytes) % Sizes
  /\ field.fact # 0 => HasFact /\ field.fact = Len(body) % Sizes
  /\ field # Placeholders => header = "whole" /\ ~ torn /\ Len(body) = Len(delivered)

\* A recording that ends well has its sizes patched and holds every frame Read
\* returned, in order, as a player hears it: nothing of an earlier Read that a short one
\* left in the buffer, and nothing shifted twice.
SuccessIsWhole ==
  pc = "ok" =>
    /\ header = "whole" /\ field.riff = (headerLen - 8 + dataBytes) % Sizes
    /\ HasFact => field.fact = Len(delivered) % Sizes
    /\ Len(body) = Len(delivered) /\ \A i \in DOMAIN body : Plays(body[i], delivered[i])
=============================================================================
