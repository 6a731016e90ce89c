----------------------------- MODULE MCRecorder -----------------------------
(***************************************************************************)
(* Recorder for TLC.  Bytes of two values make words of 16 and samples of  *)
(* minus four to three; the words are one, minus one and the least sample, *)
(* padded with zeros or with the sign.  Frames of 16 bytes against sizes   *)
(* of six bits make every size field overflow within five frames.          *)
(***************************************************************************)
EXTENDS Recorder

MCFormats == {"s16", "s24", "f32"}
MCWords   == {1, 7, 15, 4}
=============================================================================
