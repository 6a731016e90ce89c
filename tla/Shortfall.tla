----------------------------- MODULE Shortfall -----------------------------
(***************************************************************************)
(* checkShortfall of stream_linux.go: Read compares the frames it returned *)
(* with the time that passed and calls the device slow when they fall      *)
(* short of its rate.  Time passes between any two steps of the reader,    *)
(* also between the return of ReadI and the reading of the clock; the      *)
(* device fills a ring that overruns when nobody reads it.                 *)
(*                                                                         *)
(* Time is counted in ticks, Second of them to a second.                   *)
(***************************************************************************)
EXTENDS Naturals

CONSTANTS Second,      \* ticks per second (1e9 in the code)
          Rate,        \* the negotiated rate, in frames per second
          Buffer,      \* the negotiated buffer, in frames
          MinWindow,   \* minShortfallWindow
          WindowBufs,  \* shortfallWindowBufs
          Tolerance,   \* shortfallTolPercent
          Speeds,      \* the rates devices really run at
          Lag,         \* the frames its pointer may be behind the time
          MaxPause     \* bound: ticks between ReadI's return and monoNow

ASSUME ShortfallAssumption ==
  /\ Second \in Nat \ {0} /\ Rate \in Nat \ {0} /\ Buffer \in Nat \ {0}
  /\ MinWindow \in Nat /\ WindowBufs \in Nat /\ Tolerance \in 0 .. 100
  /\ Speeds \subseteq Nat /\ Lag \in Nat /\ MaxPause \in Nat

VARIABLES speed,      \* the rate this device really runs at, one of Speeds
          ring,       \* frames in the ring buffer
          due,        \* what the pointer lags behind the time, in frames / Second
          xrun,       \* the ring overran: the stream is stopped
          pc,         \* the reader: "away" from the clock, "counting", or "failed"
          got,        \* the frames ReadI returned
          pause,      \* ticks since it did
          winOn,      \* Stream.winOn
          elapsed,    \* ticks since Stream.winStart
          winFrames   \* Stream.winFrames

device == <<speed, ring, due, xrun>>
window == <<winOn, elapsed, winFrames>>
vars   == <<device, pc, got, pause, window>>

TypeOK ==
  /\ speed \in Speeds
  /\ ring \in 0 .. Buffer
  /\ due \in Nat
  /\ xrun \in BOOLEAN
  /\ pc \in {"away", "counting", "failed"}
  /\ got \in 0 .. Buffer
  /\ pause \in 0 .. MaxPause
  /\ winOn \in BOOLEAN
  /\ elapsed \in Nat
  /\ winFrames \in Nat

Init ==
  /\ speed \in Speeds
  /\ ring = 0 /\ due = 0 /\ xrun = FALSE
  /\ pc = "away" /\ got = 0 /\ pause = 0
  /\ winOn = FALSE /\ elapsed = 0 /\ winFrames = 0

-----------------------------------------------------------------------------
\* shortfallWindow; faulty: a window that does not grow with the buffer.
WindowFixed == MinWindow
Window ==
  LET bufs == WindowBufs * ((Buffer * Second) \div Rate)
  IN IF bufs > MinWindow THEN bufs ELSE MinWindow

\* What the rate promises for a time; seconds and the rest are scaled apart.
Expected(t) == (t \div Second) * Rate + ((t % Second) * Rate) \div Second

\* The device fell short of its rate by more than the buffer and the tolerance.
Short(delivered, t) ==
  delivered + Buffer < Expected(t) - (Expected(t) * Tolerance) \div 100

-----------------------------------------------------------------------------
\* A tick passes and the pointer moves by k frames, or the ring overruns.
Tick ==
  /\ pc # "failed"
  /\ pc = "counting" => pause < MaxPause
  /\ pc = "away" => ~ xrun              \* bound: nothing depends on the time then
  /\ elapsed' = IF winOn THEN elapsed + 1 ELSE 0
  /\ pause' = IF pc = "counting" THEN pause + 1 ELSE 0
  /\ IF xrun THEN UNCHANGED device
     ELSE \E k \in 0 .. (due + speed) \div Second :
            /\ due + speed - k * Second <= Lag * Second
            /\ due' = due + speed - k * Second
            /\ IF ring + k <= Buffer THEN ring' = ring + k /\ UNCHANGED xrun
               ELSE ring' = 0 /\ xrun' = TRUE
  /\ UNCHANGED <<speed, pc, got, winOn, winFrames>>

\* ReadI returns frames of the ring.
ReadI ==
  /\ pc = "away"
  /\ ~ xrun
  /\ \E n \in 1 .. ring : got' = n /\ ring' = ring - n
  /\ pc' = "counting"
  /\ UNCHANGED <<speed, due, xrun, pause, window>>

\* ReadI fails with EPIPE, and the Recover restarts the window.  Faulty: it does not.
RecoverInWindow ==
  /\ pc = "away"
  /\ xrun
  /\ ring' = 0 /\ due' = 0 /\ xrun' = FALSE
  /\ UNCHANGED <<speed, pc, got, pause, window>>

Recover ==
  /\ pc = "away"
  /\ xrun
  /\ ring' = 0 /\ due' = 0 /\ xrun' = FALSE
  /\ winOn' = FALSE /\ elapsed' = 0 /\ winFrames' = 0
  /\ UNCHANGED <<speed, pc, got, pause>>

\* checkShortfall starts the window with the first successful read,
StartWindow ==
  /\ pc = "counting"
  /\ ~ winOn
  /\ winOn' = TRUE /\ elapsed' = 0 /\ winFrames' = 0
  /\ pc' = "away" /\ got' = 0 /\ pause' = 0
  /\ UNCHANGED device

\* adds up the frames until the window has elapsed,
Account ==
  /\ pc = "counting"
  /\ winOn
  /\ elapsed < Window
  /\ winFrames' = winFrames + got
  /\ pc' = "away" /\ got' = 0 /\ pause' = 0
  /\ UNCHANGED <<device, winOn, elapsed>>

\* and then judges the device and starts the next window.
Evaluate ==
  /\ pc = "counting"
  /\ winOn
  /\ elapsed >= Window
  /\ pc' = IF Short(winFrames + got, elapsed) THEN "failed" ELSE "away"
  /\ elapsed' = 0 /\ winFrames' = 0
  /\ got' = 0 /\ pause' = 0
  /\ UNCHANGED <<device, winOn>>

Next == Tick \/ ReadI \/ Recover \/ StartWindow \/ Account \/ Evaluate

Spec == Init /\ [][Next]_vars

-----------------------------------------------------------------------------
\* A device that keeps its rate is called slow only when its ring overran while the
\* reader was between ReadI and the clock; a reader slow anywhere else, short reads
\* and a pointer that moves in steps never trip the check.
OnlyHiddenOverruns ==
  /\ []TypeOK
  /\ [][speed >= Rate /\ pc' = "failed" /\ pc # "failed" => xrun]_vars

\* A device that runs a quarter slow, or slower, fails the first window that elapses:
\* the ring's contents and the tolerance together cannot hide it.
SlowIsCaught ==
  [][4 * speed <= 3 * Rate /\ elapsed >= Window /\ elapsed' = 0 /\ pc = "counting"
       => pc' = "failed"]_vars

\* "Device delivers fewer frames than its rate, with no overrun" (README.md:263) is
\* when a ShortfallError is returned: never for a device that keeps its rate.
NoFalseShortfall == speed >= Rate => pc # "failed"
=============================================================================
