--------------------------- MODULE ShortfallProofs ---------------------------
(***************************************************************************)
(* Shortfall for every rate, buffer, window and pause: a device that keeps *)
(* its rate is accused only after an overrun the reader had not seen, and  *)
(* one that runs a quarter slow fails its first window.                    *)
(*                                                                         *)
(* Both rest on one account: what the ring holds, what ReadI returned and  *)
(* what the window counted are together what the device captured since the *)
(* window began, give or take what it lagged behind, and what was in the   *)
(* ring already.                                                           *)
(***************************************************************************)
EXTENDS Shortfall, Integers, TLAPS

\* The tolerance covers what the pointer may lag behind the time.
LagTolerated == Lag <= (Expected(Window) * Tolerance) \div 100

\* A quarter of a window is more than the tolerance, the slack that checkShortfall
\* allows, and what may have been captured before the window began.
SlownessShows ==
  100 * (2 * Buffer + Lag + 1) + Tolerance * Expected(Window) <= 25 * Expected(Window)

-----------------------------------------------------------------------------
\* A quotient rounded down is within one divisor of the number.
LEMMA Quotients ==
  ASSUME NEW n \in Nat, NEW d \in Nat \ {0}
  PROVE  n \div d \in Nat /\ d * (n \div d) <= n /\ n < d * (n \div d + 1)
BY SMT

\* Seconds and the rest scaled apart come to the same as the time scaled whole.
LEMMA Expectations ==
  ASSUME NEW t \in Nat
  PROVE  /\ Expected(t) \in Nat
         /\ Second * Expected(t) <= Rate * t
         /\ Rate * t < Second * (Expected(t) + 1)
<1> DEFINE q == t \div Second
           r == t % Second
           x == (r * Rate) \div Second
<1>1. /\ Second \in Nat \ {0} /\ Rate \in Nat \ {0}
  BY ShortfallAssumption
<1>2. q \in Nat /\ r \in Nat /\ t = Second * q + r
  BY <1>1, SMT
<1>3. r * Rate \in Nat
  BY <1>1, <1>2, SMT
<1>4. x \in Nat /\ Second * x <= r * Rate /\ r * Rate < Second * (x + 1)
  BY <1>1, <1>3, Quotients
<1>5. Expected(t) = q * Rate + x
  BY DEF Expected
<1> HIDE DEF q, r, x
<1>6. Expected(t) \in Nat
  BY <1>1, <1>2, <1>4, <1>5, SMT
<1>7. Rate * t = Second * (q * Rate) + r * Rate
  BY <1>1, <1>2, SMT
<1>8. Second * Expected(t) = Second * (q * Rate) + Second * x
  BY <1>1, <1>2, <1>4, <1>5, SMT
<1>9. Second * (Expected(t) + 1) = Second * (q * Rate) + Second * (x + 1)
  BY <1>1, <1>2, <1>4, <1>5, SMT
<1>10. Second * (q * Rate) \in Nat
  BY <1>1, <1>2, SMT
<1> QED
  BY <1>1, <1>2, <1>3, <1>4, <1>6, <1>7, <1>8, <1>9, <1>10, SMT

\* The longer the time, the more is expected.
LEMMA Longer ==
  ASSUME NEW s \in Nat, NEW t \in Nat, s <= t
  PROVE  Expected(s) <= Expected(t)
<1>1. Second \in Nat \ {0} /\ Rate \in Nat \ {0}
  BY ShortfallAssumption
<1>2. PICK e \in Nat : e = Expected(s)
  BY Expectations
<1>3. PICK f \in Nat : f = Expected(t)
  BY Expectations
<1>4. Second * e <= Rate * s /\ Rate * t < Second * (f + 1)
  BY <1>2, <1>3, Expectations
<1>5. Rate * s <= Rate * t
  BY <1>1, SMT
<1>6. Second * e < Second * (f + 1)
  BY <1>1, <1>4, <1>5, SMT
<1>7. e < f + 1
  BY <1>1, <1>6, SMT
<1> QED
  BY <1>2, <1>3, <1>7, SMT

LEMMA Windows == Window \in Nat
<1>1. /\ Second \in Nat \ {0} /\ Rate \in Nat \ {0} /\ Buffer \in Nat \ {0}
      /\ MinWindow \in Nat /\ WindowBufs \in Nat
  BY ShortfallAssumption
<1>2. Buffer * Second \in Nat
  BY <1>1, SMT
<1>3. PICK b \in Nat : b = (Buffer * Second) \div Rate
  BY <1>1, <1>2, Quotients
<1>4. WindowBufs * b \in Nat
  BY <1>1, SMT
<1> QED
  BY <1>1, <1>3, <1>4 DEF Window

-----------------------------------------------------------------------------
\* While no overrun waits to be seen, nothing that was captured since the window began
\* is missing,
Carried ==
  winOn /\ ~ xrun => Second * (ring + got + winFrames) + due >= speed * elapsed

\* and nothing is counted but that and what the ring held then.
Capped ==
  winOn => Second * (ring + got + winFrames) + due <= speed * elapsed + Second * (Buffer + Lag)

\* The inductive invariant.
ShortInv ==
  /\ TypeOK
  /\ due <= Lag * Second
  /\ pc # "counting" => got = 0
  /\ ~ winOn => elapsed = 0 /\ winFrames = 0
  /\ Carried
  /\ Capped

\* The constants are numbers, and so are their products.
LEMMA Numbers ==
  /\ Second \in Nat \ {0} /\ Rate \in Nat \ {0} /\ Buffer \in Nat /\ Lag \in Nat
  /\ Lag * Second \in Nat /\ Second * (Buffer + Lag) = Second * Buffer + Lag * Second
  /\ Second * Buffer \in Nat /\ MaxPause \in Nat /\ Tolerance \in 0 .. 100
  /\ \A s \in Speeds : s \in Nat
<1>1. /\ Second \in Nat \ {0} /\ Rate \in Nat \ {0} /\ Buffer \in Nat \ {0} /\ Lag \in Nat
      /\ MaxPause \in Nat /\ Tolerance \in 0 .. 100 /\ \A s \in Speeds : s \in Nat
  BY ShortfallAssumption
<1>2. Lag * Second \in Nat /\ Second * Buffer \in Nat
  BY <1>1, SMT
<1>3. Second * (Buffer + Lag) = Second * Buffer + Lag * Second
  BY <1>1, SMT
<1> QED
  BY <1>1, <1>2, <1>3

\* What the invariant gives of the numbers.
LEMMA Held ==
  ASSUME ShortInv
  PROVE  /\ speed \in Nat /\ ring \in Nat /\ ring <= Buffer /\ got \in Nat /\ got <= Buffer
         /\ due \in Nat /\ due <= Lag * Second
         /\ elapsed \in Nat /\ winFrames \in Nat /\ speed * elapsed \in Nat
<1>1. /\ speed \in Nat /\ ring \in 0 .. Buffer /\ got \in 0 .. Buffer /\ due \in Nat
      /\ due <= Lag * Second /\ elapsed \in Nat /\ winFrames \in Nat
  BY Numbers DEF ShortInv, TypeOK
<1> QED
  BY <1>1, Numbers, SMT

LEMMA ShortStarts == Init => ShortInv
<1> SUFFICES ASSUME Init PROVE ShortInv
  OBVIOUS
<1>1. /\ speed \in Speeds /\ ring = 0 /\ due = 0 /\ xrun = FALSE /\ pc = "away" /\ got = 0
      /\ pause = 0 /\ winOn = FALSE /\ elapsed = 0 /\ winFrames = 0
  BY DEF Init
<1>2. /\ 0 \in 0 .. Buffer /\ 0 \in 0 .. MaxPause /\ 0 \in Nat /\ 0 <= Lag * Second
  BY Numbers, SMT
<1>3. TypeOK
  BY <1>1, <1>2 DEF TypeOK
<1> QED
  BY <1>1, <1>2, <1>3 DEF ShortInv, Carried, Capped

\* A tick: the pointer moves by what is due, and either the ring takes it or it overruns.
LEMMA ShortTick ==
  ASSUME ShortInv, Tick
  PROVE  ShortInv'
<1> USE Held, Numbers
<1>1. /\ speed' = speed /\ pc' = pc /\ got' = got /\ winOn' = winOn /\ winFrames' = winFrames
      /\ elapsed' = IF winOn THEN elapsed + 1 ELSE 0
      /\ pause' = IF pc = "counting" THEN pause + 1 ELSE 0
      /\ pc = "counting" => pause < MaxPause
  BY DEF Tick
<1>2. pause' \in 0 .. MaxPause
  BY <1>1, SMT DEF ShortInv, TypeOK
<1>3. elapsed' \in Nat
  BY <1>1, SMT
<1>4. winOn => speed' * elapsed' = speed * elapsed + speed
  BY <1>1, SMT
<1>5. CASE xrun
  <2>1. ring' = ring /\ due' = due /\ xrun' = xrun
    BY <1>5 DEF Tick, device
  <2>2. TypeOK'
    BY <1>1, <1>2, <1>3, <2>1 DEF ShortInv, TypeOK
  <2>3. Carried'
    BY <1>5, <2>1 DEF Carried
  <2>4. Capped'
    <3>1. SUFFICES ASSUME winOn
                   PROVE  Second * (ring + got + winFrames) + due
                            <= speed' * elapsed' + Second * (Buffer + Lag)
      BY <1>1, <2>1 DEF Capped
    <3>2. Second * (ring + got + winFrames) + due <= speed * elapsed + Second * (Buffer + Lag)
      BY <3>1 DEF ShortInv, Capped
    <3>3. Second * (ring + got + winFrames) \in Nat
      BY SMT
    <3> QED
      BY <1>4, <3>1, <3>2, <3>3, SMT
  <2> QED
    BY <1>1, <2>1, <2>2, <2>3, <2>4 DEF ShortInv
<1>6. CASE ~ xrun
  <2>1. PICK k \in 0 .. (due + speed) \div Second :
          /\ due + speed - k * Second <= Lag * Second
          /\ due' = due + speed - k * Second
          /\ IF ring + k <= Buffer THEN ring' = ring + k /\ xrun' = xrun ELSE ring' = 0 /\ xrun' = TRUE
    BY <1>6 DEF Tick
  <2>2. (due + speed) \div Second \in Nat /\ Second * ((due + speed) \div Second) <= due + speed
    <3>1. due + speed \in Nat
      BY SMT
    <3> QED
      BY <3>1, Quotients
  <2>3. k \in Nat /\ Second * k <= due + speed /\ k * Second = Second * k /\ Second * k \in Nat
    <3>1. PICK m \in Nat : m = (due + speed) \div Second
      BY <2>2
    <3>2. k \in Nat /\ k <= m
      BY <3>1, SMT
    <3>3. Second * k <= Second * m /\ Second * k \in Nat /\ k * Second = Second * k
      BY <3>2, SMT
    <3> QED
      BY <2>2, <3>1, <3>2, <3>3, SMT
  <2>4. due' \in Nat /\ due' <= Lag * Second /\ due' + Second * k = due + speed
    BY <2>1, <2>3, SMT
  <2>5. /\ ring' \in 0 .. Buffer /\ xrun' \in BOOLEAN
        /\ ring' <= ring + k /\ (~ xrun' => ring' = ring + k)
    <3>1. CASE ring + k <= Buffer
      <4>1. ring' = ring + k /\ xrun' = FALSE
        BY <1>6, <2>1, <3>1 DEF ShortInv, TypeOK
      <4>2. ring + k \in 0 .. Buffer
        BY <2>3, <3>1, SMT
      <4>3. ring + k <= ring + k
        BY <2>3, SMT
      <4> QED
        BY <4>1, <4>2, <4>3
    <3>2. CASE ~ (ring + k <= Buffer)
      <4>1. ring' = 0 /\ xrun' = TRUE
        BY <2>1, <3>2
      <4>2. 0 \in 0 .. Buffer /\ 0 <= ring + k
        BY <2>3, SMT
      <4> QED
        BY <4>1, <4>2
    <3> QED
      BY <3>1, <3>2
  <2>6. TypeOK'
    BY <1>1, <1>2, <1>3, <2>4, <2>5 DEF ShortInv, TypeOK
  <2>7. Second * (ring + k + got + winFrames) = Second * (ring + got + winFrames) + Second * k
    BY <2>3, SMT
  <2>8. Second * (ring + got + winFrames) \in Nat
    BY SMT
  <2>9. Carried'
    <3>1. SUFFICES ASSUME winOn, ~ xrun'
                   PROVE  Second * (ring' + got + winFrames) + due' >= speed' * elapsed'
      BY <1>1 DEF Carried
    <3>2. Second * (ring + got + winFrames) + due >= speed * elapsed
      BY <1>6, <3>1 DEF ShortInv, Carried
    <3>3. Second * (ring' + got + winFrames) = Second * (ring + got + winFrames) + Second * k
      BY <2>5, <2>7, <3>1
    <3> QED
      BY <1>4, <2>3, <2>4, <2>8, <3>1, <3>2, <3>3, SMT
  <2>10. Capped'
    <3>1. SUFFICES ASSUME winOn
                   PROVE  Second * (ring' + got + winFrames) + due'
                            <= speed' * elapsed' + Second * (Buffer + Lag)
      BY <1>1 DEF Capped
    <3>2. Second * (ring + got + winFrames) + due <= speed * elapsed + Second * (Buffer + Lag)
      BY <3>1 DEF ShortInv, Capped
    <3>3. /\ Second * (ring' + got + winFrames) <= Second * (ring + k + got + winFrames)
          /\ Second * (ring' + got + winFrames) \in Nat
      <4>1. PICK a \in Nat : a = ring' + got + winFrames
        BY <2>5, SMT
      <4>2. PICK b \in Nat : b = ring + k + got + winFrames
        BY <2>3, SMT
      <4>3. a <= b
        BY <2>3, <2>5, <4>1, <4>2, SMT
      <4>4. Second * a <= Second * b /\ Second * a \in Nat
        BY <4>3, SMT
      <4> QED
        BY <4>1, <4>2, <4>4
    <3> QED
      BY <1>4, <2>3, <2>4, <2>7, <2>8, <3>1, <3>2, <3>3, SMT
  <2> QED
    BY <1>1, <2>4, <2>6, <2>9, <2>10 DEF ShortInv
<1> QED
  BY <1>5, <1>6

\* ReadI moves frames from the ring into its caller's hands.
LEMMA ShortReadI ==
  ASSUME ShortInv, ReadI
  PROVE  ShortInv'
<1> USE Held, Numbers
<1>1. PICK n \in 1 .. ring : got' = n /\ ring' = ring - n
  BY DEF ReadI
<1>2. /\ pc = "away" /\ pc' = "counting" /\ speed' = speed /\ due' = due /\ xrun' = xrun
      /\ pause' = pause /\ winOn' = winOn /\ elapsed' = elapsed /\ winFrames' = winFrames
  BY DEF ReadI, window
<1>3. got = 0
  BY <1>2 DEF ShortInv
<1>4. got' \in 0 .. Buffer /\ ring' \in 0 .. Buffer /\ ring' + got' + winFrames = ring + got + winFrames
  BY <1>1, <1>3, SMT
<1>5. TypeOK'
  BY <1>2, <1>4 DEF ShortInv, TypeOK
<1>6. Carried' /\ Capped'
  BY <1>2, <1>4 DEF ShortInv, Carried, Capped
<1> QED
  BY <1>2, <1>5, <1>6 DEF ShortInv

LEMMA ShortRecover ==
  ASSUME ShortInv, Recover
  PROVE  ShortInv'
<1> USE Held, Numbers
<1>1. TypeOK'
  <2>1. 0 \in 0 .. Buffer /\ 0 \in Nat
    BY SMT
  <2> QED
    BY <2>1 DEF ShortInv, TypeOK, Recover
<1>2. Carried' /\ Capped'
  BY DEF Recover, Carried, Capped
<1> QED
  BY <1>1, <1>2, SMT DEF ShortInv, Recover

\* A window begins with nothing counted, whatever the ring holds: at the first read, and
\* wherever one was judged.
LEMMA ShortBegins ==
  ASSUME ShortInv,
         device' = device, got' = 0, pause' = 0, elapsed' = 0, winFrames' = 0,
         winOn' \in BOOLEAN, pc' \in {"away", "failed"}
  PROVE  ShortInv'
<1> USE Held, Numbers
<1>1. speed' = speed /\ ring' = ring /\ due' = due /\ xrun' = xrun
  BY DEF device
<1>2. TypeOK'
  BY <1>1, SMT DEF ShortInv, TypeOK
<1>3. speed' * elapsed' = 0 /\ ring' + got' + winFrames' = ring
  BY <1>1, SMT
<1>4. Second * ring \in Nat /\ Second * ring <= Second * Buffer
  BY SMT
<1>5. Carried'
  <2>1. Second * ring + due' >= 0
    BY <1>1, <1>4, SMT
  <2> QED
    BY <1>3, <2>1 DEF Carried
<1>6. Capped'
  <2>1. Second * ring + due' <= 0 + Second * (Buffer + Lag)
    BY <1>1, <1>4, SMT
  <2> QED
    BY <1>3, <2>1 DEF Capped
<1> QED
  BY <1>1, <1>2, <1>5, <1>6, SMT DEF ShortInv

LEMMA ShortAccount ==
  ASSUME ShortInv, Account
  PROVE  ShortInv'
<1> USE Held, Numbers
<1>1. /\ pc' = "away" /\ got' = 0 /\ pause' = 0 /\ winFrames' = winFrames + got /\ winOn
      /\ speed' = speed /\ ring' = ring /\ due' = due /\ xrun' = xrun
      /\ winOn' = winOn /\ elapsed' = elapsed
  BY DEF Account, device
<1>2. ring' + got' + winFrames' = ring + got + winFrames /\ winFrames' \in Nat
  BY <1>1, SMT
<1>3. TypeOK'
  BY <1>1, <1>2, SMT DEF ShortInv, TypeOK
<1>4. Carried' /\ Capped'
  BY <1>1, <1>2 DEF ShortInv, Carried, Capped
<1> QED
  BY <1>1, <1>3, <1>4 DEF ShortInv

LEMMA ShortStep == ShortInv /\ [Next]_vars => ShortInv'
<1> SUFFICES ASSUME ShortInv, [Next]_vars
             PROVE  ShortInv'
  OBVIOUS
<1>1. CASE Tick
  BY <1>1, ShortTick
<1>2. CASE ReadI
  BY <1>2, ShortReadI
<1>3. CASE Recover
  BY <1>3, ShortRecover
<1>4. CASE StartWindow
  BY <1>4, ShortBegins DEF StartWindow
<1>5. CASE Account
  BY <1>5, ShortAccount
<1>6. CASE Evaluate
  <2>1. /\ device' = device /\ got' = 0 /\ pause' = 0 /\ elapsed' = 0 /\ winFrames' = 0
        /\ winOn' = winOn /\ pc' \in {"away", "failed"}
    BY <1>6 DEF Evaluate, device
  <2>2. winOn \in BOOLEAN
    BY DEF ShortInv, TypeOK
  <2> QED
    BY <2>1, <2>2, ShortBegins
<1>7. CASE UNCHANGED vars
  BY <1>7 DEF vars, device, window, ShortInv, TypeOK, Carried, Capped
<1> QED
  BY <1>1, <1>2, <1>3, <1>4, <1>5, <1>6, <1>7 DEF Next

\* The inductive invariant of the check and the device below it.
THEOREM ShortfallInvariant == Spec => []ShortInv
BY ShortStarts, ShortStep, PTL DEF Spec

-----------------------------------------------------------------------------
\* A device that keeps its rate does not fall short of a window that has elapsed.
LEMMA FastIsNotShort ==
  ASSUME ShortInv, LagTolerated, winOn, ~ xrun, elapsed >= Window, speed >= Rate
  PROVE  ~ Short(winFrames + got, elapsed)
<1> USE Held, Numbers
<1>1. PICK e \in Nat : e = Expected(elapsed)
  BY Expectations
<1>2. Second * e <= Rate * elapsed
  BY <1>1, Expectations
<1>3. Rate * elapsed <= speed * elapsed
  BY SMT
<1>4. speed * elapsed <= Second * (ring + got + winFrames) + due
  BY DEF ShortInv, Carried
<1>5. PICK c \in Nat : c = winFrames + got
  BY SMT
<1>6. e <= c + Buffer + Lag
  <2>1. Second * (ring + got + winFrames) <= Second * (c + Buffer)
    BY <1>5, SMT
  <2>2. Second * (c + Buffer) + Lag * Second = Second * (c + Buffer + Lag)
    BY SMT
  <2>3. /\ Second * e \in Nat /\ Rate * elapsed \in Nat /\ Second * (c + Buffer + Lag) \in Nat
        /\ Second * (ring + got + winFrames) \in Nat /\ Second * (c + Buffer) \in Nat
    BY SMT
  <2>4. Second * e <= Second * (c + Buffer + Lag)
    BY <1>2, <1>3, <1>4, <2>1, <2>2, <2>3, SMT
  <2> QED
    BY <2>4, SMT
<1>7. Lag <= (e * Tolerance) \div 100
  <2>1. PICK w \in Nat : w = Expected(Window)
    BY Windows, Expectations
  <2>2. w <= e
    BY <1>1, <2>1, Windows, Longer
  <2>3. w * Tolerance <= e * Tolerance /\ w * Tolerance \in Nat /\ e * Tolerance \in Nat
    BY <2>2, SMT
  <2>4. (w * Tolerance) \div 100 <= (e * Tolerance) \div 100
    BY <2>3, SMT
  <2>5. Lag <= (w * Tolerance) \div 100
    BY <2>1 DEF LagTolerated
  <2> QED
    BY <2>3, <2>4, <2>5, SMT
<1>8. (e * Tolerance) \div 100 \in Nat
  <2>1. e * Tolerance \in Nat
    BY SMT
  <2> QED
    BY <2>1, Quotients
<1>9. ~ (c + Buffer < e - (e * Tolerance) \div 100)
  BY <1>6, <1>7, <1>8, SMT
<1> QED
  BY <1>1, <1>5, <1>9 DEF Short

\* A device that runs a quarter slow does.
LEMMA SlowIsShort ==
  ASSUME ShortInv, SlownessShows, winOn, elapsed >= Window, 4 * speed <= 3 * Rate
  PROVE  Short(winFrames + got, elapsed)
<1> USE Held, Numbers
<1>1. PICK e \in Nat : e = Expected(elapsed)
  BY Expectations
<1>2. Rate * elapsed < Second * (e + 1)
  BY <1>1, Expectations
<1>3. 4 * (speed * elapsed) <= 3 * (Rate * elapsed)
  BY SMT
<1>4. Second * (ring + got + winFrames) + due <= speed * elapsed + Second * (Buffer + Lag)
  BY DEF ShortInv, Capped
<1>5. PICK c \in Nat : c = winFrames + got
  BY SMT
<1>6. 4 * c < 3 * (e + 1) + 4 * (Buffer + Lag)
  <2>1. Second * c <= Second * (ring + got + winFrames)
    BY <1>5, SMT
  <2>2. /\ Second * c \in Nat /\ Rate * elapsed \in Nat /\ Second * (e + 1) \in Nat
        /\ Second * (ring + got + winFrames) \in Nat /\ Second * (Buffer + Lag) \in Nat
    BY SMT
  <2>3. 4 * (Second * c) < 3 * (Second * (e + 1)) + 4 * (Second * (Buffer + Lag))
    <3>1. 4 * (speed * elapsed) < 3 * (Second * (e + 1))
      BY <1>2, <1>3, <2>2, SMT
    <3>2. Second * c <= speed * elapsed + Second * (Buffer + Lag)
      BY <1>4, <2>1, <2>2, SMT
    <3> QED
      BY <2>2, <3>1, <3>2, SMT
  <2>4. /\ 4 * (Second * c) = Second * (4 * c)
        /\ 3 * (Second * (e + 1)) + 4 * (Second * (Buffer + Lag))
             = Second * (3 * (e + 1) + 4 * (Buffer + Lag))
    BY SMT
  <2>5. Second * (4 * c) < Second * (3 * (e + 1) + 4 * (Buffer + Lag))
    BY <2>3, <2>4
  <2> QED
    BY <2>5, SMT
<1>7. PICK g \in Nat : g = (e * Tolerance) \div 100
  <2>1. e * Tolerance \in Nat
    BY SMT
  <2> QED
    BY <2>1, Quotients
<1>8. 100 * g <= e * Tolerance
  <2>1. e * Tolerance \in Nat
    BY SMT
  <2> QED
    BY <1>7, <2>1, Quotients
<1>9. 100 * (2 * Buffer + Lag + 1) + Tolerance * e <= 25 * e
  <2>1. PICK w \in Nat : w = Expected(Window)
    BY Windows, Expectations
  <2>2. w <= e
    BY <1>1, <2>1, Windows, Longer
  <2>3. 100 * (2 * Buffer + Lag + 1) + Tolerance * w <= 25 * w
    BY <2>1 DEF SlownessShows
  <2>4. (25 - Tolerance) * w >= 100 * (2 * Buffer + Lag + 1)
    BY <2>3, SMT
  <2>5. 25 - Tolerance >= 0
    BY <2>4, SMT
  <2>6. (25 - Tolerance) * w <= (25 - Tolerance) * e
    BY <2>2, <2>5, SMT
  <2>7. (25 - Tolerance) * e = 25 * e - Tolerance * e /\ Tolerance * e \in Nat
    BY SMT
  <2>8. (25 - Tolerance) * w \in Int
    BY SMT
  <2> QED
    BY <2>4, <2>6, <2>7, <2>8, SMT
<1>10. c + Buffer < e - g
  <2>1. e * Tolerance = Tolerance * e /\ Tolerance * e \in Nat
    BY SMT
  <2> QED
    BY <1>6, <1>8, <1>9, <2>1, SMT
<1> QED
  BY <1>1, <1>5, <1>7, <1>10 DEF Short

LEMMA LongEnough ==
  ASSUME SlownessShows
  PROVE  Window > 0
<1> USE Numbers
<1>1. PICK w \in Nat : w = Window
  BY Windows
<1>2. SUFFICES ASSUME w = 0 PROVE FALSE
  BY <1>1, SMT
<1>3. Rate * w = 0
  BY <1>2, SMT
<1>4. PICK e \in Nat : e = Expected(w)
  BY Expectations
<1>5. Second * e <= 0
  BY <1>3, <1>4, Expectations
<1>6. e = 0
  BY <1>5, SMT
<1>7. 100 * (2 * Buffer + Lag + 1) + Tolerance * e <= 25 * e
  BY <1>1, <1>4 DEF SlownessShows
<1> QED
  BY <1>6, <1>7, SMT

\* checkShortfall accuses a device that keeps its rate only when the ring overran while the
\* reader was between ReadI and the clock (stream_linux.go:373-399), for every rate, buffer,
\* window and pause: if the tolerance covers what the pointer lags.
THEOREM OnlyHiddenAccuse == ASSUME LagTolerated PROVE Spec => OnlyHiddenOverruns
<1>1. ShortInv => TypeOK
  BY DEF ShortInv
<1>2. ShortInv /\ [Next]_vars
        => [speed >= Rate /\ pc' = "failed" /\ pc # "failed" => xrun]_vars
  <2>1. SUFFICES ASSUME ShortInv, Next, speed >= Rate, pc' = "failed", pc # "failed"
                 PROVE  xrun
    BY DEF vars, device, window
  <2>2. Evaluate
    BY <2>1 DEF Next, Tick, ReadI, Recover, StartWindow, Account
  <2>3. winOn /\ elapsed >= Window /\ Short(winFrames + got, elapsed)
    BY <2>1, <2>2 DEF Evaluate
  <2>4. xrun \in BOOLEAN
    BY <2>1 DEF ShortInv, TypeOK
  <2> QED
    BY <2>1, <2>3, <2>4, FastIsNotShort
<1> QED
  BY <1>1, <1>2, ShortfallInvariant, PTL DEF Spec, OnlyHiddenOverruns

\* checkShortfall fails the first window of a device that runs a quarter slow, however the
\* reader is held up (stream_linux.go:378-388).
THEOREM SlowStaysCaught == ASSUME SlownessShows PROVE Spec => SlowIsCaught
<1>1. ShortInv /\ [Next]_vars
        => [4 * speed <= 3 * Rate /\ elapsed >= Window /\ elapsed' = 0 /\ pc = "counting"
              => pc' = "failed"]_vars
  <2>1. SUFFICES ASSUME ShortInv, Next, 4 * speed <= 3 * Rate, elapsed >= Window,
                        elapsed' = 0, pc = "counting"
                 PROVE  pc' = "failed"
    BY DEF vars
  <2>2. elapsed \in Nat /\ Window \in Nat /\ elapsed > 0 /\ winOn
    <3>1. elapsed \in Nat /\ Window \in Nat /\ Window > 0
      BY <2>1, Held, Windows, LongEnough
    <3>2. elapsed > 0
      BY <2>1, <3>1, SMT
    <3>3. winOn
      BY <2>1, <3>2, SMT DEF ShortInv, TypeOK
    <3> QED
      BY <3>1, <3>2, <3>3
  <2>3. ~ Tick
    <3>1. SUFFICES ASSUME Tick PROVE FALSE
      OBVIOUS
    <3>2. elapsed' = elapsed + 1
      BY <2>2, <3>1 DEF Tick
    <3> QED
      BY <2>1, <2>2, <3>2, SMT
  <2>4. ~ Account
    <3>1. SUFFICES ASSUME Account PROVE FALSE
      OBVIOUS
    <3>2. elapsed' = elapsed
      BY <3>1 DEF Account
    <3> QED
      BY <2>1, <2>2, <3>2, SMT
  <2>5. Evaluate
    BY <2>1, <2>2, <2>3, <2>4 DEF Next, ReadI, Recover, StartWindow
  <2> QED
    BY <2>1, <2>2, <2>5, SlowIsShort DEF Evaluate
<1> QED
  BY <1>1, ShortfallInvariant, PTL DEF Spec, SlowIsCaught

-----------------------------------------------------------------------------
\* With shortfallWindowBufs and shortfallTolPercent of stream_linux.go and nanoseconds for
\* ticks, both hypotheses hold of every rate and buffer, whatever minShortfallWindow is, as
\* long as the pointer lags by less than the buffer: it moves a period at a time, in a
\* buffer of two periods or more.
THEOREM CodeTolerates ==
  ASSUME WindowBufs = 20, Tolerance = 10, 20 * Rate <= Second, Lag + 2 <= Buffer
  PROVE  LagTolerated /\ SlownessShows
<1> USE Numbers
<1>1. Buffer * Second \in Nat /\ Buffer \in Nat
  BY SMT
<1>2. PICK b \in Nat : b = (Buffer * Second) \div Rate
  BY <1>1, Quotients
<1>3. Buffer * Second < Rate * (b + 1)
  BY <1>1, <1>2, Quotients
<1>4. PICK w \in Nat : w = Window
  BY Windows
<1>5. w >= 20 * b
  <2>1. w = IF 20 * b > MinWindow THEN 20 * b ELSE MinWindow
    BY <1>2, <1>4 DEF Window
  <2>2. MinWindow \in Nat
    BY ShortfallAssumption
  <2> QED
    BY <2>1, <2>2, SMT
<1>6. PICK e \in Nat : e = Expected(w)
  BY Expectations
<1>7. Rate * w < Second * (e + 1)
  BY <1>6, Expectations
<1>8. e >= 20 * Buffer - 1
  <2>1. Rate * w >= 20 * (Rate * b) /\ Rate * b \in Nat /\ Rate * w \in Nat
    BY <1>5, SMT
  <2>2. Rate * (b + 1) = Rate * b + Rate
    BY SMT
  <2>3. Second * (e + 1) > 20 * (Buffer * Second) - Second
    <3>1. Second * (e + 1) \in Nat
      BY SMT
    <3> QED
      BY <1>1, <1>3, <1>7, <2>1, <2>2, <3>1, SMT
  <2>4. 20 * (Buffer * Second) - Second = Second * (20 * Buffer - 1)
    BY SMT
  <2>5. Second * (e + 1) > Second * (20 * Buffer - 1)
    BY <2>3, <2>4
  <2>6. e + 1 > 20 * Buffer - 1
    BY <2>5, SMT
  <2> QED
    BY <2>6, SMT
<1>9. Lag <= (e * Tolerance) \div 100
  BY <1>8, SMT
<1>10. 100 * (2 * Buffer + Lag + 1) + Tolerance * e <= 25 * e
  BY <1>8, SMT
<1> QED
  BY <1>4, <1>6, <1>9, <1>10 DEF LagTolerated, SlownessShows
=============================================================================
