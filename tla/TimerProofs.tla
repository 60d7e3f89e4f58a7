----------------------------- MODULE TimerProofs -----------------------------
(***************************************************************************)
(* Proofs about Timer for every word size, rate, set of arguments and      *)
(* number of ticks.                                                        *)
(***************************************************************************)
EXTENDS Timer, TLAPS

USE DEF PIT, KBD, CASCADE, Lines, Main

(* One interrupt is in service while its handler runs, with interrupts off,  *)
(* and none otherwise.                                                       *)
OneAtATime ==
    /\ running = -1 => isr = {}
    /\ running # -1 => isr = {running} /\ IFlag = FALSE

(* The bound on ticks: a pulse waiting, or in service, is one tick to come.  *)
TicksToCome ==
    /\ PIT \in irr => tick <= MaxTick
    /\ running = PIT => tick <= MaxTick
    /\ running = PIT /\ PIT \in irr => tick < MaxTick

(* The wish of the caller reached sleep_ticks in full, and the end of the    *)
(* sleep fits the two words of a tick.                                       *)
Fits == ~ wrapped /\ start + asked < WordSize * WordSize

(* What the locals of sleep_ticks hold at each of its steps, as long as no   *)
(* carry came between two loads.                                             *)
Sleeping ==
    /\ start <= tick
    /\ pc = "boot" => asked = 0
    /\ pc = "end_hi" /\ Fits => end = asked
    /\ torn \/ /\ pc = "end_hi" => /\ lo = start % WordSize
                                   /\ tick \div WordSize = start \div WordSize
               /\ pc \in {"loop_lo", "loop_hi"} /\ Fits => end = start + asked
               /\ pc = "loop_hi" => WordSize * (tick \div WordSize) + lo <= tick
               /\ pc \in {"boot", "back"} /\ Fits => start + asked <= tick

TimerInv == TypeOK /\ OneAtATime /\ TicksToCome /\ Sleeping
-----------------------------------------------------------------------------
(* A number is its two words put together. *)
LEMMA TwoWords ==
    ASSUME NEW x \in Nat, NEW w \in Nat \ {0}
    PROVE  /\ x \div w \in Nat
           /\ x % w \in 0 .. (w - 1)
           /\ x = w * (x \div w) + (x % w)
  OBVIOUS

(* Without a carry the high word stays. *)
LEMMA NoCarry ==
    ASSUME NEW x \in Nat, NEW w \in Nat \ {0}, (x + 1) % w # 0
    PROVE  (x + 1) \div w = x \div w
<1> DEFINE q == x \div w
           r == x % w
           q1 == (x + 1) \div w
           r1 == (x + 1) % w
<1>1. q \in Nat /\ r \in 0 .. (w - 1) /\ x = w * q + r
  BY TwoWords
<1>2. q1 \in Nat /\ r1 \in 0 .. (w - 1) /\ x + 1 = w * q1 + r1 /\ r1 # 0
  BY TwoWords
<1> HIDE DEF q, r, q1, r1
<1>3. w * q1 = w * q + (r + 1 - r1)
  BY <1>1, <1>2
<1>4. r + 1 - r1 < w /\ r + 1 - r1 > -w
  BY <1>1, <1>2
<1>5. w * (q1 - q) = r + 1 - r1
  <2>1. w * (q1 - q) = w * q1 - w * q
    BY <1>1, <1>2
  <2>2. w * q1 \in Int /\ w * q \in Int
    BY <1>1, <1>2
  <2> QED
    BY <1>1, <1>2, <1>3, <2>1, <2>2
<1>6. q1 - q >= 1 => w * (q1 - q) >= w
  BY <1>1, <1>2
<1>7. q1 - q <= -1 => w * (q1 - q) <= -w
  BY <1>1, <1>2
<1>8. q1 - q = 0
  BY <1>1, <1>2, <1>4, <1>5, <1>6, <1>7
<1> QED
  BY <1>1, <1>2, <1>8 DEF q, q1

(* The word a load puts together is a number of two words, and no reduction  *)
(* takes place when the sum fits.                                            *)
LEMMA WordFits ==
    ASSUME NEW l \in Nat, NEW h \in Nat
    PROVE  /\ WordSize * h + l \in Nat
           /\ Word(l, h) \in 0 .. (WordSize * WordSize - 1)
           /\ WordSize * h + l < WordSize * WordSize => Word(l, h) = WordSize * h + l
<1> DEFINE ww == WordSize * WordSize
           x == WordSize * h + l
<1>1. WordSize \in Nat \ {0}
  BY WordAssumption
<1>2. ww \in Nat \ {0} /\ x \in Nat /\ h * WordSize + l = x
  BY <1>1
<1>3. Word(l, h) = x % ww
  BY <1>2 DEF Word
<1> HIDE DEF ww, x
<1>4. x % ww \in 0 .. (ww - 1) /\ (x < ww => x % ww = x)
  BY <1>2
<1> QED
  BY <1>2, <1>3, <1>4 DEF ww, x

(* The constants in the form the proofs use. *)
LEMMA Constants ==
    /\ WordSize \in Nat /\ WordSize > 1
    /\ WordSize * WordSize \in Nat /\ WordSize <= WordSize * WordSize
    /\ MaxTick \in Nat /\ MaxTick + 1 < WordSize * WordSize
<1>1. WordSize \in Nat /\ WordSize > 1
  BY WordAssumption
<1>2. WordSize * WordSize \in Nat /\ WordSize <= WordSize * WordSize
  BY <1>1
<1> QED
  BY <1>1, <1>2, MaxTickAssumption

(* The number of ticks that the three entry points pass on: two words at      *)
(* most.                                                                      *)
LEMMA TicksPassed ==
    /\ \A n \in TickArgs : n \in 0 .. (WordSize * WordSize - 1)
    /\ \A s \in SecArgs :
         /\ s * TicksPerSec \in Nat
         /\ (s * TicksPerSec) % WordSize \in 0 .. (WordSize - 1)
    /\ \A m \in MsArgs :
         (IF m < MsPerTick THEN MsPerTick ELSE m) \div MsPerTick \in 0 .. (WordSize - 1)
<1>1. WordSize \in Nat /\ WordSize > 1
  BY Constants
<1>2. \A s \in SecArgs : s * TicksPerSec \in Nat
  BY <1>1, RateAssumption, ArgsAssumption
<1>3. \A x \in Nat : x % WordSize \in 0 .. (WordSize - 1)
  BY <1>1
<1>4. ASSUME NEW m \in MsArgs
      PROVE  (IF m < MsPerTick THEN MsPerTick ELSE m) \div MsPerTick \in 0 .. (WordSize - 1)
  <2> DEFINE x == IF m < MsPerTick THEN MsPerTick ELSE m
             q == x \div MsPerTick
  <2>1. m \in Nat /\ m < WordSize /\ MsPerTick \in Nat \ {0}
    BY <1>1, ArgsAssumption, RateAssumption
  <2>2. CASE m < MsPerTick
    <3>1. MsPerTick \div MsPerTick = 1
      BY <2>1
    <3> QED
      BY <1>1, <2>2, <3>1
  <2>3. CASE ~ (m < MsPerTick)
    <3> DEFINE p == m \div MsPerTick
    <3> DEFINE r == m % MsPerTick
    <3>1. p \in Nat /\ m = MsPerTick * p + r /\ r \in 0 .. (MsPerTick - 1)
      BY <2>1, TwoWords
    <3> HIDE DEF p, r
    <3>2. MsPerTick * p >= p
      BY <2>1, <3>1
    <3>3. MsPerTick * p \in Nat
      BY <2>1, <3>1
    <3>4. p <= m
      BY <2>1, <3>1, <3>2, <3>3
    <3> QED
      BY <1>1, <2>1, <2>3, <3>1, <3>4 DEF p
  <2> QED
    BY <2>2, <2>3
<1> QED
  BY <1>1, <1>2, <1>3, <1>4, ArgsAssumption

-----------------------------------------------------------------------------
(* The invariant is kept: one lemma for the steps of devices and controllers *)
(* and one for each kind of step of the interrupted code.                    *)

(* Pulses and requests change nothing of the sleeper. *)
LEMMA RequestsKeepInv ==
    TimerInv /\ (Pulse \/ Key \/ DiskIrq \/ AcceptAny) => TimerInv'
<1> SUFFICES ASSUME TimerInv, Pulse \/ Key \/ DiskIrq \/ AcceptAny
             PROVE  TimerInv'
  OBVIOUS
<1> USE DEF TimerInv, sleeper
<1>0. MaxTick \in Nat /\ tick \in Nat
  BY Constants DEF TypeOK
<1>1. Sleeping'
  BY DEF Sleeping, Fits, Pulse, Key, DiskIrq, AcceptAny, Accept
<1>2. CASE Pulse
  BY <1>0, <1>1, <1>2 DEF Pulse, TypeOK, OneAtATime, TicksToCome
<1>3. CASE Key
  BY <1>0, <1>1, <1>3 DEF Key, TypeOK, OneAtATime, TicksToCome
<1>4. CASE DiskIrq
  <2>1. slave' \in [req : BOOLEAN, svc : BOOLEAN]
    BY <1>4 DEF DiskIrq, TypeOK
  <2>2. irr' \subseteq Lines /\ (PIT \in irr' => PIT \in irr)
    BY <1>4 DEF DiskIrq, TypeOK
  <2> QED
    BY <1>0, <1>1, <1>4, <2>1, <2>2 DEF DiskIrq, TypeOK, OneAtATime, TicksToCome
<1>5. CASE AcceptAny
  <2> PICK line \in Lines : Accept(line)
    BY <1>5 DEF AcceptAny
  <2>1. running = -1 /\ isr = {} /\ isr' = {line} /\ running' = line /\ IFlag' = FALSE
    BY DEF Accept, OneAtATime, TypeOK
  <2>2. slave' \in [req : BOOLEAN, svc : BOOLEAN]
    BY DEF Accept, TypeOK
  <2>3. OneAtATime'
    BY <2>1 DEF OneAtATime
  <2>4. TicksToCome'
    BY <2>1 DEF Accept, TicksToCome
  <2>5. TypeOK'
    BY <2>1, <2>2 DEF Accept, TypeOK
  <2> QED
    BY <1>1, <2>3, <2>4, <2>5
<1> QED
  BY <1>2, <1>3, <1>4, <1>5

(* What a handler leaves: nothing in service, interrupts on. *)
LEMMA HandlerReturns ==
    ASSUME TimerInv, Handler
    PROVE  isr' = {} /\ running' = -1 /\ IFlag' = TRUE
<1>1. isr = {running}
  BY DEF TimerInv, OneAtATime, Handler, sr20, sr21, isr_x
<1>2. EOI /\ Iretd /\ running \in Int
  BY DEF Handler, sr20, sr21, isr_x
<1>3. isr' = {}
  BY <1>1, <1>2 DEF EOI
<1> QED
  BY <1>2, <1>3 DEF Iretd

(* A tick between two steps of sleep_ticks, with or without a carry. *)
LEMMA HandlersKeepInv == TimerInv /\ Handler => TimerInv'
<1> SUFFICES ASSUME TimerInv, Handler PROVE TimerInv'
  OBVIOUS
<1>1. isr' = {} /\ running' = -1 /\ IFlag' = TRUE
  BY HandlerReturns
<1>2. MaxTick \in Nat /\ tick \in Nat /\ start \in Nat /\ WordSize \in Nat \ {0}
      /\ lo \in Nat /\ asked \in Nat /\ end \in Nat
  BY Constants DEF TimerInv, TypeOK
<1>3. CASE sr21 \/ isr_x
  <2>1. OneAtATime' /\ TicksToCome'
    BY <1>1, <1>3 DEF TimerInv, OneAtATime, TicksToCome, sr21, isr_x
  <2>2. TypeOK' /\ Sleeping'
    BY <1>1, <1>3 DEF TimerInv, TypeOK, Sleeping, Fits, sr21, isr_x, sleeper
  <2> QED
    BY <2>1, <2>2 DEF TimerInv
<1>4. CASE sr20
  <2>1. OneAtATime'
    BY <1>1 DEF OneAtATime
  <2>2. tick <= MaxTick /\ tick' = tick + 1 /\ irr' = irr
    BY <1>4 DEF TimerInv, TicksToCome, sr20
  <2>3. TicksToCome'
    BY <1>1, <1>2, <1>4, <2>2 DEF TimerInv, TicksToCome, sr20
  <2>4. TypeOK'
    BY <1>1, <1>2, <1>4, <2>2 DEF TimerInv, TypeOK, sr20, sleeper
  <2>5. UNCHANGED <<lo, end, pc, start, asked, wrapped>>
    BY <1>4 DEF sr20, sleeper
  <2>6. \/ torn'
        \/ ~torn /\ pc \notin {"end_hi", "loop_hi"}
        \/ ~torn /\ tick' \div WordSize = tick \div WordSize
    <3>1. (tick + 1) % WordSize # 0 => (tick + 1) \div WordSize = tick \div WordSize
      BY <1>2, NoCarry
    <3> QED
      BY <1>4, <2>2, <3>1 DEF sr20
  <2>7. CASE torn'
    BY <1>2, <2>1, <2>2, <2>3, <2>4, <2>5, <2>7 DEF TimerInv, Sleeping, Fits
  <2>8. CASE ~torn /\ pc \notin {"end_hi", "loop_hi"}
    BY <1>2, <2>1, <2>2, <2>3, <2>4, <2>5, <2>8 DEF TimerInv, Sleeping, Fits
  <2>9. CASE ~torn /\ tick' \div WordSize = tick \div WordSize
    <3> DEFINE h == tick \div WordSize
    <3>1. WordSize * h \in Nat
      BY <1>2, TwoWords
    <3>2. tick' \div WordSize = h
      BY <2>9
    <3>3. pc = "end_hi" => h = start \div WordSize
      BY <2>9 DEF TimerInv, Sleeping
    <3>4. pc = "loop_hi" => WordSize * h + lo <= tick
      BY <2>9 DEF TimerInv, Sleeping
    <3> HIDE DEF h
    <3> QED
      BY <1>2, <2>1, <2>2, <2>3, <2>4, <2>5, <2>9, <3>1, <3>2, <3>3, <3>4 DEF TimerInv, Sleeping, Fits
  <2> QED
    BY <2>1, <2>3, <2>4, <2>6, <2>7, <2>8, <2>9 DEF TimerInv
<1> QED
  BY <1>3, <1>4 DEF Handler

(* A call of sleep_ticks reads the low word of the tick it starts at. *)
LEMMA CallKeepsInv ==
    ASSUME TimerInv, NEW n \in 0 .. (WordSize * WordSize - 1), NEW wanted \in Nat, Call(n, wanted)
    PROVE  TimerInv'
<1>1. WordSize \in Nat \ {0} /\ tick \in Nat /\ WordSize <= WordSize * WordSize
      /\ WordSize * WordSize \in Nat
  BY Constants DEF TimerInv, TypeOK
<1>2. tick % WordSize \in 0 .. (WordSize - 1)
  BY <1>1, TwoWords
<1>3. TypeOK'
  <2>1. /\ lo' = tick % WordSize /\ end' = n /\ pc' = "end_hi" /\ start' = tick
        /\ asked' = wanted /\ wrapped' = (n # wanted) /\ torn' = FALSE
        /\ UNCHANGED <<irr, isr, slave, IFlag, running, tick>>
    BY DEF Call, pic
  <2> QED
    BY <1>2, <2>1 DEF TimerInv, TypeOK
<1>4. OneAtATime' /\ TicksToCome'
  BY DEF TimerInv, OneAtATime, TicksToCome, Call, pic
<1>5. Sleeping'
  <2>1. /\ lo' = tick % WordSize /\ end' = n /\ pc' = "end_hi" /\ start' = tick
        /\ asked' = wanted /\ tick' = tick
        /\ ~ wrapped' => n = wanted
    BY DEF Call
  <2> QED
    BY <1>1, <2>1 DEF Sleeping, Fits
<1> QED
  BY <1>3, <1>4, <1>5 DEF TimerInv

(* The entry points. *)
LEMMA CallsKeepInv == TimerInv /\ (sleep_ticks \/ sleep \/ sleep_ms) => TimerInv'
<1> SUFFICES ASSUME TimerInv, sleep_ticks \/ sleep \/ sleep_ms PROVE TimerInv'
  OBVIOUS
<1>1. CASE sleep_ticks
  <2>1. PICK n \in TickArgs : Call(n, n)
    BY <1>1 DEF sleep_ticks
  <2>2. n \in 0 .. (WordSize * WordSize - 1) /\ n \in Nat
    BY TicksPassed, Constants
  <2> QED
    BY <2>1, <2>2, CallKeepsInv
<1>2. CASE sleep
  <2> PICK s \in SecArgs : Call((s * TicksPerSec) % WordSize, s * TicksPerSec)
    BY <1>2 DEF sleep
  <2> DEFINE w == s * TicksPerSec
             n == w % WordSize
  <2>1. w \in Nat /\ n \in 0 .. (WordSize * WordSize - 1)
    BY TicksPassed, Constants
  <2>2. Call(n, w)
    OBVIOUS
  <2> HIDE DEF n, w
  <2> QED
    BY <2>1, <2>2, CallKeepsInv
<1>3. CASE sleep_ms
  <2> PICK m \in MsArgs :
        LET n == (IF m < MsPerTick THEN MsPerTick ELSE m) \div MsPerTick IN Call(n, n)
    BY <1>3 DEF sleep_ms
  <2> DEFINE n == (IF m < MsPerTick THEN MsPerTick ELSE m) \div MsPerTick
  <2>1. n \in 0 .. (WordSize * WordSize - 1)
    BY TicksPassed, Constants
  <2>2. Call(n, n)
    OBVIOUS
  <2> HIDE DEF n
  <2>3. n \in Nat
    BY <2>1, Constants
  <2> QED
    BY <2>1, <2>2, <2>3, CallKeepsInv
<1> QED
  BY <1>1, <1>2, <1>3

(* The steps of sleep_ticks after the first load. *)
LEMMA SpinKeepsInv == TimerInv /\ Spin => TimerInv'
<1> SUFFICES ASSUME TimerInv, Spin PROVE TimerInv'
  OBVIOUS
<1> DEFINE ww == WordSize * WordSize
           h == tick \div WordSize
           word == Word(lo, h)
<1>1. /\ WordSize \in Nat \ {0} /\ tick \in Nat /\ start \in Nat /\ lo \in Nat
      /\ end \in Nat /\ asked \in Nat /\ start <= tick
      /\ ww \in Nat /\ tick < ww /\ end < ww /\ lo < WordSize /\ WordSize <= ww
  BY Constants DEF TimerInv, TypeOK, Sleeping
<1>2. OneAtATime' /\ TicksToCome'
  BY DEF TimerInv, OneAtATime, TicksToCome, Spin, EndHi, LoopLo, LoopHi, pic
<1>3. h \in Nat
  BY <1>1, TwoWords
<1>4. /\ WordSize * h + lo \in Nat
      /\ word \in 0 .. (ww - 1)
      /\ WordSize * h + lo < ww => word = WordSize * h + lo
  BY <1>1, <1>3, WordFits
<1>5. CASE EndHi
  <2> DEFINE e == (word + end) % ww
  <2>1. /\ pc = "end_hi" /\ pc' = "loop_lo" /\ end' = e
        /\ UNCHANGED <<irr, isr, slave, IFlag, running, tick, lo, start, asked, wrapped, torn>>
    BY <1>5 DEF EndHi, pic
  <2>2. word + end \in Nat /\ ww \in Nat \ {0}
    BY <1>1, <1>4
  <2> HIDE DEF word, ww
  <2>3. e \in 0 .. (ww - 1) /\ (word + end < ww => e = word + end)
    BY <2>2
  <2> HIDE DEF e
  <2>4. TypeOK'
    BY <2>1, <2>3 DEF TimerInv, TypeOK, ww
  <2>5. ASSUME ~torn, Fits PROVE e = start + asked
    <3>1. lo = start % WordSize /\ h = start \div WordSize /\ end = asked
      BY <2>1, <2>5 DEF TimerInv, Sleeping
    <3>2. start = WordSize * h + lo
      BY <1>1, <3>1, TwoWords
    <3> HIDE DEF h
    <3>3. word = start
      BY <1>1, <1>4, <3>2
    <3> QED
      BY <2>3, <2>5, <3>1, <3>3 DEF Fits, ww
  <2>6. Sleeping'
    BY <1>1, <2>1, <2>5 DEF Sleeping, Fits
  <2> QED
    BY <1>2, <2>4, <2>6 DEF TimerInv
<1>6. CASE LoopLo
  <2> DEFINE l == tick % WordSize
  <2>1. /\ pc = "loop_lo" /\ pc' = "loop_hi" /\ lo' = l
        /\ UNCHANGED <<irr, isr, slave, IFlag, running, tick, end, start, asked, wrapped, torn>>
    BY <1>6 DEF LoopLo, pic
  <2>2. l \in 0 .. (WordSize - 1) /\ tick = WordSize * h + l
    BY <1>1, TwoWords
  <2>3. tick' \div WordSize = h
    BY <2>1
  <2> HIDE DEF l, h
  <2>4. TypeOK'
    BY <2>1, <2>2 DEF TimerInv, TypeOK
  <2>5. WordSize * h + l <= tick
    BY <1>1, <2>2
  <2>6. Sleeping'
    BY <1>1, <2>1, <2>3, <2>5 DEF TimerInv, Sleeping, Fits
  <2> QED
    BY <1>2, <2>4, <2>6 DEF TimerInv
<1>7. CASE LoopHi
  <2>1. /\ pc = "loop_hi" /\ pc' \in {"loop_lo", "back"}
        /\ pc' = "back" => ~ (word < end)
        /\ UNCHANGED <<irr, isr, slave, IFlag, running, tick, lo, end, start, asked, wrapped, torn>>
    BY <1>7 DEF LoopHi, pic
  <2>2. TypeOK'
    BY <2>1 DEF TimerInv, TypeOK
  <2>3. ~torn => WordSize * h + lo <= tick
    BY <2>1 DEF TimerInv, Sleeping
  <2>4. ~torn /\ Fits => end = start + asked
    BY <2>1 DEF TimerInv, Sleeping
  <2> HIDE DEF word, h, ww
  <2>5. ASSUME ~torn, Fits, pc' = "back" PROVE start + asked <= tick
    BY <1>1, <1>4, <2>1, <2>3, <2>4, <2>5
  <2>6. Sleeping'
    BY <1>1, <2>1, <2>4, <2>5 DEF Sleeping, Fits
  <2> QED
    BY <1>2, <2>2, <2>6 DEF TimerInv
<1> QED
  BY <1>5, <1>6, <1>7 DEF Spin

(* sti at the end of the boot code. *)
LEMMA EnableKeepsInv == TimerInv /\ enable_interrupts => TimerInv'
<1> SUFFICES ASSUME TimerInv, enable_interrupts PROVE TimerInv'
  OBVIOUS
<1>1. TypeOK' /\ OneAtATime' /\ TicksToCome'
  BY DEF TimerInv, TypeOK, OneAtATime, TicksToCome, enable_interrupts, pic
<1>2. Sleeping'
  BY DEF TimerInv, Sleeping, Fits, enable_interrupts, pic
<1> QED
  BY <1>1, <1>2 DEF TimerInv

-----------------------------------------------------------------------------
(* The invariant holds in every behaviour of the timer, its handlers and the *)
(* code they interrupt.                                                      *)
THEOREM TimerInvariant == Spec => []TimerInv
<1>1. Init => TimerInv
  <2> SUFFICES ASSUME Init PROVE TimerInv
    OBVIOUS
  <2>1. /\ 0 \in 0 .. (WordSize - 1) /\ 0 \in 0 .. (WordSize * WordSize - 1)
        /\ 0 \in 0 .. (MaxTick + 1)
    BY Constants
  <2>2. slave \in [req : BOOLEAN, svc : BOOLEAN]
    BY DEF Init
  <2>3. TypeOK
    BY <2>1, <2>2 DEF Init, TypeOK
  <2>4. OneAtATime /\ TicksToCome
    BY Constants DEF Init, OneAtATime, TicksToCome
  <2>5. Sleeping
    BY DEF Init, Sleeping, Fits
  <2> QED
    BY <2>3, <2>4, <2>5 DEF TimerInv
<1>2. TimerInv /\ [Next]_vars => TimerInv'
  <2> SUFFICES ASSUME TimerInv, [Next]_vars PROVE TimerInv'
    OBVIOUS
  <2>1. CASE UNCHANGED vars
    BY <2>1 DEF vars, TimerInv, TypeOK, OneAtATime, TicksToCome, Sleeping, Fits
  <2> QED
    BY <2>1, RequestsKeepInv, HandlersKeepInv, EnableKeepsInv, CallsKeepInv, SpinKeepsInv
       DEF Next
<1> QED
  BY <1>1, <1>2, PTL DEF Spec

(* tick, the locals of sleep_ticks and the controllers keep their types:     *)
(* tick stays a number of two words and end never leaves them.               *)
THEOREM TimerTyping == Spec => []TypeOK
<1>1. TimerInv => TypeOK
  BY DEF TimerInv
<1> QED
  BY <1>1, TimerInvariant, PTL

(* Whatever interrupts sleep_ticks and whenever, it returns too soon only    *)
(* for one of three reasons: a carry between two loads of tick, a product of *)
(* sleep that left the word, an end that left the two words.                 *)
THEOREM EarlyWakes == Spec => []EarlyWakeExplained
<1>1. TimerInv => EarlyWakeExplained
  <2> SUFFICES ASSUME TimerInv PROVE EarlyWakeExplained
    OBVIOUS
  <2>1. /\ start \in Nat /\ asked \in Nat /\ tick \in Nat
        /\ WordSize \in Nat /\ WordSize * WordSize \in Nat
    BY Constants DEF TimerInv, TypeOK
  <2> QED
    BY <2>1 DEF TimerInv, Sleeping, Fits, EarlyWakeExplained
<1> QED
  BY <1>1, TimerInvariant, PTL

(* Every handler of isr.asm gives the master controller its line back.       *)
THEOREM ServiceEnded == Spec => []NothingLeftInService
<1>1. TimerInv => NothingLeftInService
  BY DEF TimerInv, OneAtATime, NothingLeftInService
<1> QED
  BY <1>1, TimerInvariant, PTL
=============================================================================
