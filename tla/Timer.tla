-------------------------------- MODULE Timer --------------------------------
(***************************************************************************)
(* The only concurrency of the kernel: interrupt handlers against the code *)
(* they interrupt.  The PIT pulses IRQ 0, the keyboard IRQ 1 and the disk  *)
(* a line of the slave controller; int20_handler counts ticks, and         *)
(* sleep_ticks (time.c) spins on that count.                               *)
(*                                                                         *)
(* tick is a uint64_t on a 32-bit machine.  The build reads its low word   *)
(* and then its high word (build/kernel/time/time.o), and an interrupt may *)
(* come between the two loads.  Handlers run through interrupt gates, with *)
(* interrupts off, so a handler is one step.                               *)
(***************************************************************************)
EXTENDS Integers

CONSTANTS WordSize,     \* 2^32
          TicksPerSec,  \* 100, pit_init's frequency
          MsPerTick,    \* 10
          TickArgs, SecArgs, MsArgs,    \* arguments of sleep_ticks, sleep, sleep_ms
          MaxTick       \* bound: ticks counted in a run

ASSUME WordAssumption == WordSize \in Nat \ {0, 1}
ASSUME RateAssumption == TicksPerSec \in Nat \ {0} /\ MsPerTick \in Nat \ {0}
ASSUME MaxTickAssumption == MaxTick \in Nat /\ MaxTick + 1 < WordSize * WordSize

(* sleep_ticks takes a uint64_t, the other two a uint32_t. *)
ASSUME ArgsAssumption ==
    /\ TickArgs \subseteq 0 .. (WordSize * WordSize - 1)
    /\ SecArgs \cup MsArgs \subseteq 0 .. (WordSize - 1)

PIT == 0
KBD == 1
CASCADE == 2
Lines == {PIT, KBD, CASCADE}

VARIABLES
    irr, isr,       \* master PIC: requested and in-service lines
    slave,          \* slave PIC: its one line requested, in service
    IFlag,          \* the processor accepts interrupts
    running,        \* the line whose handler runs, or -1
    tick,           \* the counter of isr.c
    lo, end, pc,    \* registers and locals of sleep_ticks
    start, asked,   \* history: tick and ticks asked for at the call
    wrapped,        \* history: fewer ticks were passed on than asked for
    torn            \* history: a carry came between two loads of tick

pic   == <<irr, isr, slave>>
sleeper == <<lo, end, pc, start, asked, wrapped>>
vars  == <<irr, isr, slave, IFlag, running, tick, lo, end, pc, start, asked, wrapped, torn>>

-----------------------------------------------------------------------------
(* Devices and controllers. *)

(* Lines are edge triggered: a pulse on a line already requested is lost. *)
Pulse ==
    /\ tick < MaxTick
    /\ irr' = irr \cup {PIT}
    /\ UNCHANGED <<isr, slave, IFlag, running, tick, sleeper, torn>>

Key ==
    /\ irr' = irr \cup {KBD}
    /\ UNCHANGED <<isr, slave, IFlag, running, tick, sleeper, torn>>

(* The slave passes its line on while it is not in service. *)
DiskIrq ==
    /\ slave' = [slave EXCEPT !.req = TRUE]
    /\ irr' = IF slave.svc THEN irr ELSE irr \cup {CASCADE}
    /\ UNCHANGED <<isr, IFlag, running, tick, sleeper, torn>>

(* The processor takes the request of highest priority, through an interrupt *)
(* gate.                                                                     *)
Accept(line) ==
    /\ IFlag /\ line \in irr
    /\ \A l \in Lines : l < line => l \notin irr
    /\ \A l \in Lines : l <= line => l \notin isr
    /\ irr' = irr \ {line}
    /\ isr' = isr \cup {line}
    /\ slave' = IF line = CASCADE THEN [req |-> FALSE, svc |-> TRUE] ELSE slave
    /\ IFlag' = FALSE
    /\ running' = line
    /\ UNCHANGED <<tick, sleeper, torn>>

(* 0x20 to port 0x20: the master ends its in-service line of highest         *)
(* priority; the slave is told nothing.                                      *)
EOI == isr' = {l \in isr : \E h \in isr : h < l}

Iretd == IFlag' = TRUE /\ running' = -1

-----------------------------------------------------------------------------
(* isr.asm and isr.c. *)

(* Mutant: no end of interrupt. *)
Sr20NoEOI ==
    /\ running = PIT
    /\ tick' = tick + 1
    /\ torn' = (torn \/ (pc \in {"end_hi", "loop_hi"} /\ (tick + 1) % WordSize = 0))
    /\ Iretd
    /\ UNCHANGED <<irr, isr, slave, sleeper>>

(* Mutant: only the low word is incremented. *)
Sr20NoCarry ==
    /\ running = PIT
    /\ tick' = IF (tick + 1) % WordSize = 0 THEN tick + 1 - WordSize ELSE tick + 1
    /\ torn' = (torn \/ (pc \in {"end_hi", "loop_hi"} /\ (tick + 1) % WordSize = 0))
    /\ EOI
    /\ Iretd
    /\ UNCHANGED <<irr, slave, sleeper>>

sr20 ==
    /\ running = PIT
    /\ tick' = tick + 1
    /\ torn' = (torn \/ (pc \in {"end_hi", "loop_hi"} /\ (tick + 1) % WordSize = 0))
    /\ EOI
    /\ Iretd
    /\ UNCHANGED <<irr, slave, sleeper>>

(* Mutant: no end of interrupt. *)
Sr21NoEOI ==
    /\ running = KBD
    /\ Iretd
    /\ UNCHANGED <<irr, isr, slave, tick, sleeper, torn>>

sr21 ==
    /\ running = KBD
    /\ EOI
    /\ Iretd
    /\ UNCHANGED <<irr, slave, tick, sleeper, torn>>

isr_x ==
    /\ running = CASCADE
    /\ EOI
    /\ Iretd
    /\ UNCHANGED <<irr, slave, tick, sleeper, torn>>

-----------------------------------------------------------------------------
(* The interrupted code: kernel_main's sti, then calls of time.c. *)

Main == running = -1

enable_interrupts ==
    /\ Main /\ pc = "boot"
    /\ IFlag' = TRUE
    /\ pc' = "back"
    /\ UNCHANGED <<pic, running, tick, lo, end, start, asked, wrapped, torn>>

(* A call of sleep_ticks(n), up to its first load: the low word. *)
Call(n, wanted) ==
    /\ Main /\ pc = "back"
    /\ lo' = tick % WordSize
    /\ end' = n
    /\ pc' = "end_hi"
    /\ start' = tick
    /\ asked' = wanted
    /\ wrapped' = (n # wanted)
    /\ torn' = FALSE
    /\ UNCHANGED <<pic, IFlag, running, tick>>

sleep_ticks == \E n \in TickArgs : Call(n, n)

(* The product is a 32-bit one. *)
sleep == \E s \in SecArgs : Call((s * TicksPerSec) % WordSize, s * TicksPerSec)

(* Less than a tick is taken for one tick; more is rounded down. *)
sleep_ms ==
    \E m \in MsArgs :
        LET n == (IF m < MsPerTick THEN MsPerTick ELSE m) \div MsPerTick
        IN  Call(n, n)

(* The two words of a load put together. *)
Word(l, h) == (h * WordSize + l) % (WordSize * WordSize)

EndHi ==
    /\ Main /\ pc = "end_hi"
    /\ end' = (Word(lo, tick \div WordSize) + end) % (WordSize * WordSize)
    /\ pc' = "loop_lo"
    /\ UNCHANGED <<pic, IFlag, running, tick, lo, start, asked, wrapped, torn>>

LoopLo ==
    /\ Main /\ pc = "loop_lo"
    /\ lo' = tick % WordSize
    /\ pc' = "loop_hi"
    /\ UNCHANGED <<pic, IFlag, running, tick, end, start, asked, wrapped, torn>>

(* Mutant: the loop ends one tick too soon. *)
LoopHiEarly ==
    /\ Main /\ pc = "loop_hi"
    /\ pc' = IF Word(lo, tick \div WordSize) + 1 < end THEN "loop_lo" ELSE "back"
    /\ UNCHANGED <<pic, IFlag, running, tick, lo, end, start, asked, wrapped, torn>>

(* The compare follows the second load. *)
LoopHi ==
    /\ Main /\ pc = "loop_hi"
    /\ pc' = IF Word(lo, tick \div WordSize) < end THEN "loop_lo" ELSE "back"
    /\ UNCHANGED <<pic, IFlag, running, tick, lo, end, start, asked, wrapped, torn>>

-----------------------------------------------------------------------------
Init ==
    /\ irr = {} /\ isr = {}
    /\ slave = [req |-> FALSE, svc |-> FALSE]
    /\ IFlag = FALSE
    /\ running = -1
    /\ tick = 0
    /\ lo = 0 /\ end = 0 /\ pc = "boot"
    /\ start = 0 /\ asked = 0 /\ wrapped = FALSE /\ torn = FALSE

AcceptAny == \E line \in Lines : Accept(line)

Handler == sr20 \/ sr21 \/ isr_x

Spin == EndHi \/ LoopLo \/ LoopHi

Next ==
    \/ Pulse \/ Key \/ DiskIrq
    \/ AcceptAny \/ Handler
    \/ enable_interrupts
    \/ sleep_ticks \/ sleep \/ sleep_ms
    \/ Spin

(* The PIT runs free; a processor takes pending interrupts when it accepts    *)
(* them and goes on with the code in hand otherwise.  Keys and disk           *)
(* interrupts may never come.                                                *)
Fairness ==
    /\ WF_vars(Pulse)
    /\ WF_vars(AcceptAny)
    /\ WF_vars(Handler)
    /\ SF_vars(Spin)

Spec == Init /\ [][Next]_vars /\ Fairness

-----------------------------------------------------------------------------
(* PROPERTIES *)

(* lo is one word, end two; the handler that runs is that of a line in       *)
(* service.                                                                  *)
TypeOK ==
    /\ irr \subseteq Lines /\ isr \subseteq Lines
    /\ slave \in [req : BOOLEAN, svc : BOOLEAN]
    /\ IFlag \in BOOLEAN
    /\ running \in {-1} \cup isr
    /\ tick \in 0 .. (MaxTick + 1)
    /\ lo \in 0 .. (WordSize - 1)
    /\ end \in 0 .. (WordSize * WordSize - 1)
    /\ pc \in {"boot", "back", "end_hi", "loop_lo", "loop_hi"}
    /\ start \in 0 .. (MaxTick + 1)
    /\ asked \in Nat
    /\ wrapped \in BOOLEAN
    /\ torn \in BOOLEAN

(* sleep_ticks returns before the ticks asked for have been counted only     *)
(* when a carry into the high word of tick came between two loads, the       *)
(* product in sleep left the word, or the sum left the two words of end.     *)
EarlyWakeExplained ==
    pc = "back" /\ tick - start < asked =>
        \/ torn
        \/ wrapped
        \/ start + asked >= WordSize * WordSize

(* The handlers of isr.asm leave the master controller with nothing in       *)
(* service when they return, whatever line they served, so no line is        *)
(* blocked; the slave, to which no end of interrupt is sent, blocks nobody   *)
(* but itself.                                                               *)
NothingLeftInService == Main => isr = {}

(* A requested timer interrupt is served, also with the slave's line stuck.  *)
TimerServed == PIT \in irr /\ IFlag ~> PIT \notin irr

(* A sleeper whose end the clock reaches wakes, whatever interrupts it.      *)
Wakes == (pc \in {"loop_lo", "loop_hi"} /\ end <= MaxTick) ~> pc = "back"
=============================================================================
