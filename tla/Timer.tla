------------------------------- MODULE Timer -------------------------------
(***************************************************************************)
(* Time in the kernel: the tick interrupt, the system calls sleep, beep    *)
(* and shutdown, and the hlt they wait in.  hlt is entered through sti, so *)
(* from the first hlt on the system call runs with interrupts enabled and  *)
(* a tick can come between the test of the loop and the next hlt.          *)
(*                                                                         *)
(* Real time is explicit.  The PIT gives one edge every PERIOD units (of   *)
(* 11 milliseconds for 5 in 55); the tick is counted only when the         *)
(* processor takes the interrupt.  Kernel statements take no time of their *)
(* own but time may pass between any two of them, less than one period.    *)
(***************************************************************************)
EXTENDS Integers

CONSTANTS Durations,        \* arguments of sleep and beep, in milliseconds
          PERIOD,           \* time units between two edges of the PIT
          INT_SPAN,         \* values of a C int
          LONG_SPAN,        \* values of a uint64_t
          TickLimit,        \* bound of the model: the PIT stops after that many edges
          TimeLimit         \* bound of the model: `elapsed' is not counted further

HZ == 18

ASSUME DurationsAssumption == Durations \subseteq Nat
ASSUME PeriodAssumption == PERIOD \in Nat \ {0}
ASSUME SpanAssumption == INT_SPAN \in Nat \ {0} /\ LONG_SPAN \in Nat /\ INT_SPAN <= LONG_SPAN
ASSUME LimitAssumption == TickLimit \in Nat /\ TimeLimit \in Nat

VARIABLES pc,               \* where the processor is
          intr,             \* RFLAGS.IF
          savedIntr,        \* RFLAGS.IF in the frame of the system call
          irq0,             \* an edge of the PIT latched in the PIC
          ticks,
          call, duration,   \* the system call in progress and its argument
          target,           \* local variable of syscall_sleep
          speaker,          \* bits 0 and 1 of port 0x61: 3 connects the PIT to the speaker
          phase,            \* time units since the last edge
          elapsed,          \* time units since the system call was made
          lag               \* no statement has run since the last edge

vars == <<pc, intr, savedIntr, irq0, ticks, call, duration, target, speaker,
          phase, elapsed, lag>>
callVars == <<call, duration, target>>

Waiting == {"halted", "dead_halted"}
Locations == Waiting \cup {"user", "off", "play", "start", "test", "hlt", "stop", "iretq",
                            "outw", "cli", "dead"}

Init ==
  /\ pc = "user" /\ intr = 1 /\ savedIntr = 1 /\ irq0 = 0
  /\ ticks = 0 /\ phase = 0 /\ elapsed = 0 /\ lag = FALSE
  /\ call = "none" /\ duration = 0 /\ target = 0
  /\ speaker = 0

-----------------------------------------------------------------------------
(* The hardware.                                                           *)

Edge == phase = PERIOD - 1

\* A tick the processor takes before its next instruction.
TickDue == irq0 = 1 /\ intr = 1

\* A PIT edge sets the request latch.  The next one comes only after the
\* processor has moved on: no statement takes as long as a period.
TimePasses ==
  /\ Edge => ~lag /\ ~TickDue
  /\ phase' = (phase + 1) % PERIOD
  /\ elapsed' = IF elapsed < TimeLimit THEN elapsed + 1 ELSE elapsed
  /\ IF Edge /\ ticks + irq0 < TickLimit
       THEN irq0' = 1 /\ lag' = (pc \notin {"user", "off"})
       ELSE UNCHANGED <<irq0, lag>>
  /\ UNCHANGED <<pc, intr, savedIntr, ticks, callVars, speaker>>

AfterSleep == IF call = "beep" THEN "stop" ELSE "iretq"

\* hlt ends with the interrupt; the instruction after it is the next test.
Woken_Bug == CASE pc = "halted" -> AfterSleep      \* `if' in place of `while'
               [] pc = "dead_halted" -> "dead"
               [] OTHER -> pc

Woken == CASE pc = "halted" -> "test"
           [] pc = "dead_halted" -> "dead"
           [] OTHER -> pc

\* IRQ0: _irq00Handler, irqDispatcher, timer_handler.
Irq0 ==
  /\ TickDue
  /\ irq0' = 0
  /\ ticks' = (ticks + 1) % LONG_SPAN
  /\ pc' = Woken
  /\ UNCHANGED <<intr, savedIntr, callVars, speaker, phase, elapsed, lag>>

\* IRQ1, of lower priority, ends a hlt as well; the rest of it is in InputPath.
Irq1 ==
  /\ intr = 1 /\ ~TickDue /\ pc \in Waiting
  /\ pc' = Woken
  /\ UNCHANGED <<intr, savedIntr, irq0, ticks, callVars, speaker, phase, elapsed, lag>>

-----------------------------------------------------------------------------
(* The system calls, one action per statement that another actor can see.  *)

\* The int that ticks_elapsed returns, widened to the uint64_t it is compared as.
ticks_elapsed ==
  LET t == ticks % INT_SPAN
  IN  IF 2 * t < INT_SPAN THEN t ELSE LONG_SPAN - INT_SPAN + t

wait_tics(d) == (d * HZ + 999) \div 1000

Step(from, to) == ~TickDue /\ pc = from /\ pc' = to /\ lag' = FALSE

\* int 0x80 with c in rax, through an interrupt gate.
Syscall(c, d, entry) ==
  /\ Step("user", entry)
  /\ call' = c /\ duration' = d /\ elapsed' = 0
  /\ savedIntr' = intr /\ intr' = 0
  /\ UNCHANGED <<irq0, ticks, target, speaker, phase>>

\* The bound TickLimit leaves room for the call to finish.
Call ==
  /\ \/ \E d \in Durations :
          /\ ticks + irq0 + wait_tics(d) + 2 <= TickLimit
          /\ Syscall("sleep", d, "start") \/ Syscall("beep", d, "play")
     \/ Syscall("shutdown", 0, "outw")

AudioPlay_Bug ==                       \* + in place of |
  /\ Step("play", "start")
  /\ \E tmp \in 0 .. 3 : speaker' = IF tmp # 3 THEN tmp + 3 ELSE speaker
  /\ UNCHANGED <<intr, savedIntr, irq0, ticks, callVars, phase, elapsed>>

\* audio_play.  inb leaves its argument out of DX, so tmp is what the port of
\* the last outb gives: the counter of the PIT, any bits.
AudioPlay ==
  /\ Step("play", "start")
  /\ \E tmp \in 0 .. 3 : speaker' = IF tmp # 3 THEN 3 ELSE speaker
  /\ UNCHANGED <<intr, savedIntr, irq0, ticks, callVars, phase, elapsed>>

SleepStart ==
  /\ Step("start", "test")
  /\ target' = (ticks_elapsed + wait_tics(duration)) % LONG_SPAN
  /\ UNCHANGED <<intr, savedIntr, irq0, ticks, call, duration, speaker, phase, elapsed>>

SleepTest_Bug ==                       \* <= in place of <
  /\ Step("test", IF ticks_elapsed <= target THEN "hlt" ELSE AfterSleep)
  /\ UNCHANGED <<intr, savedIntr, irq0, ticks, callVars, speaker, phase, elapsed>>

SleepTest ==
  /\ Step("test", IF ticks_elapsed < target THEN "hlt" ELSE AfterSleep)
  /\ UNCHANGED <<intr, savedIntr, irq0, ticks, callVars, speaker, phase, elapsed>>

\* _hlt: sti; hlt; ret.  sti takes effect after the hlt.
Hlt_Bug ==                             \* hlt without sti
  /\ Step("hlt", "halted") \/ Step("dead", "dead_halted")
  /\ UNCHANGED <<intr, savedIntr, irq0, ticks, callVars, speaker, phase, elapsed>>

Hlt ==
  /\ Step("hlt", "halted") \/ Step("dead", "dead_halted")
  /\ intr' = 1
  /\ UNCHANGED <<savedIntr, irq0, ticks, callVars, speaker, phase, elapsed>>

\* audio_stop.  Whatever port inb reads, & 0xFC clears the two bits.
AudioStop_Bug ==                       \* the mask of the wrong bits
  /\ Step("stop", "iretq")
  /\ speaker' = IF speaker = 3 THEN 3 ELSE 0
  /\ UNCHANGED <<intr, savedIntr, irq0, ticks, callVars, phase, elapsed>>

AudioStop ==
  /\ Step("stop", "iretq")
  /\ speaker' = 0
  /\ UNCHANGED <<intr, savedIntr, irq0, ticks, callVars, phase, elapsed>>

Iretq ==
  /\ Step("iretq", "user")
  /\ intr' = savedIntr /\ call' = "none"
  /\ UNCHANGED <<savedIntr, irq0, ticks, duration, target, speaker, phase, elapsed>>

\* The write to port 0x604 turns an emulator off and does nothing elsewhere.
Outw ==
  /\ Step("outw", "off") \/ Step("outw", "cli")
  /\ UNCHANGED <<intr, savedIntr, irq0, ticks, callVars, speaker, phase, elapsed>>

Cli ==
  /\ Step("cli", "dead")
  /\ intr' = 0
  /\ UNCHANGED <<savedIntr, irq0, ticks, callVars, speaker, phase, elapsed>>

Kernel == AudioPlay \/ SleepStart \/ SleepTest \/ Hlt \/ AudioStop \/ Iretq \/ Outw \/ Cli

Next == TimePasses \/ Irq0 \/ Irq1 \/ Call \/ Kernel

Spec == Init /\ [][Next]_vars

\* Time goes on, statements are executed, a tick that is due is taken.  Keys
\* need not be pressed, calls need not be made.
FairSpec == Spec /\ WF_vars(TimePasses) /\ WF_vars(Kernel) /\ WF_vars(Irq0)

-----------------------------------------------------------------------------
(* Properties.                                                             *)

\* The variables have the ranges their declarations intend.
TypeOK ==
  /\ pc \in Locations
  /\ {intr, savedIntr, irq0} \subseteq {0, 1}
  /\ ticks \in 0 .. LONG_SPAN - 1 /\ target \in 0 .. LONG_SPAN - 1
  /\ call \in {"none", "sleep", "beep", "shutdown"} /\ duration \in Durations \cup {0}
  /\ speaker \in 0 .. 3
  /\ phase \in 0 .. PERIOD - 1 /\ elapsed \in 0 .. TimeLimit /\ lag \in BOOLEAN

Returning == pc = "iretq" /\ call \in {"sleep", "beep"}

\* A sleep of w ticks lasts at least w - 1 periods of real time, counted from
\* the call: neither a key that ends a hlt, nor an edge latched while interrupts
\* are off, nor the race of the test with hlt makes it return earlier.
SleepLasts ==
  Returning => elapsed >= (wait_tics(duration) - 1) * PERIOD

\* The speaker is connected only while a beep is in progress.
SpeakerOnlyInBeep == speaker = 3 => call = "beep"

\* The race of the test with hlt costs a sleeper at most one tick: the loop
\* tests again before two ticks have been counted after the awaited one.
WakesInTime == pc = "test" => ticks_elapsed <= target + 1

\* A sleep or a beep returns, although its wake-up can come between the test
\* and the hlt.
SleepReturns == call \in {"sleep", "beep"} ~> pc = "user"
=============================================================================
