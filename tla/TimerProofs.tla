----------------------------- MODULE TimerProofs -----------------------------
(***************************************************************************)
(* Proofs about Timer, for every period, set of durations and span of the  *)
(* integers.  How long a sleep lasts is a bound on the real time already   *)
(* gone by, from the edges that have been latched or counted so far; how   *)
(* late it wakes is a bound on the edges still to come before the next     *)
(* test, and that one depends on where the loop is and on whether the      *)
(* processor has run a statement since the last edge (lag).                *)
(***************************************************************************)
EXTENDS Timer, TLAPS

-----------------------------------------------------------------------------
(* Types.                                                                  *)

\* A duration in ticks is a natural number.
LEMMA WaitType ==
  ASSUME NEW d \in Nat
  PROVE  wait_tics(d) \in Nat
BY DEF wait_tics, HZ

\* A counter of n values stays below n.
LEMMA SpanRange ==
  ASSUME NEW a \in Nat, NEW n \in Nat \ {0}
  PROVE  a % n \in 0 .. n - 1
OBVIOUS

LEMMA InitType == Init => TypeOK
<1> SUFFICES ASSUME Init PROVE TypeOK
  OBVIOUS
<1>1. LONG_SPAN \in Nat \ {0} /\ PERIOD \in Nat \ {0} /\ TimeLimit \in Nat
  BY SpanAssumption, PeriodAssumption, LimitAssumption
<1>2. 0 \in 0 .. LONG_SPAN - 1 /\ 0 \in 0 .. PERIOD - 1 /\ 0 \in 0 .. TimeLimit
  BY <1>1
<1>3. pc \in Locations /\ {intr, savedIntr, irq0} \subseteq {0, 1} /\ lag \in BOOLEAN
  BY DEF Init, Locations
<1>4. call \in {"none", "sleep", "beep", "shutdown"} /\ duration \in Durations \cup {0}
      /\ speaker \in 0 .. 3
  BY DEF Init
<1> QED BY <1>2, <1>3, <1>4 DEF Init, TypeOK

\* Only the hardware moves the time, and only a call restarts its count.
LEMMA NextType == TypeOK /\ [Next]_vars => TypeOK'
<1> SUFFICES ASSUME TypeOK, [Next]_vars PROVE TypeOK'
  OBVIOUS
<1> USE DEF callVars, Step
<1>0. LONG_SPAN \in Nat \ {0} /\ PERIOD \in Nat \ {0} /\ TimeLimit \in Nat
  BY SpanAssumption, PeriodAssumption, LimitAssumption
\* What a step leaves alone keeps its type, so a step shows what it changes.
<1>1. SUFFICES
        /\ pc' \in Locations
        /\ intr' \in {0, 1} /\ savedIntr' \in {0, 1} /\ irq0' \in {0, 1}
        /\ ticks' \in 0 .. LONG_SPAN - 1 /\ target' \in 0 .. LONG_SPAN - 1
        /\ call' \in {"none", "sleep", "beep", "shutdown"}
        /\ duration' \in Durations \cup {0}
        /\ speaker' \in 0 .. 3
        /\ phase' \in 0 .. PERIOD - 1 /\ elapsed' \in 0 .. TimeLimit /\ lag' \in BOOLEAN
  BY DEF TypeOK
<1>2. /\ pc \in Locations
      /\ intr \in {0, 1} /\ savedIntr \in {0, 1} /\ irq0 \in {0, 1}
      /\ ticks \in 0 .. LONG_SPAN - 1 /\ target \in 0 .. LONG_SPAN - 1
      /\ call \in {"none", "sleep", "beep", "shutdown"}
      /\ duration \in Durations \cup {0}
      /\ speaker \in 0 .. 3
      /\ phase \in 0 .. PERIOD - 1 /\ elapsed \in 0 .. TimeLimit /\ lag \in BOOLEAN
  BY DEF TypeOK
<1>3. CASE TimePasses
  <2>1. phase' \in 0 .. PERIOD - 1
    <3>1. phase + 1 \in Nat /\ phase' = (phase + 1) % PERIOD
      BY <1>0, <1>2, <1>3 DEF TimePasses
    <3> QED BY <1>0, <3>1, SpanRange
  <2>2. elapsed' \in 0 .. TimeLimit
    BY <1>0, <1>2, <1>3 DEF TimePasses
  <2>3. irq0' \in {0, 1} /\ lag' \in BOOLEAN
    BY <1>2, <1>3 DEF TimePasses
  <2>4. UNCHANGED <<pc, intr, savedIntr, ticks, call, duration, target, speaker>>
    BY <1>3 DEF TimePasses
  <2> QED BY <1>2, <2>1, <2>2, <2>3, <2>4
<1>4. CASE Irq0
  <2>1. ticks + 1 \in Nat /\ ticks' = (ticks + 1) % LONG_SPAN
    BY <1>0, <1>2, <1>4 DEF Irq0
  <2>2. ticks' \in 0 .. LONG_SPAN - 1
    BY <1>0, <2>1, SpanRange
  <2>3. pc' \in Locations /\ irq0' = 0
        /\ UNCHANGED <<intr, savedIntr, call, duration, target, speaker, phase, elapsed, lag>>
    BY <1>2, <1>4 DEF Irq0, Woken, Locations, Waiting
  <2> QED BY <1>2, <2>2, <2>3
<1>5. CASE Irq1
  <2>1. pc' \in Locations
    BY <1>2, <1>5 DEF Irq1, Woken, Locations, Waiting
  <2> QED BY <1>2, <1>5, <2>1 DEF Irq1
<1>6. CASE Call
  <2>1. pc' \in Locations /\ duration' \in Durations \cup {0}
        /\ call' \in {"none", "sleep", "beep", "shutdown"}
    BY <1>6 DEF Call, Syscall, Locations
  <2>2. elapsed' = 0 /\ intr' = 0 /\ savedIntr' = intr /\ lag' = FALSE
        /\ UNCHANGED <<irq0, ticks, target, speaker, phase>>
    BY <1>6 DEF Call, Syscall
  <2>3. elapsed' \in 0 .. TimeLimit
    BY <1>0, <2>2
  <2> QED BY <1>2, <2>1, <2>2, <2>3
<1>7. CASE AudioPlay
  <2>1. pc' \in Locations /\ speaker' \in 0 .. 3 /\ lag' = FALSE
    BY <1>2, <1>7 DEF AudioPlay, Locations
  <2> QED BY <1>2, <1>7, <2>1 DEF AudioPlay
<1>8. CASE SleepStart
  <2>1. duration \in Nat
    BY <1>2, DurationsAssumption
  <2>2. wait_tics(duration) \in Nat
    BY <2>1, WaitType
  <2>3. ticks_elapsed \in Nat
    <3>1. ticks \in Nat /\ INT_SPAN \in Nat \ {0} /\ LONG_SPAN - INT_SPAN \in Nat
      BY <1>0, <1>2, SpanAssumption
    <3>2. ticks % INT_SPAN \in 0 .. INT_SPAN - 1
      BY <3>1, SpanRange
    <3> QED BY <3>1, <3>2 DEF ticks_elapsed
  <2>4. target' \in 0 .. LONG_SPAN - 1
    <3>1. ticks_elapsed + wait_tics(duration) \in Nat
      BY <2>2, <2>3
    <3>2. target' = (ticks_elapsed + wait_tics(duration)) % LONG_SPAN
      BY <1>8 DEF SleepStart
    <3> QED BY <1>0, <3>1, <3>2, SpanRange
  <2>5. pc' \in Locations /\ lag' = FALSE
        /\ UNCHANGED <<intr, savedIntr, irq0, ticks, call, duration, speaker, phase, elapsed>>
    BY <1>8 DEF SleepStart, Locations
  <2> QED BY <1>2, <2>4, <2>5
<1>9. CASE SleepTest \/ Hlt \/ AudioStop \/ Iretq \/ Outw \/ Cli
  <2>1. pc' \in Locations /\ intr' \in {0, 1} /\ speaker' \in 0 .. 3 /\ lag' = FALSE
        /\ call' \in {"none", "sleep", "beep", "shutdown"}
    BY <1>2, <1>9 DEF SleepTest, AfterSleep, Hlt, AudioStop, Iretq, Outw, Cli, Locations, Waiting
  <2>2. UNCHANGED <<savedIntr, irq0, ticks, duration, target, phase, elapsed>>
    BY <1>9 DEF SleepTest, Hlt, AudioStop, Iretq, Outw, Cli
  <2> QED BY <1>2, <2>1, <2>2
<1>10. CASE UNCHANGED vars
  BY <1>2, <1>10 DEF vars
<1> QED BY <1>3, <1>4, <1>5, <1>6, <1>7, <1>8, <1>9, <1>10 DEF Next, Kernel

\* The tick counter and the target stay in 64 bits, the flags in one, the
\* phase inside a period, in every state of the kernel.
THEOREM TypesHold == Spec => []TypeOK
BY InitType, NextType, PTL DEF Spec

-----------------------------------------------------------------------------
(* The speaker.                                                            *)

\* Between audio_play and audio_stop there is only the sleep of the same beep.
SpeakerInv ==
  /\ pc \in {"play", "stop"} => call = "beep"
  /\ pc \in {"start", "test", "hlt", "halted"} => call \in {"sleep", "beep"}
  /\ speaker \in {0, 3}
  /\ speaker = 3 => call = "beep" /\ pc \in {"start", "test", "hlt", "halted", "stop"}

LEMMA SpeakerNext == TypeOK /\ SpeakerInv /\ [Next]_vars => SpeakerInv'
<1> SUFFICES ASSUME TypeOK, SpeakerInv, [Next]_vars PROVE SpeakerInv'
  OBVIOUS
<1> USE DEF SpeakerInv, callVars, Step
<1>1. CASE TimePasses
  BY <1>1 DEF TimePasses
<1>2. CASE Irq0 \/ Irq1
  BY <1>2 DEF Irq0, Irq1, Woken
<1>3. CASE Call
  BY <1>3 DEF Call, Syscall
<1>4. CASE AudioPlay
  BY <1>4 DEF AudioPlay
<1>5. CASE SleepStart \/ SleepTest
  BY <1>5 DEF SleepStart, SleepTest, AfterSleep
<1>6. CASE Hlt \/ AudioStop \/ Iretq \/ Outw \/ Cli
  BY <1>6 DEF Hlt, AudioStop, Iretq, Outw, Cli
<1>7. CASE UNCHANGED vars
  BY <1>7 DEF vars
<1> QED BY <1>1, <1>2, <1>3, <1>4, <1>5, <1>6, <1>7 DEF Next, Kernel

\* Whatever inb reads in audio_play and audio_stop, the speaker is connected
\* only while a beep is in progress: no call leaves it on.
THEOREM SpeakerSilenced == Spec => []SpeakerOnlyInBeep
<1>1. Init => SpeakerInv
  BY DEF Init, SpeakerInv
<1>2. SpeakerInv => SpeakerOnlyInBeep
  BY DEF SpeakerInv, SpeakerOnlyInBeep
<1> QED BY <1>1, <1>2, SpeakerNext, TypesHold, PTL DEF Spec

-----------------------------------------------------------------------------
(* The race of the test with hlt, and how long a sleep lasts.  Both are    *)
(* about counters that have not wrapped: the edges of a run are fewer than *)
(* the positive values of an int (2^31 ticks are more than three years).   *)

NoWrap == 2 * TickLimit < INT_SPAN

\* Where the flag is set and clear, and what bounds the counters.
CountInv ==
  /\ savedIntr = 1
  /\ pc \in {"user", "halted"} => intr = 1
  /\ pc \in {"play", "start"} => intr = 0 /\ ticks + wait_tics(duration) <= TickLimit
  /\ pc \in {"test", "hlt", "halted"} => target <= TickLimit
  /\ ticks + irq0 <= TickLimit

\* An edge not followed by a statement yet.
late == IF lag THEN 1 ELSE 0

\* The edges counted and latched, where the loop is: before the first hlt the
\* flag is clear and only one can be latched; after it, at most one can come
\* between two statements.
RaceInv ==
  /\ pc = "test" => \/ intr = 0 /\ ticks <= target
                    \/ intr = 1 /\ ticks + irq0 <= target + late
  /\ pc = "hlt" => \/ intr = 0 /\ ticks <= target - 1
                   \/ intr = 1 /\ ticks + irq0 <= target - 1 + late
  /\ pc = "halted" => ticks + irq0 <= target + late

\* Small counters are read as they are.
LEMMA ReadTicks ==
  ASSUME NoWrap, TypeOK, CountInv
  PROVE  ticks_elapsed = ticks /\ ticks \in Nat /\ ticks <= TickLimit /\ TickLimit < LONG_SPAN
<1>1. /\ ticks \in Nat /\ irq0 \in {0, 1} /\ TickLimit \in Nat
      /\ INT_SPAN \in Nat \ {0} /\ LONG_SPAN \in Nat /\ INT_SPAN <= LONG_SPAN
  BY SpanAssumption, LimitAssumption DEF TypeOK
<1>2. ticks + irq0 <= TickLimit /\ 2 * TickLimit < INT_SPAN
  BY DEF CountInv, NoWrap
<1>3. ticks <= TickLimit /\ 2 * ticks < INT_SPAN /\ TickLimit < LONG_SPAN
  BY <1>1, <1>2
<1>4. ticks \in 0 .. INT_SPAN - 1
  BY <1>1, <1>3
<1>5. ticks % INT_SPAN = ticks
  BY <1>1, <1>4
<1> QED BY <1>1, <1>3, <1>5 DEF ticks_elapsed

\* What SleepStart stores.
LEMMA StartTarget ==
  ASSUME NoWrap, TypeOK, CountInv, SleepStart
  PROVE  target' = ticks + wait_tics(duration) /\ wait_tics(duration) \in Nat
         /\ target' <= TickLimit
<1>1. ticks_elapsed = ticks /\ ticks \in Nat /\ TickLimit < LONG_SPAN
  BY ReadTicks
<1>2. wait_tics(duration) \in Nat
  BY WaitType, DurationsAssumption DEF TypeOK
<1>3. ticks + wait_tics(duration) <= TickLimit
  BY DEF CountInv, SleepStart, Step
<1>4. LONG_SPAN \in Nat /\ TickLimit \in Nat
  BY SpanAssumption, LimitAssumption
<1>5. (ticks + wait_tics(duration)) % LONG_SPAN = ticks + wait_tics(duration)
  BY <1>1, <1>2, <1>3, <1>4
<1> QED BY <1>1, <1>2, <1>3, <1>5 DEF SleepStart

\* A tick does not wrap the counter.
LEMMA TickCounts ==
  ASSUME NoWrap, TypeOK, CountInv, Irq0
  PROVE  ticks' = ticks + 1 /\ irq0 = 1 /\ irq0' = 0
<1>1. ticks \in Nat /\ TickLimit < LONG_SPAN
  BY ReadTicks
<1>2. irq0 = 1 /\ irq0' = 0 /\ ticks' = (ticks + 1) % LONG_SPAN
  BY DEF Irq0, TickDue
<1>3. LONG_SPAN \in Nat /\ TickLimit \in Nat /\ ticks + 1 <= TickLimit
  BY <1>1, <1>2, SpanAssumption, LimitAssumption DEF CountInv
<1>4. (ticks + 1) % LONG_SPAN = ticks + 1
  BY <1>1, <1>3
<1> QED BY <1>2, <1>4

LEMMA CountNext == NoWrap /\ TypeOK /\ CountInv /\ [Next]_vars => CountInv'
<1> SUFFICES ASSUME NoWrap, TypeOK, CountInv, [Next]_vars PROVE CountInv'
  OBVIOUS
<1> USE DEF callVars, Step
<1>0. ticks \in Nat /\ irq0 \in {0, 1} /\ TickLimit \in Nat /\ target \in Nat
  BY LimitAssumption DEF TypeOK
<1>1. CASE TimePasses
  <2>1. UNCHANGED <<pc, intr, savedIntr, ticks, duration, target>>
    BY <1>1 DEF TimePasses
  <2>2. ticks' + irq0' <= TickLimit
    BY <1>0, <1>1, <2>1 DEF TimePasses, CountInv
  <2> QED BY <2>1, <2>2 DEF CountInv, wait_tics
<1>2. CASE Irq0
  <2>1. ticks' = ticks + 1 /\ irq0 = 1 /\ irq0' = 0 /\ intr = 1
    BY <1>2, TickCounts DEF Irq0, TickDue
  <2>2. /\ UNCHANGED <<intr, savedIntr, duration, target>>
        /\ pc' = pc \/ (pc = "halted" /\ pc' = "test") \/ pc' = "dead"
    BY <1>2 DEF Irq0, Woken
  <2>3. ticks' + irq0' <= TickLimit
    BY <1>0, <2>1 DEF CountInv
  <2> QED BY <2>1, <2>2, <2>3 DEF CountInv
<1>3. CASE Irq1
  BY <1>3 DEF Irq1, Woken, CountInv, Waiting
<1>4. CASE Call
  <2>1. /\ intr' = 0 /\ savedIntr' = intr /\ pc = "user" /\ pc' \in {"start", "play", "outw"}
        /\ UNCHANGED <<irq0, ticks, target>>
    BY <1>4 DEF Call, Syscall
  <2>2. pc' \in {"start", "play"} => ticks + irq0 + wait_tics(duration') + 2 <= TickLimit
    BY <1>4 DEF Call, Syscall
  <2>3. pc' \in {"start", "play"} => wait_tics(duration') \in Nat
    BY <1>4, WaitType, DurationsAssumption DEF Call, Syscall
  <2>4. pc' \in {"start", "play"} => ticks + wait_tics(duration') <= TickLimit
    BY <1>0, <2>2, <2>3
  <2> QED BY <2>1, <2>4 DEF CountInv, wait_tics
<1>5. CASE SleepStart
  <2>1. target' <= TickLimit /\ pc' = "test" /\ UNCHANGED <<intr, savedIntr, irq0, ticks>>
    BY <1>5, StartTarget DEF SleepStart
  <2> QED BY <2>1 DEF CountInv
<1>6. CASE AudioPlay
  BY <1>6 DEF AudioPlay, CountInv, wait_tics
<1>7. CASE SleepTest
  BY <1>7 DEF SleepTest, AfterSleep, CountInv
<1>8. CASE Hlt \/ AudioStop \/ Iretq \/ Outw \/ Cli
  BY <1>8 DEF Hlt, AudioStop, Iretq, Outw, Cli, CountInv
<1>9. CASE UNCHANGED vars
  BY <1>9 DEF vars, CountInv, wait_tics
<1> QED BY <1>1, <1>2, <1>3, <1>4, <1>5, <1>6, <1>7, <1>8, <1>9 DEF Next, Kernel

LEMMA RaceNext == NoWrap /\ TypeOK /\ CountInv /\ RaceInv /\ [Next]_vars => RaceInv'
<1> SUFFICES ASSUME NoWrap, TypeOK, CountInv, RaceInv, [Next]_vars PROVE RaceInv'
  OBVIOUS
<1> USE DEF callVars, Step, late
<1>0. ticks \in Nat /\ irq0 \in {0, 1} /\ target \in Nat /\ lag \in BOOLEAN /\ intr \in {0, 1}
  BY DEF TypeOK
<1>1. CASE TimePasses
  <2>0. UNCHANGED <<pc, intr, ticks, target>>
    BY <1>1 DEF TimePasses
  <2>1. CASE Edge /\ ticks + irq0 < TickLimit /\ intr = 1 /\ pc \in {"test", "hlt", "halted"}
    <3>1. lag = FALSE /\ irq0 = 0 /\ irq0' = 1 /\ lag' = TRUE
      BY <1>0, <1>1, <2>1 DEF TimePasses, TickDue
    <3> QED BY <1>0, <2>0, <2>1, <3>1 DEF RaceInv
  <2>2. CASE ~(Edge /\ ticks + irq0 < TickLimit)
    <3>1. UNCHANGED <<irq0, lag>>
      BY <1>1, <2>2 DEF TimePasses
    <3> QED BY <2>0, <3>1 DEF RaceInv
  <2>3. CASE intr = 0 \/ pc \notin {"test", "hlt", "halted"}
    <3>1. pc # "halted" \/ intr = 1
      BY DEF CountInv
    <3> QED BY <1>0, <2>0, <2>3, <3>1 DEF RaceInv
  <2> QED BY <1>0, <2>1, <2>2, <2>3
<1>2. CASE Irq0
  <2>1. ticks' = ticks + 1 /\ irq0 = 1 /\ irq0' = 0 /\ intr = 1 /\ UNCHANGED <<intr, target, lag>>
    BY <1>2, TickCounts DEF Irq0, TickDue
  <2>2. ticks' + irq0' = ticks + irq0
    BY <1>0, <2>1
  <2>3. pc' \in {pc, "dead"} \/ (pc = "halted" /\ pc' = "test")
    BY <1>2 DEF Irq0, Woken
  <2> QED BY <1>0, <2>1, <2>2, <2>3 DEF RaceInv
<1>3. CASE Irq1
  BY <1>3 DEF Irq1, Woken, RaceInv, Waiting
<1>4. CASE SleepStart
  <2>1. /\ target' = ticks + wait_tics(duration) /\ wait_tics(duration) \in Nat
        /\ pc' = "test" /\ ticks' = ticks /\ intr' = 0
    BY <1>4, StartTarget DEF SleepStart, CountInv
  <2> QED BY <1>0, <2>1 DEF RaceInv
<1>5. CASE SleepTest
  <2>1. CASE ticks_elapsed < target
    <3>1. /\ ticks < target /\ pc = "test" /\ pc' = "hlt" /\ lag' = FALSE
          /\ UNCHANGED <<intr, irq0, ticks, target>>
      BY <1>5, <2>1, ReadTicks DEF SleepTest
    <3>2. intr = 1 => irq0 = 0
      BY <1>0, <1>5 DEF SleepTest, TickDue
    <3> QED BY <1>0, <3>1, <3>2 DEF RaceInv
  <2>2. CASE ~(ticks_elapsed < target)
    BY <1>5, <2>2 DEF SleepTest, AfterSleep, RaceInv
  <2> QED BY <2>1, <2>2
<1>6. CASE Hlt
  <2>1. CASE pc = "hlt"
    <3>1. pc' = "halted" /\ lag' = FALSE /\ UNCHANGED <<irq0, ticks, target>>
      BY <1>6, <2>1 DEF Hlt
    <3>2. intr = 1 => irq0 = 0
      BY <1>0, <1>6 DEF Hlt, TickDue
    <3> QED BY <1>0, <2>1, <3>1, <3>2 DEF RaceInv
  <2>2. CASE pc # "hlt"
    BY <1>6, <2>2 DEF Hlt, RaceInv
  <2> QED BY <2>1, <2>2
<1>7. CASE Call \/ AudioPlay \/ AudioStop \/ Iretq \/ Outw \/ Cli
  BY <1>7 DEF Call, Syscall, AudioPlay, AudioStop, Iretq, Outw, Cli, RaceInv
<1>8. CASE UNCHANGED vars
  BY <1>8 DEF vars, RaceInv
<1> QED BY <1>1, <1>2, <1>3, <1>4, <1>5, <1>6, <1>7, <1>8 DEF Next, Kernel

\* A tick between the test of syscall_sleep's loop and the hlt costs one more
\* tick and not two: when the loop tests again, at most one has been counted
\* after the one it waits for.
THEOREM RaceBounded ==
  ASSUME NoWrap
  PROVE  Spec => []WakesInTime
<1>1. Init => CountInv /\ RaceInv
  BY LimitAssumption DEF Init, CountInv, RaceInv
<1>2. TypeOK /\ CountInv /\ [Next]_vars => CountInv'
  BY CountNext
<1>3. TypeOK /\ CountInv /\ RaceInv /\ [Next]_vars => RaceInv'
  BY RaceNext
<1>4. TypeOK /\ CountInv /\ RaceInv => WakesInTime
  <2> SUFFICES ASSUME TypeOK, CountInv, RaceInv, pc = "test"
               PROVE  ticks_elapsed <= target + 1
    BY DEF WakesInTime
  <2>1. ticks_elapsed = ticks /\ ticks \in Nat /\ irq0 \in {0, 1} /\ target \in Nat
    BY ReadTicks DEF TypeOK
  <2> QED BY <2>1 DEF RaceInv, late
<1> QED BY <1>1, <1>2, <1>3, <1>4, TypesHold, PTL DEF Spec

\* Real time gone by since the call, when k edges have been counted or latched
\* since then: k - 1 whole periods and the present phase; or more than the
\* model counts.
Gone(k) == elapsed >= (k - 1) * PERIOD + phase + 1 \/ elapsed = TimeLimit

\* Edges since the call: those latched, those counted since target was fixed.
Edges == IF pc \in {"play", "start"} THEN irq0
                                     ELSE ticks + irq0 - target + wait_tics(duration)

Enough == elapsed >= (wait_tics(duration) - 1) * PERIOD

SleepInv ==
  /\ pc \in {"play", "start", "test", "hlt", "halted"} => Gone(Edges)
  /\ pc \in {"stop", "iretq"} => Enough

\* The model counts real time up to the longest of the durations.
Uncapped == \A d \in Durations : (wait_tics(d) - 1) * PERIOD <= TimeLimit

LEMMA DurationType ==
  ASSUME TypeOK
  PROVE  wait_tics(duration) \in Nat
BY WaitType, DurationsAssumption DEF TypeOK

\* Time passes one unit, and one more edge costs the whole period before it.
LEMMA GoneOn ==
  ASSUME TypeOK, TimePasses, NEW k \in Int, NEW l \in Int, Gone(k),
         l = k \/ (l = k + 1 /\ Edge)
  PROVE  Gone(l)'
<1>0. PERIOD \in Nat \ {0} /\ phase \in 0 .. PERIOD - 1 /\ elapsed \in Nat /\ TimeLimit \in Nat
      /\ elapsed <= TimeLimit
  BY PeriodAssumption, LimitAssumption DEF TypeOK
<1>1. elapsed' = IF elapsed < TimeLimit THEN elapsed + 1 ELSE elapsed
  BY DEF TimePasses
<1>2. phase' = (phase + 1) % PERIOD
  BY DEF TimePasses
<1>3. CASE elapsed = TimeLimit
  BY <1>0, <1>1, <1>3 DEF Gone
<1>4. CASE elapsed # TimeLimit /\ ~Edge
  <2>1. phase + 1 \in 0 .. PERIOD - 1 /\ l = k
    BY <1>0, <1>4 DEF Edge
  <2>2. phase' = phase + 1
    BY <1>0, <1>2, <2>1
  <2>3. elapsed' = elapsed + 1
    BY <1>0, <1>1, <1>4
  <2> DEFINE m == (k - 1) * PERIOD
  <2>4. m \in Int /\ elapsed >= m + phase + 1
    BY <1>0, <1>4 DEF Gone
  <2> HIDE DEF m
  <2>5. elapsed' >= m + phase' + 1
    BY <1>0, <2>2, <2>3, <2>4
  <2> QED BY <2>1, <2>5 DEF Gone, m
<1>5. CASE elapsed # TimeLimit /\ Edge
  <2>1. phase + 1 = PERIOD /\ phase' = 0
    BY <1>0, <1>2, <1>5 DEF Edge
  <2>2. elapsed' = elapsed + 1
    BY <1>0, <1>1, <1>5
  <2> DEFINE m == (k - 1) * PERIOD
             n == (l - 1) * PERIOD
  <2>3. m \in Int /\ elapsed >= m + PERIOD
    BY <1>0, <1>5, <2>1 DEF Gone
  <2>4. n \in Int /\ (n = m \/ n = m + PERIOD)
    <3>1. k * PERIOD = (k - 1) * PERIOD + PERIOD
      BY <1>0
    <3>2. l - 1 = k - 1 \/ l - 1 = k
      OBVIOUS
    <3> QED BY <1>0, <3>1, <3>2
  <2> HIDE DEF m, n
  <2>5. elapsed' >= n + phase' + 1
    BY <1>0, <2>1, <2>2, <2>3, <2>4
  <2> QED BY <2>5 DEF Gone, n
<1> QED BY <1>3, <1>4, <1>5

LEMMA SleepNext ==
  NoWrap /\ Uncapped /\ TypeOK /\ CountInv /\ SleepInv /\ [Next]_vars => SleepInv'
<1> SUFFICES ASSUME NoWrap, Uncapped, TypeOK, CountInv, SleepInv, [Next]_vars PROVE SleepInv'
  OBVIOUS
<1> USE DEF callVars, Step
<1> DEFINE Asleep == {"play", "start", "test", "hlt", "halted"}
           w == wait_tics(duration)
<1>0. /\ ticks \in Nat /\ irq0 \in {0, 1} /\ target \in Nat /\ w \in Nat
      /\ PERIOD \in Nat \ {0} /\ phase \in 0 .. PERIOD - 1
      /\ elapsed \in Nat /\ TimeLimit \in Nat
  BY DurationType, PeriodAssumption, LimitAssumption DEF TypeOK
<1>1. CASE UNCHANGED <<phase, elapsed, duration>> /\ Edges' = Edges /\ pc' \in Asleep /\ pc \in Asleep
  BY <1>1 DEF SleepInv, Gone
<1>2. CASE pc' \notin Asleep \cup {"stop", "iretq"}
  BY <1>2 DEF SleepInv
<1>3. CASE TimePasses
  <2>0. UNCHANGED <<pc, ticks, target, duration>> /\ w' = w
    BY <1>3 DEF TimePasses, wait_tics
  <2>1. CASE pc \in Asleep
    <3>1. irq0' = irq0 \/ (irq0' = irq0 + 1 /\ Edge)
      BY <1>0, <1>3 DEF TimePasses
    <3>2. Edges \in Int /\ Edges' \in Int /\ (Edges' = Edges \/ (Edges' = Edges + 1 /\ Edge))
      BY <1>0, <2>0, <3>1 DEF Edges
    <3>3. Gone(Edges)
      BY <2>1 DEF SleepInv
    <3> HIDE DEF Edges
    <3> DEFINE k == Edges
               l == Edges'
    <3> HIDE DEF k, l
    <3>4. ASSUME NEW e \in Int, e = Edges' PROVE Gone(e)'
      BY <1>3, <3>2, <3>3, <3>4, GoneOn
    <3>5. Gone(Edges)'
      BY <3>2, <3>4 DEF Gone
    <3> QED BY <2>0, <2>1, <3>5 DEF SleepInv
  <2>2. CASE pc \in {"stop", "iretq"}
    <3>1. elapsed' >= elapsed
      BY <1>0, <1>3 DEF TimePasses
    <3> DEFINE m == (w - 1) * PERIOD
    <3>2. m \in Int /\ elapsed >= m /\ m' = m
      BY <1>0, <2>0, <2>2 DEF SleepInv, Enough
    <3> HIDE DEF m
    <3>3. elapsed' >= m'
      <4>1. elapsed' \in Nat
        BY <1>0, <1>3 DEF TimePasses
      <4> QED BY <1>0, <3>1, <3>2, <4>1
    <3> QED BY <2>0, <2>2, <3>3 DEF SleepInv, Enough, m
  <2> QED BY <1>2, <2>0, <2>1, <2>2
<1>4. CASE Irq0
  <2>1. ticks' = ticks + 1 /\ irq0 = 1 /\ irq0' = 0 /\ intr = 1
        /\ UNCHANGED <<duration, target, phase, elapsed>> /\ pc' = Woken
    BY <1>4, TickCounts DEF Irq0, TickDue
  <2>2. CASE pc \in Asleep
    <3>1. pc \in {"test", "hlt", "halted"} /\ pc' \in {"test", "hlt", "halted"}
      BY <2>1, <2>2 DEF CountInv, Woken
    <3>2. Edges' = Edges
      BY <1>0, <2>1, <3>1 DEF Edges, wait_tics
    <3> QED BY <1>1, <2>1, <3>1, <3>2
  <2>3. CASE pc \in {"stop", "iretq"}
    BY <2>1, <2>3 DEF SleepInv, Enough, Woken, wait_tics
  <2>4. CASE pc \notin Asleep \cup {"stop", "iretq"}
    BY <1>2, <2>1, <2>4 DEF Woken
  <2> QED BY <2>2, <2>3, <2>4
<1>5. CASE Irq1
  <2>1. UNCHANGED <<irq0, ticks, duration, target, phase, elapsed>>
        /\ ((pc = "halted" /\ pc' = "test") \/ pc' = "dead")
    BY <1>5 DEF Irq1, Woken, Waiting
  <2>2. CASE pc = "halted" /\ pc' = "test"
    <3>1. Edges' = Edges
      BY <2>1, <2>2 DEF Edges, wait_tics
    <3> QED BY <1>1, <2>1, <2>2, <3>1
  <2> QED BY <1>2, <2>1, <2>2
<1>6. CASE Call
  <2>1. /\ irq0 = 0 /\ irq0' = 0 /\ elapsed' = 0 /\ phase' = phase
        /\ pc' \in {"start", "play", "outw"}
    BY <1>0, <1>6 DEF Call, Syscall, TickDue, CountInv
  <2>2. CASE pc' \in {"start", "play"}
    <3>1. Edges' = 0
      BY <2>1, <2>2 DEF Edges
    <3>2. elapsed' >= (0 - 1) * PERIOD + phase' + 1
      BY <1>0, <2>1
    <3> QED BY <2>2, <3>1, <3>2 DEF SleepInv, Gone
  <2> QED BY <1>2, <2>1, <2>2
<1>7. CASE AudioPlay
  <2>1. pc = "play" /\ pc' = "start" /\ UNCHANGED <<irq0, duration, phase, elapsed>>
    BY <1>7 DEF AudioPlay
  <2>2. Edges' = Edges
    BY <2>1 DEF Edges
  <2> QED BY <1>1, <2>1, <2>2
<1>8. CASE SleepStart
  <2>1. pc = "start" /\ pc' = "test" /\ target' = ticks + w
        /\ UNCHANGED <<irq0, ticks, duration, phase, elapsed>>
    BY <1>8, StartTarget DEF SleepStart
  <2>2. Edges' = Edges
    BY <1>0, <2>1 DEF Edges, wait_tics
  <2> QED BY <1>1, <2>1, <2>2
<1>9. CASE SleepTest
  <2>1. pc = "test" /\ UNCHANGED <<irq0, ticks, target, duration, phase, elapsed>>
    BY <1>9 DEF SleepTest
  <2>2. CASE ticks_elapsed < target
    <3>1. pc' = "hlt"
      BY <1>9, <2>2 DEF SleepTest
    <3>2. Edges' = Edges
      BY <2>1, <3>1 DEF Edges, wait_tics
    <3> QED BY <1>1, <2>1, <3>1, <3>2
  <2>3. CASE ~(ticks_elapsed < target)
    <3>1. pc' \in {"stop", "iretq"} /\ ticks >= target
      BY <1>0, <1>9, <2>3, ReadTicks DEF SleepTest, AfterSleep
    <3>2. Edges \in Int /\ Edges >= w /\ Gone(Edges)
      BY <1>0, <2>1, <3>1 DEF Edges, SleepInv
    <3>3. elapsed >= (w - 1) * PERIOD
      <4>1. CASE elapsed = TimeLimit
        <5>1. duration \in Durations \/ duration = 0
          BY DEF TypeOK
        <5>2. CASE duration \in Durations
          BY <4>1, <5>2 DEF Uncapped
        <5>3. CASE duration = 0
          <6>1. w = 0
            BY <5>3 DEF wait_tics, HZ
          <6> QED BY <1>0, <6>1
        <5> QED BY <5>1, <5>2, <5>3
      <4>2. CASE elapsed >= (Edges - 1) * PERIOD + phase + 1
        <5>1. (Edges - 1) * PERIOD >= (w - 1) * PERIOD
          <6>1. \A a, b \in Int : a >= b => a * PERIOD >= b * PERIOD
            BY <1>0
          <6> QED BY <1>0, <3>2, <6>1
        <5> DEFINE m == (w - 1) * PERIOD
                   n == (Edges - 1) * PERIOD
        <5>2. m \in Int /\ n \in Int /\ n >= m /\ elapsed >= n + phase + 1
          BY <1>0, <3>2, <4>2, <5>1
        <5> HIDE DEF m, n
        <5>3. elapsed >= m
          BY <1>0, <5>2
        <5> QED BY <5>3 DEF m
      <4> QED BY <3>2, <4>1, <4>2 DEF Gone
    <3> QED BY <2>1, <3>1, <3>3 DEF SleepInv, Enough, wait_tics
  <2> QED BY <2>2, <2>3
<1>10. CASE Hlt
  <2>1. UNCHANGED <<irq0, ticks, target, duration, phase, elapsed>>
        /\ ((pc = "hlt" /\ pc' = "halted") \/ pc' = "dead_halted")
    BY <1>10 DEF Hlt
  <2>2. CASE pc = "hlt" /\ pc' = "halted"
    <3>1. Edges' = Edges
      BY <2>1, <2>2 DEF Edges, wait_tics
    <3> QED BY <1>1, <2>1, <2>2, <3>1
  <2> QED BY <1>2, <2>1, <2>2
<1>11. CASE AudioStop
  BY <1>11 DEF AudioStop, SleepInv, Enough, wait_tics
<1>12. CASE Iretq \/ Outw \/ Cli
  BY <1>2, <1>12 DEF Iretq, Outw, Cli
<1>13. CASE UNCHANGED vars
  BY <1>13 DEF vars, SleepInv, Gone, Edges, Enough, wait_tics
<1> QED BY <1>3, <1>4, <1>5, <1>6, <1>7, <1>8, <1>9, <1>10, <1>11, <1>12, <1>13
        DEF Next, Kernel

\* A sleep or a beep of w ticks takes at least w - 1 periods of real time, with
\* keys that end the hlt, an edge latched before the first hlt, and the race of
\* the test with the tick.
THEOREM SleepLongEnough ==
  ASSUME NoWrap, Uncapped
  PROVE  Spec => []SleepLasts
<1>1. Init => CountInv /\ SleepInv
  BY LimitAssumption DEF Init, CountInv, SleepInv
<1>2. TypeOK /\ CountInv /\ [Next]_vars => CountInv'
  BY CountNext
<1>3. TypeOK /\ CountInv /\ SleepInv /\ [Next]_vars => SleepInv'
  BY SleepNext
<1>4. SleepInv => SleepLasts
  BY DEF SleepInv, SleepLasts, Returning, Enough
<1> QED BY <1>1, <1>2, <1>3, <1>4, TypesHold, PTL DEF Spec
=============================================================================
