----------------------------- MODULE InputPath -----------------------------
(***************************************************************************)
(* The input path of the kernel on its single processor: the program in    *)
(* user mode, the statements of the system calls read, get_regs and sleep, *)
(* and the keyboard interrupt that can come between any two of them while  *)
(* the interrupt flag is set.  What keeps the buffer and the snapshot in   *)
(* one piece is that the gate of int 0x80 is an interrupt gate; nothing in *)
(* the driver or the system calls takes a lock.                            *)
(*                                                                         *)
(* buffer.size-- is a load and a store: the kernel is built without        *)
(* optimisation.  The timer appears only as one more wake-up of hlt; how   *)
(* long sleep lasts is the subject of Timer.                               *)
(***************************************************************************)
EXTENDS KeyboardDriver

CONSTANTS Counts,           \* values of count a program passes to read
          UserContexts,     \* register contents of the running program
          StartContext,     \* those it has when userland is entered
          KernelContext,    \* those seen when kernel code is interrupted
          NoContext,        \* the zeroes of a snapshot never taken
          REGISTERS_CANT    \* registers in a snapshot

Contexts == UserContexts \cup {KernelContext, NoContext}
Regs == 0 .. REGISTERS_CANT - 1

ASSUME CountsAssumption == Counts \subseteq Nat
ASSUME ContextAssumption == StartContext \in UserContexts
ASSUME RegsAssumption == REGISTERS_CANT \in Nat \ {0}

VARIABLES pc,               \* where the processor is
          intr,             \* RFLAGS.IF
          savedIntr,        \* RFLAGS.IF in the frame of the system call
          ctx,              \* registers of the program
          count, dest,      \* syscall_read: its argument and what it stored
          tmp,              \* buffer.size, loaded and not stored yet
          snapshot_buffer,
          i, regs           \* syscall_get_regs: its counter and its destination

kernelVars == <<count, dest, tmp, i, regs>>
cpuVars == <<pc, intr, savedIntr, ctx>>
vars == <<held, port, activeShift, activeCapsLock, activeCtrl, key_states,
          buffer, readIndex, writeIndex, size, do_snapshot, got, pushed,
          pc, intr, savedIntr, ctx, count, dest, tmp, snapshot_buffer, i, regs>>

driverVars == <<held, port, activeShift, activeCapsLock, activeCtrl, key_states,
                do_snapshot, pushed, buffer, writeIndex>>
popVars == <<readIndex, size, got>>

\* Where a pop is between its test of size and its update of it.
PopSteps == {"take", "advance", "load", "store"}
ReadSteps == PopSteps \cup {"read", "append"}
Locations == ReadSteps \cup {"user", "regs", "sleep", "halted", "iretq"}

Init ==
  /\ KbdInit
  /\ pc = "user" /\ intr = 1 /\ savedIntr = 1 /\ ctx = StartContext
  /\ count = 0 /\ dest = <<>> /\ tmp = 0
  /\ snapshot_buffer = [r \in Regs |-> NoContext]          \* .bss
  /\ i = 0 /\ regs = [r \in Regs |-> NoContext]

-----------------------------------------------------------------------------
(* The program.                                                            *)

Compute ==
  /\ pc = "user"
  /\ ctx' \in UserContexts \ {ctx}
  /\ UNCHANGED <<driverVars, popVars, pc, intr, savedIntr, snapshot_buffer, kernelVars>>

\* Division by zero or invalid opcode in the program: the handler prints the
\* registers and returns to the start of userland with the flags of the frame.
\* The keyboard driver and the snapshot keep what they have.
Exception ==
  /\ pc = "user"
  /\ ctx' = StartContext /\ dest' = <<>>
  /\ UNCHANGED <<driverVars, popVars, pc, intr, savedIntr, snapshot_buffer,
                 count, tmp, i, regs>>

-----------------------------------------------------------------------------
(* System calls: int 0x80 through an interrupt gate, iretq at the end.     *)

Int80_Bug(entry) ==                    \* a trap gate: the flag stays set
  /\ pc = "user" /\ pc' = entry
  /\ savedIntr' = intr /\ intr' = intr
  /\ UNCHANGED <<driverVars, popVars, ctx, snapshot_buffer>>

Int80(entry) ==
  /\ pc = "user" /\ pc' = entry
  /\ savedIntr' = intr /\ intr' = 0
  /\ UNCHANGED <<driverVars, popVars, ctx, snapshot_buffer>>

CallRead(n) ==
  /\ Int80(IF n = 0 THEN "iretq" ELSE "read")
  /\ count' = n /\ dest' = <<>>
  /\ UNCHANGED <<tmp, i, regs>>

CallGetRegs ==
  /\ Int80("regs")
  /\ i' = 0
  /\ UNCHANGED <<count, dest, tmp, regs>>

CallSleep == Int80("sleep") /\ UNCHANGED kernelVars

Iretq_Bug ==                           \* ret in place of iretq
  /\ pc = "iretq" /\ pc' = "user"
  /\ UNCHANGED <<driverVars, popVars, intr, savedIntr, ctx, snapshot_buffer, kernelVars>>

Iretq ==
  /\ pc = "iretq" /\ pc' = "user"
  /\ intr' = savedIntr
  /\ UNCHANGED <<driverVars, popVars, savedIntr, ctx, snapshot_buffer, kernelVars>>

ReadTest_Bug ==                        \* waits for a character: a blocking read
  /\ pc = "read"
  /\ pc' = IF Len(dest) = count THEN "iretq" ELSE IF buffer_empty THEN "read" ELSE "take"
  /\ UNCHANGED <<driverVars, popVars, intr, savedIntr, ctx, snapshot_buffer, kernelVars>>

ReadTest_NoTest ==                     \* the test of buffer_empty left out
  /\ pc = "read"
  /\ pc' = IF Len(dest) < count THEN "take" ELSE "iretq"
  /\ UNCHANGED <<driverVars, popVars, intr, savedIntr, ctx, snapshot_buffer, kernelVars>>

\* while (read < count), and the test of buffer_empty in the pop it calls.
ReadTest ==
  /\ pc = "read"
  /\ IF Len(dest) < count
       THEN /\ pc' = IF buffer_empty THEN "iretq" ELSE "take"
            /\ got' = IF buffer_empty THEN 0 ELSE got
       ELSE pc' = "iretq" /\ UNCHANGED got
  /\ UNCHANGED <<driverVars, readIndex, size, intr, savedIntr, ctx, snapshot_buffer,
                 kernelVars>>

PopTake ==
  /\ pc = "take" /\ pc' = "advance"
  /\ got' = buffer[readIndex]
  /\ UNCHANGED <<driverVars, readIndex, size, intr, savedIntr, ctx, snapshot_buffer,
                 kernelVars>>

PopAdvance ==
  /\ pc = "advance" /\ pc' = "load"
  /\ readIndex' = (readIndex + 1) % BUFFER_SIZE
  /\ UNCHANGED <<driverVars, size, got, intr, savedIntr, ctx, snapshot_buffer, kernelVars>>

PopLoad ==
  /\ pc = "load" /\ pc' = "store"
  /\ tmp' = size
  /\ UNCHANGED <<driverVars, popVars, intr, savedIntr, ctx, snapshot_buffer,
                 count, dest, i, regs>>

PopStore ==
  /\ pc = "store" /\ pc' = "append"
  /\ size' = tmp - 1
  /\ UNCHANGED <<driverVars, readIndex, got, intr, savedIntr, ctx, snapshot_buffer,
                 kernelVars>>

ReadAppend_Bug ==                      \* no break at the newline
  /\ pc = "append" /\ pc' = "read"
  /\ dest' = Append(dest, got)
  /\ UNCHANGED <<driverVars, popVars, intr, savedIntr, ctx, snapshot_buffer,
                 count, tmp, i, regs>>

ReadAppend ==
  /\ pc = "append"
  /\ IF got = 0
       THEN pc' = "iretq" /\ UNCHANGED dest
       ELSE dest' = Append(dest, got) /\ pc' = IF got = 10 THEN "iretq" ELSE "read"
  /\ UNCHANGED <<driverVars, popVars, intr, savedIntr, ctx, snapshot_buffer,
                 count, tmp, i, regs>>

GetRegsCopy ==
  /\ pc = "regs"
  /\ IF i < REGISTERS_CANT
       THEN /\ regs' = [regs EXCEPT ![i] = snapshot_buffer[i]]
            /\ i' = i + 1 /\ UNCHANGED pc
       ELSE pc' = "iretq" /\ UNCHANGED <<i, regs>>
  /\ UNCHANGED <<driverVars, popVars, intr, savedIntr, ctx, snapshot_buffer,
                 count, dest, tmp>>

\* sti; hlt as one step: interrupts are recognised only after the hlt.
Hlt ==
  /\ pc = "sleep" /\ pc' = "halted"
  /\ intr' = 1
  /\ UNCHANGED <<driverVars, popVars, savedIntr, ctx, snapshot_buffer, kernelVars>>

\* IRQ0 ends the hlt; its handler only counts the tick.
TimerWake ==
  /\ pc = "halted" /\ intr = 1
  /\ pc' = "sleep"
  /\ UNCHANGED <<driverVars, popVars, intr, savedIntr, ctx, snapshot_buffer, kernelVars>>

SleepDone ==
  /\ pc = "sleep" /\ pc' = "iretq"
  /\ UNCHANGED <<driverVars, popVars, intr, savedIntr, ctx, snapshot_buffer, kernelVars>>

-----------------------------------------------------------------------------
(* IRQ1.  The gate keeps further interrupts out until its iretq.           *)

Interrupted == IF pc = "user" THEN ctx ELSE KernelContext

\* The entry of _irq01Handler: serve the pending request with the registers of
\* the interrupted code, then call the driver, which may request again.
Irq01 ==
  /\ intr = 1 /\ port # <<>>
  /\ snapshot_buffer' = IF do_snapshot = 1 THEN [r \in Regs |-> Interrupted]
                                           ELSE snapshot_buffer
  /\ port' = Tail(port)
  /\ keyboard_interrupt_handler(Head(port), 0)
  /\ pc' = IF pc = "halted" THEN "sleep" ELSE pc
  /\ UNCHANGED <<held, got, intr, savedIntr, ctx, kernelVars>>

Typing ==
  /\ Keyboard
  /\ UNCHANGED <<cpuVars, snapshot_buffer, kernelVars>>

Program == Compute \/ Exception \/ CallGetRegs \/ CallSleep \/ \E n \in Counts : CallRead(n)

Kernel == \/ ReadTest \/ PopTake \/ PopAdvance \/ PopLoad \/ PopStore \/ ReadAppend
          \/ GetRegsCopy \/ Hlt \/ SleepDone \/ Iretq

Next == Typing \/ Irq01 \/ TimerWake \/ Program \/ Kernel

Spec == Init /\ [][Next]_vars

\* The processor executes kernel code, the PIT keeps interrupting, and a
\* pending interrupt is recognised when the flag is set.
FairSpec == Spec /\ WF_vars(Kernel) /\ WF_vars(TimerWake) /\ SF_vars(Irq01)

-----------------------------------------------------------------------------
(* Properties.                                                             *)

\* The variables have the ranges their declarations intend.  That size stays
\* in range already needs the pop not to be interrupted.
TypeOK ==
  /\ KbdTypeOK
  /\ pc \in Locations
  /\ intr \in {0, 1} /\ savedIntr \in {0, 1}
  /\ ctx \in UserContexts
  /\ count \in Nat /\ dest \in Seq(0 .. 127) /\ tmp \in 0 .. BUFFER_SIZE
  /\ snapshot_buffer \in [Regs -> Contexts]
  /\ i \in 0 .. REGISTERS_CANT /\ regs \in [Regs -> Contexts]

\* The three counters of the ring agree: the write position is size slots after
\* the read position, where a pop that has advanced readIndex and not yet
\* stored size counts one less.
RingConsistent ==
  LET n == IF pc \in {"load", "store"} THEN size - 1 ELSE size
  IN  writeIndex = (readIndex + n) % BUFFER_SIZE

\* The ring, popped one statement at a time by a system call while the
\* keyboard interrupt pushes, is the bounded queue: no character is lost,
\* repeated, reordered or refused with room left, none read that was not typed.
PathQueue == INSTANCE KeyQueue
  WITH Capacity <- BUFFER_SIZE, accepted <- pushed,
       queue <- CASE pc = "advance" -> Contents(readIndex + 1, size - 1)
                  [] pc \in {"load", "store"} -> Contents(readIndex, size - 1)
                  [] OTHER -> Contents(readIndex, size)
InputIsQueue == PathQueue!QSpec

\* The registers a program gets from get_regs all come from one interrupted
\* context: a snapshot is never replaced in the middle of the copy.
RegsNotTorn ==
  pc = "iretq" \/ pc = "user" => \A r, s \in Regs : regs[r] = regs[s]

\* The program always runs with interrupts enabled, whatever system call,
\* interrupt or exception brought it there: the keyboard is never dead.
ProgramInterruptible == pc = "user" => intr = 1

\* read returns at most count characters, the newline only as the last one.
OneLinePerRead ==
  pc = "iretq" => /\ Len(dest) <= count
                  /\ \A k \in 1 .. Len(dest) : dest[k] = 10 => k = Len(dest)

\* Keys that keep coming keep being handled: no system call leaves the
\* interrupts disabled for ever.
KeysServed == []<>(port # <<>>) => []<><<Irq01>>_vars

\* read is non-blocking: it returns whatever the keyboard does meanwhile.
ReadReturns == pc \in ReadSteps ~> pc = "user"
=============================================================================
