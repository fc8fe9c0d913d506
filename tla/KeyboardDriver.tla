--------------------------- MODULE KeyboardDriver ---------------------------
(***************************************************************************)
(* The PS/2 keyboard driver (Kernel/drivers/keyBoardDriver.c) with the     *)
(* keyboard and its controller around it.  The driver turns scancodes into *)
(* the modifier flags, the key_states array and the characters of a        *)
(* circular buffer.  Here the interrupt handler and the reader are atomic; *)
(* InputPath runs the same handler against the statements of a system call.*)
(***************************************************************************)
EXTENDS Naturals, Sequences

CONSTANTS BUFFER_SIZE,      \* slots of the circular buffer
          scancode_table,   \* character of a scancode: [code][0 plain, 1 shifted]
          Keys,             \* physical keys: [ext |-> sends 0xE0 first, code |-> make code]
          PortSize          \* bytes the keyboard and its controller can hold

SHIFT_L == 42
SHIFT_R == 54
CTRL_L == 29
CAPSLOCK == 58
RELEASE_OFFSET == 128
KEY_COUNT == 84
EXTENDED == 224             \* prefix byte of the extended keys

ASSUME BufferAssumption == BUFFER_SIZE \in Nat \ {0}
ASSUME TableAssumption ==
  scancode_table \in [0 .. KEY_COUNT - 1 -> [0 .. 1 -> 0 .. 127]]
ASSUME KeysAssumption == Keys \subseteq [ext : BOOLEAN, code : 1 .. 95]
ASSUME PortAssumption == PortSize \in Nat

Chars == 1 .. 127

VARIABLES held,             \* keys the user holds down
          port,             \* bytes sent by the keyboard and not read from port 0x60
          activeShift, activeCapsLock, activeCtrl,
          key_states,       \* the indexes i with key_states[i] = 1
          buffer, readIndex, writeIndex, size,   \* the fields of TCircleBuffer
          do_snapshot,      \* 1: the next keyboard interrupt records the registers
          got,              \* result of the last keyboard_read_getchar
          pushed            \* result of the last buffer_push (its caller drops it)

hardware == <<held, port>>
flags == <<activeShift, activeCapsLock, activeCtrl>>
ring == <<buffer, readIndex, writeIndex, size>>
kbdVars == <<held, port, activeShift, activeCapsLock, activeCtrl, key_states,
             buffer, readIndex, writeIndex, size, do_snapshot, got, pushed>>

KbdInit ==
  /\ held = {} /\ port = <<>>
  /\ activeShift = 0 /\ activeCapsLock = 0 /\ activeCtrl = 0
  /\ key_states = {}
  /\ buffer = [i \in 0 .. BUFFER_SIZE - 1 |-> 0]
  /\ readIndex = 0 /\ writeIndex = 0 /\ size = 0
  /\ do_snapshot = 0 /\ got = 0 /\ pushed = 1

-----------------------------------------------------------------------------
(* The keyboard.  A key sends its make code when it is pressed and again   *)
(* while it is held (typematic repeat), the code plus 0x80 on release.     *)

Bytes(k, code) == IF k.ext THEN <<EXTENDED, code>> ELSE <<code>>

Sends(bytes) ==
  /\ Len(port) + Len(bytes) <= PortSize
  /\ port' = port \o bytes

MakeKey(k) ==
  /\ Sends(Bytes(k, k.code))
  /\ held' = held \cup {k}

BreakKey(k) ==
  /\ k \in held
  /\ Sends(Bytes(k, k.code + RELEASE_OFFSET))
  /\ held' = held \ {k}

Keyboard ==
  /\ \E k \in Keys : MakeKey(k) \/ BreakKey(k)
  /\ UNCHANGED <<activeShift, activeCapsLock, activeCtrl, key_states, buffer,
                 readIndex, writeIndex, size, do_snapshot, got, pushed>>

-----------------------------------------------------------------------------
(* keyboard_interrupt_handler and what it calls.  A definition that ends in *)
(* _Bug is a plausible mistake in the next one; no specification uses it,  *)
(* it is there to show that the properties would notice.                   *)

updateFlags_Bug(scancode) ==           \* the release of the right Shift forgotten
  /\ activeCtrl' = CASE scancode = CTRL_L -> 1
                     [] scancode = CTRL_L + RELEASE_OFFSET -> 0
                     [] OTHER -> activeCtrl
  /\ activeShift' = CASE scancode \in {SHIFT_L, SHIFT_R} -> 1
                      [] scancode = SHIFT_L + RELEASE_OFFSET -> 0
                      [] OTHER -> activeShift
  /\ activeCapsLock' = IF scancode = CAPSLOCK THEN 1 - activeCapsLock
                                              ELSE activeCapsLock

updateFlags(scancode) ==
  /\ activeCtrl' = CASE scancode = CTRL_L -> 1
                     [] scancode = CTRL_L + RELEASE_OFFSET -> 0
                     [] OTHER -> activeCtrl
  /\ activeShift' = CASE scancode \in {SHIFT_L, SHIFT_R} -> 1
                      [] scancode \in {SHIFT_L + RELEASE_OFFSET, SHIFT_R + RELEASE_OFFSET} -> 0
                      [] OTHER -> activeShift
  /\ activeCapsLock' = IF scancode = CAPSLOCK THEN 1 - activeCapsLock
                                              ELSE activeCapsLock

\* Scancodes the switch of scToAscii drops: the Esc key, the arrows, Delete,
\* and ESC, which is the character 0x1B and as a scancode the ']' key.
Dropped == {1, 72, 80, 75, 77, 27, 83}

scToAscii(scancode, shift, caps) ==
  IF scancode \in Dropped \/ scancode >= KEY_COUNT THEN 0
  ELSE LET c == scancode_table[scancode][shift]
       IN  IF caps = 1 /\ c \in 97 .. 122 THEN c - 32 ELSE c

buffer_full_Bug == size = BUFFER_SIZE - 1

buffer_full == size = BUFFER_SIZE
buffer_empty == size = 0

buffer_push_Bug(c) ==                  \* writeIndex not wrapped
  IF buffer_full
    THEN pushed' = 0 /\ UNCHANGED ring
    ELSE /\ buffer' = [buffer EXCEPT ![writeIndex] = c]
         /\ writeIndex' = writeIndex + 1
         /\ size' = size + 1
         /\ pushed' = 1
         /\ UNCHANGED readIndex

buffer_push(c) ==
  IF buffer_full
    THEN pushed' = 0 /\ UNCHANGED ring
    ELSE /\ buffer' = [buffer EXCEPT ![writeIndex] = c]
         /\ writeIndex' = (writeIndex + 1) % BUFFER_SIZE
         /\ size' = size + 1
         /\ pushed' = 1
         /\ UNCHANGED readIndex

updateKeyStates_Bug(scancode) ==       \* the release bit not masked out
  key_states' = IF scancode >= RELEASE_OFFSET THEN key_states \ {scancode}
                                              ELSE key_states \cup {scancode}

updateKeyStates(scancode) ==
  key_states' = IF scancode >= RELEASE_OFFSET
                  THEN key_states \ {scancode - RELEASE_OFFSET}
                  ELSE key_states \cup {scancode}

\* `request' is do_snapshot as the assembly entry of the handler leaves it.
keyboard_interrupt_handler(scancode, request) ==
  /\ updateFlags(scancode)
  /\ updateKeyStates(scancode)
  /\ LET cAscii == scToAscii(scancode, activeShift', activeCapsLock')
     IN  IF activeCtrl' = 1 /\ cAscii \in {114, 82}       \* 'r', 'R'
           THEN do_snapshot' = 1 /\ UNCHANGED <<buffer, readIndex, writeIndex, size, pushed>>
           ELSE /\ do_snapshot' = request
                /\ IF cAscii # 0
                     THEN buffer_push(cAscii)
                     ELSE UNCHANGED <<buffer, readIndex, writeIndex, size, pushed>>

\* IRQ1, with the snapshot itself left to InputPath: the entry has served the
\* earlier request, the handler reads the scancode from port 0x60.
Interrupt ==
  /\ port # <<>>
  /\ port' = Tail(port)
  /\ keyboard_interrupt_handler(Head(port), 0)
  /\ UNCHANGED <<held, got>>

buffer_pop ==
  /\ IF buffer_empty
       THEN got' = 0 /\ UNCHANGED <<readIndex, size>>
       ELSE /\ got' = buffer[readIndex]
            /\ readIndex' = (readIndex + 1) % BUFFER_SIZE
            /\ size' = size - 1
  /\ UNCHANGED <<buffer, writeIndex>>

keyboard_read_getchar ==
  /\ buffer_pop
  /\ UNCHANGED <<held, port, activeShift, activeCapsLock, activeCtrl,
                 key_states, do_snapshot, pushed>>

KbdNext == Keyboard \/ Interrupt \/ keyboard_read_getchar

KbdSpec == KbdInit /\ [][KbdNext]_kbdVars

-----------------------------------------------------------------------------
(* Properties.                                                             *)

\* The state the driver keeps has the ranges its C declarations intend.
KbdTypeOK ==
  /\ held \subseteq Keys
  /\ port \in Seq(0 .. 255)
  /\ {activeShift, activeCapsLock, activeCtrl, do_snapshot, pushed} \subseteq {0, 1}
  /\ key_states \subseteq 0 .. 127
  /\ buffer \in [0 .. BUFFER_SIZE - 1 -> 0 .. 127]
  /\ {readIndex, writeIndex} \subseteq 0 .. BUFFER_SIZE - 1
  /\ size \in 0 .. BUFFER_SIZE
  /\ got \in 0 .. 127

\* The n characters of the ring from slot `from', oldest first.
Contents(from, n) == [i \in 1 .. n |-> buffer[(from + i - 1) % BUFFER_SIZE]]

\* TCircleBuffer with its atomic push and pop is the bounded queue: typed
\* characters come out once, in order, and are refused only when it is full.
Queue == INSTANCE KeyQueue WITH Capacity <- BUFFER_SIZE, accepted <- pushed,
                                queue <- Contents(readIndex, size)
RingIsQueue == Queue!QSpec

\* Once every byte has been handled, key_states shows exactly the keys that
\* are down, whatever the order they were pressed, repeated and released in:
\* none stays stuck and none is missed.  (Two keys that share a make code
\* share the entry, so a key with such a twin can be hidden by it.)
KeyStatesTrackKeys ==
  port = <<>> =>
    /\ \A i \in key_states : \E k \in held : k.code = i
    /\ \A k \in held : \/ k.code \in key_states
                       \/ \E twin \in Keys \ {k} : twin.code = k.code

\* A modifier never stays on after its last key is released: with every byte
\* handled, an active Shift or Ctrl has a key down that explains it.
ModifiersReleased ==
  port = <<>> =>
    /\ activeShift = 1 => \E k \in held : k.code \in {SHIFT_L, SHIFT_R}
    /\ activeCtrl = 1 => \E k \in held : k.code = CTRL_L
=============================================================================
