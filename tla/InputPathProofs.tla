-------------------------- MODULE InputPathProofs --------------------------
(***************************************************************************)
(* Proofs about KeyboardDriver and about InputPath, which extends it, for  *)
(* every buffer size, keyboard and scancode table.                         *)
(*                                                                         *)
(* The driver: that key_states and the flags follow the keys is not        *)
(* inductive, because bytes travel through the port: KbdInv speaks of what *)
(* they will be once every byte under way has been handled (Pending).  The *)
(* ring is a queue because writeIndex is always size slots after readIndex.*)
(*                                                                         *)
(* The path: neither the type of size nor the agreement of the ring        *)
(* counters is inductive alone: a pop between its load and its store of    *)
(* size is right only because interrupts are off there, so IInv adds where *)
(* the flag is clear and what the statements in progress have already done.*)
(* With it, read returns one line, and the ring implements KeyQueue.       *)
(***************************************************************************)
EXTENDS InputPath, Integers, SequenceTheorems, TLAPS

-----------------------------------------------------------------------------
(* Arithmetic of the ring positions.                                       *)

\* A position taken modulo the buffer size is an index of the buffer.
LEMMA ModRange ==
  ASSUME NEW a \in Nat
  PROVE  a % BUFFER_SIZE \in 0 .. BUFFER_SIZE - 1
BY BufferAssumption

\* An index is its own remainder.
LEMMA ModSmall ==
  ASSUME NEW a \in 0 .. BUFFER_SIZE - 1
  PROVE  a % BUFFER_SIZE = a
BY BufferAssumption

\* A position of the second turn wraps once.
LEMMA ModLarge ==
  ASSUME NEW a \in BUFFER_SIZE .. 2 * BUFFER_SIZE - 1
  PROVE  a % BUFFER_SIZE = a - BUFFER_SIZE
BY BufferAssumption

\* Advancing an index that is n slots after r gives the one n + 1 slots after.
LEMMA AdvanceWrite ==
  ASSUME NEW r \in 0 .. BUFFER_SIZE - 1, NEW n \in 0 .. BUFFER_SIZE - 1
  PROVE  (((r + n) % BUFFER_SIZE) + 1) % BUFFER_SIZE = (r + n + 1) % BUFFER_SIZE
<1>0. BUFFER_SIZE \in Nat \ {0}
  BY BufferAssumption
<1>1. CASE r + n < BUFFER_SIZE
  <2>1. (r + n) % BUFFER_SIZE = r + n
    BY <1>0, <1>1, ModSmall
  <2> QED BY <2>1
<1>2. CASE r + n >= BUFFER_SIZE
  <2>1. (r + n) % BUFFER_SIZE = r + n - BUFFER_SIZE
    BY <1>0, <1>2, ModLarge
  <2>2. (r + n - BUFFER_SIZE + 1) % BUFFER_SIZE = r + n - BUFFER_SIZE + 1
    BY <1>0, <1>2, ModSmall
  <2>3. (r + n + 1) % BUFFER_SIZE = r + n + 1 - BUFFER_SIZE
    BY <1>0, <1>2, ModLarge
  <2> QED BY <1>0, <2>1, <2>2, <2>3
<1> QED BY <1>0, <1>1, <1>2

\* n slots after the next index of r are n + 1 slots after r.
LEMMA AdvanceRead ==
  ASSUME NEW r \in 0 .. BUFFER_SIZE - 1, NEW n \in 0 .. BUFFER_SIZE - 1
  PROVE  (((r + 1) % BUFFER_SIZE) + n) % BUFFER_SIZE = (r + n + 1) % BUFFER_SIZE
<1>0. BUFFER_SIZE \in Nat \ {0}
  BY BufferAssumption
<1>1. CASE r + 1 < BUFFER_SIZE
  <2>1. (r + 1) % BUFFER_SIZE = r + 1
    BY <1>0, <1>1, ModSmall
  <2> QED BY <2>1, <1>0
<1>2. CASE r + 1 = BUFFER_SIZE
  <2>1. (r + 1) % BUFFER_SIZE = 0
    BY <1>0, <1>2, ModLarge
  <2>2. n % BUFFER_SIZE = n
    BY <1>0, ModSmall
  <2>3. (r + n + 1) % BUFFER_SIZE = r + n + 1 - BUFFER_SIZE
    BY <1>0, <1>2, ModLarge
  <2> QED BY <1>0, <1>2, <2>1, <2>2, <2>3
<1> QED BY <1>0, <1>1, <1>2

-----------------------------------------------------------------------------
(* The interrupt handler.                                                  *)

\* Every character of the table, folded to upper case or not, is a character.
LEMMA AsciiType ==
  ASSUME NEW sc \in 0 .. 255, NEW shift \in {0, 1}, NEW caps \in {0, 1}
  PROVE  scToAscii(sc, shift, caps) \in 0 .. 127
<1>1. CASE sc \in Dropped \/ sc >= KEY_COUNT
  BY <1>1 DEF scToAscii
<1>2. CASE ~(sc \in Dropped \/ sc >= KEY_COUNT)
  <2> DEFINE c == scancode_table[sc][shift]
  <2>1. c \in 0 .. 127
    <3>1. sc \in 0 .. KEY_COUNT - 1
      BY <1>2 DEF KEY_COUNT
    <3>2. scancode_table[sc] \in [0 .. 1 -> 0 .. 127]
      BY <3>1, TableAssumption, Zenon
    <3>3. shift \in 0 .. 1
      OBVIOUS
    <3> QED BY <3>2, <3>3, Zenon
  <2>2. scToAscii(sc, shift, caps) = IF caps = 1 /\ c \in 97 .. 122 THEN c - 32 ELSE c
    BY <1>2, Zenon DEF scToAscii
  <2> HIDE DEF c
  <2> QED BY <2>1, <2>2
<1> QED BY <1>1, <1>2

\* The driver's handler keeps the types of what it changes.
LEMMA HandlerType ==
  ASSUME KbdTypeOK, NEW sc \in 0 .. 255, keyboard_interrupt_handler(sc, 0)
  PROVE  /\ {activeShift', activeCapsLock', activeCtrl', do_snapshot', pushed'} \subseteq {0, 1}
         /\ key_states' \subseteq 0 .. 127
         /\ buffer' \in [0 .. BUFFER_SIZE - 1 -> 0 .. 127]
         /\ {readIndex', writeIndex'} \subseteq 0 .. BUFFER_SIZE - 1
         /\ size' \in 0 .. BUFFER_SIZE
<1>1. {activeShift', activeCapsLock', activeCtrl'} \subseteq {0, 1}
  BY DEF keyboard_interrupt_handler, updateFlags, KbdTypeOK
<1>2. key_states' \subseteq 0 .. 127
  BY DEF keyboard_interrupt_handler, updateKeyStates, KbdTypeOK, RELEASE_OFFSET
<1> DEFINE c == scToAscii(sc, activeShift', activeCapsLock')
<1>3. c \in 0 .. 127
  BY <1>1, AsciiType
<1>4. \/ UNCHANGED <<buffer, readIndex, writeIndex, size, pushed>>
      \/ buffer_push(c)
  BY DEF keyboard_interrupt_handler
<1>5. do_snapshot' \in {0, 1}
  BY DEF keyboard_interrupt_handler
<1>6. CASE UNCHANGED <<buffer, readIndex, writeIndex, size, pushed>>
  BY <1>1, <1>2, <1>5, <1>6 DEF KbdTypeOK
<1>7. CASE buffer_push(c)
  <2> HIDE DEF c
  <2>1. CASE buffer_full
    BY ZenonT(30), <1>1, <1>2, <1>5, <1>7, <2>1 DEF KbdTypeOK, buffer_push, ring
  <2>2. CASE ~buffer_full
    <3>1. buffer' \in [0 .. BUFFER_SIZE - 1 -> 0 .. 127]
      <4>1. buffer \in [0 .. BUFFER_SIZE - 1 -> 0 .. 127]
        BY DEF KbdTypeOK
      <4>2. buffer' = [buffer EXCEPT ![writeIndex] = c]
        BY <1>7, <2>2 DEF buffer_push
      <4> QED BY <1>3, <4>1, <4>2
    <3>2. size' \in 0 .. BUFFER_SIZE
      BY <1>7, <2>2, BufferAssumption DEF KbdTypeOK, buffer_push, buffer_full
    <3>3. writeIndex' \in 0 .. BUFFER_SIZE - 1
      <4>1. writeIndex + 1 \in Nat
        BY BufferAssumption DEF KbdTypeOK
      <4>2. writeIndex' = (writeIndex + 1) % BUFFER_SIZE
        BY <1>7, <2>2 DEF buffer_push
      <4> QED BY <4>1, <4>2, ModRange
    <3> QED BY ZenonT(30), <1>1, <1>2, <1>5, <1>7, <2>2, <3>1, <3>2, <3>3 DEF KbdTypeOK, buffer_push
  <2> QED BY <2>1, <2>2
<1> QED BY <1>4, <1>6, <1>7

\* The handler pushes at most one character, and then moves writeIndex with size.
LEMMA HandlerRing ==
  ASSUME KbdTypeOK, NEW sc \in 0 .. 255, keyboard_interrupt_handler(sc, 0)
  PROVE  /\ readIndex' = readIndex
         /\ \/ writeIndex' = writeIndex /\ size' = size
            \/ /\ size < BUFFER_SIZE /\ size' = size + 1
               /\ writeIndex' = (writeIndex + 1) % BUFFER_SIZE
<1> DEFINE c == scToAscii(sc, activeShift', activeCapsLock')
<1>1. UNCHANGED <<buffer, readIndex, writeIndex, size, pushed>> \/ buffer_push(c)
  BY DEF keyboard_interrupt_handler
<1> HIDE DEF c
<1>2. CASE buffer_push(c) /\ ~buffer_full
  <2>1. size < BUFFER_SIZE
    BY <1>2, BufferAssumption DEF buffer_full, KbdTypeOK
  <2> QED BY <1>2, <2>1 DEF buffer_push
<1>3. CASE buffer_push(c) /\ buffer_full
  BY <1>3 DEF buffer_push, ring
<1> QED BY <1>1, <1>2, <1>3

\* The keyboard sends bytes, and touches nothing of the driver.
LEMMA KeyboardType ==
  ASSUME KbdTypeOK, Keyboard
  PROVE  held' \subseteq Keys /\ port' \in Seq(0 .. 255)
<1>1. PICK k \in Keys : MakeKey(k) \/ BreakKey(k)
  BY DEF Keyboard
<1>2. k.code \in 1 .. 95 /\ k.ext \in BOOLEAN
  BY <1>1, KeysAssumption
<1>3. ASSUME NEW c \in 0 .. 255
      PROVE  Bytes(k, c) \in Seq(0 .. 255)
  <2>1. CASE k.ext
    <3>1. <<224, c>> \in Seq(0 .. 255)
      OBVIOUS
    <3> QED BY <2>1, <3>1 DEF Bytes, EXTENDED
  <2>2. CASE ~k.ext
    <3>1. <<c>> \in Seq(0 .. 255)
      OBVIOUS
    <3> QED BY <2>2, <3>1 DEF Bytes
  <2> QED BY <2>1, <2>2
<1>4. CASE MakeKey(k)
  <2>1. k.code \in 0 .. 255
    BY <1>2
  <2>2. Bytes(k, k.code) \in Seq(0 .. 255)
    BY <2>1, <1>3
  <2> QED BY <1>4, <2>2 DEF MakeKey, Sends, KbdTypeOK
<1>5. CASE BreakKey(k)
  <2>1. k.code + RELEASE_OFFSET \in 0 .. 255
    BY <1>2 DEF RELEASE_OFFSET
  <2>2. Bytes(k, k.code + RELEASE_OFFSET) \in Seq(0 .. 255)
    BY <2>1, <1>3
  <2> QED BY <1>5, <2>2 DEF BreakKey, Sends, KbdTypeOK
<1> QED BY <1>1, <1>4, <1>5

-----------------------------------------------------------------------------
(* What is under way in the port.                                          *)

\* No byte of p behind position j releases a code of C.
Undone(p, C, j) == \A l \in j + 1 .. Len(p) : p[l] - RELEASE_OFFSET \notin C

\* Whether something the codes C switch to 1, and their releases to 0, will be 1
\* when the bytes p have been handled; `on' is what it is now.
Pending(p, on, C) ==
  \/ on = 1 /\ Undone(p, C, 0)
  \/ \E j \in 1 .. Len(p) : p[j] \in C /\ Undone(p, C, j)

\* Handling the first byte changes the present state and not what it will be.
LEMMA PendingTail ==
  ASSUME NEW p \in Seq(0 .. 255), p # <<>>, NEW C, NEW on, NEW next,
         next = 1 <=> Head(p) \in C \/ (on = 1 /\ Head(p) - RELEASE_OFFSET \notin C)
  PROVE  Pending(Tail(p), next, C) <=> Pending(p, on, C)
<1> DEFINE q == Tail(p)
           n == Len(p)
<1>1. n \in Nat /\ n >= 1 /\ Head(p) = p[1]
  OBVIOUS
<1>2. Len(q) = n - 1 /\ \A m \in 1 .. n - 1 : q[m] = p[m + 1]
  BY HeadTailProperties
<1> HIDE DEF q, n
<1>3. ASSUME NEW j \in 1 .. n
      PROVE  Undone(q, C, j - 1) <=> Undone(p, C, j)
  <2>1. ASSUME Undone(p, C, j), NEW l \in j .. n - 1
        PROVE  q[l] - RELEASE_OFFSET \notin C
    BY <1>1, <1>2, <2>1 DEF Undone, n
  <2>2. ASSUME Undone(q, C, j - 1), NEW l \in j + 1 .. n
        PROVE  p[l] - RELEASE_OFFSET \notin C
    <3>1. l - 1 \in (j - 1) + 1 .. Len(q) /\ q[l - 1] = p[l]
      BY <1>1, <1>2
    <3> QED BY <2>2, <3>1 DEF Undone
  <2> QED BY <1>1, <1>2, <2>1, <2>2 DEF Undone, n
<1>4. Undone(p, C, 0) <=> Undone(p, C, 1) /\ p[1] - RELEASE_OFFSET \notin C
  BY <1>1 DEF Undone, n
<1>5. Undone(q, C, 0) <=> Undone(p, C, 1)
  BY <1>1, <1>3
<1>6. ASSUME Pending(q, next, C) PROVE Pending(p, on, C)
  <2>1. CASE next = 1 /\ Undone(q, C, 0)
    BY <1>1, <1>4, <1>5, <2>1 DEF Pending, n
  <2>2. CASE \E j \in 1 .. Len(q) : q[j] \in C /\ Undone(q, C, j)
    <3>1. PICK j \in 1 .. n - 1 : q[j] \in C /\ Undone(q, C, j)
      BY <1>2, <2>2
    <3>2. j + 1 \in 1 .. n /\ (j + 1) - 1 = j /\ p[j + 1] = q[j]
      BY <1>1, <1>2
    <3>3. Undone(p, C, j + 1)
      BY <1>3, <3>1, <3>2
    <3> QED BY <3>1, <3>2, <3>3 DEF Pending, n
  <2> QED BY <1>6, <2>1, <2>2 DEF Pending
<1>7. ASSUME Pending(p, on, C) PROVE Pending(q, next, C)
  <2>1. CASE on = 1 /\ Undone(p, C, 0)
    BY <1>1, <1>4, <1>5, <2>1 DEF Pending
  <2>2. CASE \E j \in 1 .. n : p[j] \in C /\ Undone(p, C, j)
    <3>1. PICK j \in 1 .. n : p[j] \in C /\ Undone(p, C, j)
      BY <2>2
    <3>2. CASE j = 1
      BY <1>1, <1>5, <3>1, <3>2 DEF Pending
    <3>3. CASE j # 1
      <4>1. j - 1 \in 1 .. Len(q) /\ q[j - 1] = p[j]
        BY <1>1, <1>2, <3>3
      <4>2. Undone(q, C, j - 1)
        BY <1>3, <3>1
      <4> QED BY <3>1, <4>1, <4>2 DEF Pending
    <3> QED BY <3>2, <3>3
  <2> QED BY <1>7, <2>1, <2>2 DEF Pending, n
<1> QED BY <1>6, <1>7 DEF q

\* A byte sent decides for the codes it makes or releases, and for no other.
LEMMA PendingAppend ==
  ASSUME NEW p \in Seq(0 .. 255), NEW b \in 0 .. 255, NEW C, NEW on
  PROVE  Pending(Append(p, b), on, C) <=>
           b \in C \/ (Pending(p, on, C) /\ b - RELEASE_OFFSET \notin C)
<1> DEFINE q == Append(p, b)
           n == Len(p)
<1>1. n \in Nat /\ Len(q) = n + 1 /\ q[n + 1] = b /\ \A m \in 1 .. n : q[m] = p[m]
  OBVIOUS
<1> HIDE DEF q, n
<1>2. ASSUME NEW j \in 0 .. n
      PROVE  Undone(q, C, j) <=> Undone(p, C, j) /\ b - RELEASE_OFFSET \notin C
  <2>1. ASSUME Undone(q, C, j)
        PROVE  Undone(p, C, j) /\ b - RELEASE_OFFSET \notin C
    <3>1. n + 1 \in j + 1 .. Len(q)
      BY <1>1
    <3>2. \A l \in j + 1 .. n : l \in j + 1 .. Len(q) /\ q[l] = p[l]
      BY <1>1
    <3> QED BY <1>1, <2>1, <3>1, <3>2 DEF Undone, n
  <2>2. ASSUME Undone(p, C, j), b - RELEASE_OFFSET \notin C, NEW l \in j + 1 .. Len(q)
        PROVE  q[l] - RELEASE_OFFSET \notin C
    <3>1. CASE l = n + 1
      BY <1>1, <2>2, <3>1
    <3>2. CASE l # n + 1
      <4>1. l \in j + 1 .. Len(p) /\ q[l] = p[l]
        BY <1>1, <3>2 DEF n
      <4> QED BY <2>2, <4>1 DEF Undone
    <3> QED BY <3>1, <3>2
  <2> QED BY <2>1, <2>2 DEF Undone
<1>3. Undone(q, C, n + 1)
  BY <1>1 DEF Undone
<1>4. ASSUME b \in C PROVE Pending(q, on, C)
  <2>1. n + 1 \in 1 .. Len(q) /\ q[n + 1] \in C
    BY <1>1, <1>4
  <2> QED BY <1>3, <2>1 DEF Pending
<1>5. ASSUME Pending(p, on, C), b - RELEASE_OFFSET \notin C
      PROVE  Pending(q, on, C)
  <2>1. CASE on = 1 /\ Undone(p, C, 0)
    BY <1>1, <1>2, <1>5, <2>1 DEF Pending
  <2>2. CASE \E j \in 1 .. n : p[j] \in C /\ Undone(p, C, j)
    <3>1. PICK j \in 1 .. n : p[j] \in C /\ Undone(p, C, j)
      BY <2>2
    <3>2. j \in 1 .. Len(q) /\ j \in 0 .. n /\ q[j] \in C
      BY <1>1, <3>1
    <3>3. Undone(q, C, j)
      BY <1>2, <1>5, <3>1, <3>2
    <3> QED BY <3>2, <3>3 DEF Pending
  <2> QED BY <1>5, <2>1, <2>2 DEF Pending, n
<1>6. ASSUME Pending(q, on, C), b \notin C
      PROVE  Pending(p, on, C) /\ b - RELEASE_OFFSET \notin C
  <2>1. CASE on = 1 /\ Undone(q, C, 0)
    BY <1>1, <1>2, <2>1 DEF Pending
  <2>2. CASE \E j \in 1 .. Len(q) : q[j] \in C /\ Undone(q, C, j)
    <3>1. PICK j \in 1 .. Len(q) : q[j] \in C /\ Undone(q, C, j)
      BY <2>2
    <3>2. j \in 1 .. n /\ j \in 0 .. n /\ p[j] \in C
      BY <1>1, <1>6, <3>1
    <3>3. Undone(p, C, j) /\ b - RELEASE_OFFSET \notin C
      BY <1>2, <3>1, <3>2
    <3> QED BY <3>2, <3>3 DEF Pending, n
  <2> QED BY <1>6, <2>1, <2>2 DEF Pending
<1> QED BY <1>4, <1>5, <1>6 DEF q

\* The bytes of a key: the prefix of an extended one makes no code, and would
\* release only 96, which no key has.
LEMMA PendingKey ==
  ASSUME NEW p \in Seq(0 .. 255), NEW k \in Keys, NEW b \in 0 .. 255,
         NEW C, C \subseteq 0 .. 127, NEW on
  PROVE  /\ p \o Bytes(k, b) \in Seq(0 .. 255)
         /\ Pending(p \o Bytes(k, b), on, C) =>
              b \in C \/ (Pending(p, on, C) /\ b - RELEASE_OFFSET \notin C)
         /\ b \in C => Pending(p \o Bytes(k, b), on, C)
         /\ Pending(p, on, C) /\ b - RELEASE_OFFSET \notin C /\ 96 \notin C =>
              Pending(p \o Bytes(k, b), on, C)
<1>1. CASE ~k.ext
  <2>1. p \o Bytes(k, b) = Append(p, b)
    BY <1>1 DEF Bytes
  <2>2. Append(p, b) \in Seq(0 .. 255)
    OBVIOUS
  <2>3. Pending(Append(p, b), on, C) <=>
          b \in C \/ (Pending(p, on, C) /\ b - RELEASE_OFFSET \notin C)
    BY PendingAppend
  <2> QED BY <2>1, <2>2, <2>3
<1>2. CASE k.ext
  <2> DEFINE q == Append(p, EXTENDED)
  <2>1. q \in Seq(0 .. 255) /\ Append(q, b) \in Seq(0 .. 255)
    BY DEF EXTENDED
  <2>2. p \o Bytes(k, b) = Append(q, b)
    <3>1. p \o <<EXTENDED, b>> = Append(Append(p, EXTENDED), b)
      BY DEF EXTENDED
    <3> QED BY <1>2, <3>1 DEF Bytes
  <2>3. /\ Pending(q, on, C) => Pending(p, on, C)
        /\ Pending(p, on, C) /\ 96 \notin C => Pending(q, on, C)
    <3>1. EXTENDED \in 0 .. 255 /\ EXTENDED \notin C /\ EXTENDED - RELEASE_OFFSET = 96
      BY DEF EXTENDED, RELEASE_OFFSET
    <3>2. Pending(q, on, C) <=>
            EXTENDED \in C \/ (Pending(p, on, C) /\ EXTENDED - RELEASE_OFFSET \notin C)
      BY <3>1, PendingAppend
    <3> QED BY <3>1, <3>2
  <2> HIDE DEF q
  <2>4. Pending(Append(q, b), on, C) <=>
          b \in C \/ (Pending(q, on, C) /\ b - RELEASE_OFFSET \notin C)
    BY <2>1, PendingAppend
  <2> QED BY <2>1, <2>2, <2>3, <2>4
<1> QED BY <1>1, <1>2

-----------------------------------------------------------------------------
(* The inductive invariant of the driver.                                  *)

\* The entry of a code in the array of the code.
entry(c) == IF c \in key_states THEN 1 ELSE 0

\* What will be on has a key down among those that switch it on.
Explained(on, C) == Pending(port, on, C) => \E k \in held : k.code \in C

\* A key that is down will have its entry, unless a twin shares the code.
Shown(k) ==
  \/ Pending(port, entry(k.code), {k.code})
  \/ \E twin \in Keys \ {k} : twin.code = k.code

Tracking ==
  /\ \A c \in 0 .. 127 : Explained(entry(c), {c})
  /\ \A k \in held : Shown(k)
  /\ Explained(activeShift, {SHIFT_L, SHIFT_R})
  /\ Explained(activeCtrl, {CTRL_L})

\* writeIndex is size slots after readIndex.
RingAligned == writeIndex = (readIndex + size) % BUFFER_SIZE

KbdInv == KbdTypeOK /\ Tracking /\ RingAligned

LEMMA KbdInitInv == KbdInit => KbdInv
<1> SUFFICES ASSUME KbdInit PROVE KbdInv
  OBVIOUS
<1> USE DEF KbdInit
<1>1. KbdTypeOK
  BY BufferAssumption DEF KbdTypeOK
<1>2. ASSUME NEW C, NEW on, on # 1
      PROVE  ~Pending(port, on, C)
  <2>1. 1 .. Len(port) = {}
    OBVIOUS
  <2> QED BY <1>2, <2>1 DEF Pending
<1>3. Tracking
  <2>1. \A c \in 0 .. 127 : Explained(entry(c), {c})
    BY <1>2 DEF Explained, entry
  <2>2. Explained(activeShift, {SHIFT_L, SHIFT_R}) /\ Explained(activeCtrl, {CTRL_L})
    BY <1>2 DEF Explained
  <2> QED BY <2>1, <2>2 DEF Tracking
<1>4. RingAligned
  BY BufferAssumption, ModSmall DEF RingAligned
<1> QED BY <1>1, <1>3, <1>4 DEF KbdInv

\* The byte a release sends is no make code, and gives back the code it releases;
\* a make code releases nothing.
LEMMA ReleaseByte ==
  ASSUME NEW x \in 1 .. 95
  PROVE  /\ x + RELEASE_OFFSET \in 128 .. 255
         /\ (x + RELEASE_OFFSET) - RELEASE_OFFSET = x
         /\ x - RELEASE_OFFSET \in Int /\ x - RELEASE_OFFSET < 0
BY DEF RELEASE_OFFSET

\* What a key sends keeps an explanation: a make code comes with a key that is
\* down, a release takes its own key and leaves those that explain other codes.
LEMMA KeyboardExplained ==
  ASSUME KbdTypeOK, Keyboard, NEW C, C \subseteq 0 .. 127, NEW on, Explained(on, C)
  PROVE  Pending(port', on, C) => \E k \in held' : k.code \in C
<1> SUFFICES ASSUME Pending(port', on, C)
             PROVE  \E k \in held' : k.code \in C
  OBVIOUS
<1>1. PICK k \in Keys : MakeKey(k) \/ BreakKey(k)
  BY DEF Keyboard
<1>2. port \in Seq(0 .. 255)
  BY DEF KbdTypeOK
<1>8. k.code \in 1 .. 95
  BY <1>1, KeysAssumption
<1>3. CASE MakeKey(k)
  <2>1. port' = port \o Bytes(k, k.code) /\ held' = held \cup {k} /\ k.code \in 0 .. 255
    BY <1>8, <1>3 DEF MakeKey, Sends
  <2>2. k.code \in C \/ Pending(port, on, C)
    BY <1>2, <2>1, PendingKey
  <2> QED BY <2>1, <2>2 DEF Explained
<1>4. CASE BreakKey(k)
  <2> DEFINE b == k.code + RELEASE_OFFSET
  <2>1. port' = port \o Bytes(k, b) /\ held' = held \ {k}
    BY <1>4 DEF BreakKey, Sends
  <2>2. b \in 0 .. 255 /\ b \notin C /\ b - RELEASE_OFFSET = k.code
    <3>1. b \in 128 .. 255 /\ b - RELEASE_OFFSET = k.code
      BY SMTT(30), <1>8, ReleaseByte
    <3>2. b \notin C
      BY <3>1
    <3> QED BY <3>1, <3>2
  <2> HIDE DEF b
  <2>3. Pending(port \o Bytes(k, b), on, C) =>
          b \in C \/ (Pending(port, on, C) /\ b - RELEASE_OFFSET \notin C)
    BY <1>2, <2>2, PendingKey
  <2>4. Pending(port, on, C) /\ k.code \notin C
    BY <2>1, <2>2, <2>3
  <2>5. PICK e \in held : e.code \in C
    BY <2>4 DEF Explained
  <2> QED BY <2>1, <2>4, <2>5
<1> QED BY <1>1, <1>3, <1>4

\* A key that stays down or is pressed stays shown; what it loses its entry to
\* is the release of a twin.
LEMMA KeyboardShown ==
  ASSUME KbdTypeOK, Keyboard, \A k \in held : Shown(k)
  PROVE  \A k \in held' : Shown(k)'
<1> SUFFICES ASSUME NEW j \in held', ~\E twin \in Keys \ {j} : twin.code = j.code
             PROVE  Pending(port', entry(j.code), {j.code})
  BY DEF Shown, Keyboard, entry
<1> DEFINE on == entry(j.code)
           C == {j.code}
<1>1. PICK k \in Keys : MakeKey(k) \/ BreakKey(k)
  BY DEF Keyboard
<1>2. port \in Seq(0 .. 255)
  BY DEF KbdTypeOK
<1>8. k.code \in 1 .. 95
  BY <1>1, KeysAssumption
<1>3. j \in Keys /\ j.code \in 1 .. 95
  BY <1>1, KeysAssumption DEF MakeKey, BreakKey, KbdTypeOK
<1>4. j \in held => Pending(port, on, C)
  BY DEF Shown
<1>5. C \subseteq 0 .. 127 /\ 96 \notin C
  BY <1>3
<1>6. CASE MakeKey(k)
  <2>1. port' = port \o Bytes(k, k.code) /\ held' = held \cup {k} /\ k.code \in 0 .. 255
    BY <1>8, <1>6 DEF MakeKey, Sends
  <2>2. CASE k = j
    <3>1. k.code \in C
      BY <2>2
    <3> QED BY <1>2, <1>5, <2>1, <3>1, PendingKey
  <2>3. CASE k # j
    <3>1. k.code - RELEASE_OFFSET \notin C
      <4>1. k.code - RELEASE_OFFSET < 0 /\ k.code - RELEASE_OFFSET \in Int
        BY <1>8, ReleaseByte
      <4>2. k.code - RELEASE_OFFSET # j.code
        BY <1>3, <4>1
      <4> QED BY <4>2
    <3>2. Pending(port, on, C)
      BY <1>4, <2>1, <2>3
    <3> HIDE DEF on, C
    <3>3. Pending(port, on, C) /\ k.code - RELEASE_OFFSET \notin C /\ 96 \notin C =>
            Pending(port \o Bytes(k, k.code), on, C)
      BY <1>2, <1>5, <2>1, PendingKey
    <3>4. Pending(port', on, C)
      BY <1>5, <2>1, <3>1, <3>2, <3>3
    <3> QED BY <3>4 DEF on, C
  <2> QED BY <2>2, <2>3
<1>7. CASE BreakKey(k)
  <2> DEFINE b == k.code + RELEASE_OFFSET
  <2>1. port' = port \o Bytes(k, b) /\ held' = held \ {k}
    BY <1>7 DEF BreakKey, Sends
  <2>2. b \in 0 .. 255 /\ b - RELEASE_OFFSET = k.code
    BY SMTT(30), <1>8, ReleaseByte
  <2>3. k.code \notin C
    BY <2>1
  <2>4. Pending(port, on, C)
    BY <1>4, <2>1
  <2> HIDE DEF b, on, C
  <2>5. Pending(port, on, C) /\ b - RELEASE_OFFSET \notin C /\ 96 \notin C =>
          Pending(port \o Bytes(k, b), on, C)
    BY <1>2, <1>5, <2>2, PendingKey
  <2>6. Pending(port', on, C)
    BY <1>5, <2>1, <2>2, <2>3, <2>4, <2>5
  <2> QED BY <2>6 DEF on, C
<1> QED BY <1>1, <1>6, <1>7

\* The interrupt handler does to each present state what its byte announces.
LEMMA HandlerTracks ==
  ASSUME KbdTypeOK, NEW sc \in 0 .. 255, NEW request, keyboard_interrupt_handler(sc, request)
  PROVE  /\ \A c \in 0 .. 127 :
              entry(c)' = 1 <=> sc \in {c} \/ (entry(c) = 1 /\ sc - RELEASE_OFFSET \notin {c})
         /\ activeShift' = 1 <=> sc \in {SHIFT_L, SHIFT_R}
              \/ (activeShift = 1 /\ sc - RELEASE_OFFSET \notin {SHIFT_L, SHIFT_R})
         /\ activeCtrl' = 1 <=> sc \in {CTRL_L}
              \/ (activeCtrl = 1 /\ sc - RELEASE_OFFSET \notin {CTRL_L})
<1>1. updateFlags(sc) /\ updateKeyStates(sc)
  BY DEF keyboard_interrupt_handler
<1>2. ASSUME NEW c \in 0 .. 127
      PROVE  entry(c)' = 1 <=> sc \in {c} \/ (entry(c) = 1 /\ sc - RELEASE_OFFSET \notin {c})
  <2>1. c \in key_states' <=> sc = c \/ (c \in key_states /\ sc - RELEASE_OFFSET # c)
    <3>1. CASE sc >= RELEASE_OFFSET
      BY <1>1, <3>1 DEF updateKeyStates, RELEASE_OFFSET
    <3>2. CASE ~(sc >= RELEASE_OFFSET)
      BY <1>1, <3>2 DEF updateKeyStates, RELEASE_OFFSET
    <3> QED BY <3>1, <3>2
  <2> QED BY <2>1 DEF entry
<1>3. activeShift' = 1 <=> sc \in {SHIFT_L, SHIFT_R}
        \/ (activeShift = 1 /\ sc - RELEASE_OFFSET \notin {SHIFT_L, SHIFT_R})
  BY <1>1 DEF updateFlags, SHIFT_L, SHIFT_R, RELEASE_OFFSET
<1>4. activeCtrl' = 1 <=> sc \in {CTRL_L}
        \/ (activeCtrl = 1 /\ sc - RELEASE_OFFSET \notin {CTRL_L})
  BY <1>1 DEF updateFlags, CTRL_L, RELEASE_OFFSET
<1> QED BY <1>2, <1>3, <1>4

\* Handling a byte changes no expectation, so it keeps every explanation.
LEMMA InterruptTracking ==
  ASSUME KbdTypeOK, Tracking, Interrupt
  PROVE  Tracking'
<1> DEFINE sc == Head(port)
<1>1. port \in Seq(0 .. 255) /\ port # <<>> /\ port' = Tail(port) /\ held' = held
  BY DEF KbdTypeOK, Interrupt
<1>2. sc \in 0 .. 255 /\ keyboard_interrupt_handler(sc, 0)
  <2>1. Head(port) \in 0 .. 255
    BY <1>1, HeadTailProperties
  <2> QED BY <2>1 DEF Interrupt
<1>3. ASSUME NEW c \in 0 .. 127
      PROVE  Pending(port', entry(c)', {c}) <=> Pending(port, entry(c), {c})
  <2>1. entry(c)' = 1 <=> sc \in {c} \/ (entry(c) = 1 /\ sc - RELEASE_OFFSET \notin {c})
    BY <1>2, HandlerTracks
  <2>2. Pending(Tail(port), entry(c)', {c}) <=> Pending(port, entry(c), {c})
    BY <1>1, <2>1, PendingTail
  <2> QED BY <1>1, <2>2
<1>4. Pending(port', activeShift', {SHIFT_L, SHIFT_R})
        <=> Pending(port, activeShift, {SHIFT_L, SHIFT_R})
  <2>1. activeShift' = 1 <=> sc \in {SHIFT_L, SHIFT_R}
          \/ (activeShift = 1 /\ sc - RELEASE_OFFSET \notin {SHIFT_L, SHIFT_R})
    BY <1>2, HandlerTracks
  <2>2. Pending(Tail(port), activeShift', {SHIFT_L, SHIFT_R})
          <=> Pending(port, activeShift, {SHIFT_L, SHIFT_R})
    BY <1>1, <2>1, PendingTail
  <2> QED BY <1>1, <2>2
<1>5. Pending(port', activeCtrl', {CTRL_L}) <=> Pending(port, activeCtrl, {CTRL_L})
  <2>1. activeCtrl' = 1 <=> sc \in {CTRL_L}
          \/ (activeCtrl = 1 /\ sc - RELEASE_OFFSET \notin {CTRL_L})
    BY <1>2, HandlerTracks
  <2>2. Pending(Tail(port), activeCtrl', {CTRL_L}) <=> Pending(port, activeCtrl, {CTRL_L})
    BY <1>1, <2>1, PendingTail
  <2> QED BY <1>1, <2>2
<1>6. \A c \in 0 .. 127 : Explained(entry(c), {c})'
  BY <1>1, <1>3 DEF Tracking, Explained
<1>7. \A k \in held' : Shown(k)'
  <2>1. \A k \in held : k.code \in 0 .. 127
    BY KeysAssumption DEF KbdTypeOK
  <2> QED BY <1>1, <1>3, <2>1 DEF Tracking, Shown
<1>8. Explained(activeShift, {SHIFT_L, SHIFT_R})' /\ Explained(activeCtrl, {CTRL_L})'
  BY <1>1, <1>4, <1>5 DEF Tracking, Explained
<1> QED BY <1>6, <1>7, <1>8 DEF Tracking

\* Typing and sending move no entry and no flag; what is sent is explained by
\* the keys that are down after it.
LEMMA KeyboardTracking ==
  ASSUME KbdTypeOK, Tracking, Keyboard
  PROVE  Tracking'
<1>1. ASSUME NEW C, C \subseteq 0 .. 127, NEW on, Explained(on, C)
      PROVE  Pending(port', on, C) => \E k \in held' : k.code \in C
  BY <1>1, KeyboardExplained
<1>2. UNCHANGED <<activeShift, activeCtrl, key_states>>
  BY DEF Keyboard
<1>3. \A c \in 0 .. 127 : Explained(entry(c), {c})'
  <2> SUFFICES ASSUME NEW c \in 0 .. 127
               PROVE  Explained(entry(c), {c})'
    OBVIOUS
  <2>1. Explained(entry(c), {c}) /\ {c} \subseteq 0 .. 127
    BY DEF Tracking
  <2>2. entry(c)' = entry(c)
    BY <1>2 DEF entry
  <2> QED BY <1>1, <2>1, <2>2 DEF Explained
<1>4. Explained(activeShift, {SHIFT_L, SHIFT_R})'
  <2>1. {SHIFT_L, SHIFT_R} \subseteq 0 .. 127
    BY DEF SHIFT_L, SHIFT_R
  <2>2. Explained(activeShift, {SHIFT_L, SHIFT_R})
    BY DEF Tracking
  <2> QED BY <1>1, <1>2, <2>1, <2>2 DEF Explained
<1>5. Explained(activeCtrl, {CTRL_L})'
  <2>1. {CTRL_L} \subseteq 0 .. 127
    BY DEF CTRL_L
  <2>2. Explained(activeCtrl, {CTRL_L})
    BY DEF Tracking
  <2> QED BY <1>1, <1>2, <2>1, <2>2 DEF Explained
<1>6. \A k \in held' : Shown(k)'
  <2>1. \A k \in held : Shown(k)
    BY DEF Tracking
  <2> QED BY <2>1, KeyboardShown
<1> QED BY <1>3, <1>4, <1>5, <1>6 DEF Tracking

\* The reader of the buffer and the keys have nothing to do with each other.
LEMMA ReadTracking ==
  ASSUME Tracking, UNCHANGED <<held, port, activeShift, activeCtrl, key_states>>
  PROVE  Tracking'
BY DEF Tracking, Explained, Shown, entry

\* A pop keeps the types, and takes one slot off the front of the ring.
LEMMA PopRing ==
  ASSUME KbdTypeOK, RingAligned, buffer_pop
  PROVE  /\ got' \in 0 .. 127
         /\ readIndex' \in 0 .. BUFFER_SIZE - 1
         /\ size' \in 0 .. BUFFER_SIZE
         /\ RingAligned'
<1>0. /\ BUFFER_SIZE \in Nat \ {0}
      /\ readIndex \in 0 .. BUFFER_SIZE - 1
      /\ size \in 0 .. BUFFER_SIZE
      /\ buffer \in [0 .. BUFFER_SIZE - 1 -> 0 .. 127]
  BY BufferAssumption DEF KbdTypeOK
<1>1. CASE size = 0
  <2>1. got' = 0 /\ UNCHANGED <<readIndex, size, writeIndex>>
    BY <1>1 DEF buffer_pop, buffer_empty
  <2> QED BY <1>0, <2>1 DEF RingAligned
<1>2. CASE size # 0
  <2>1. /\ got' = buffer[readIndex]
        /\ readIndex' = (readIndex + 1) % BUFFER_SIZE
        /\ size' = size - 1 /\ writeIndex' = writeIndex
    BY <1>2 DEF buffer_pop, buffer_empty
  <2>2. got' \in 0 .. 127
    BY <1>0, <2>1
  <2>3. readIndex' \in 0 .. BUFFER_SIZE - 1
    <3>1. readIndex + 1 \in Nat
      BY <1>0
    <3> QED BY <2>1, <3>1, ModRange
  <2>4. size - 1 \in 0 .. BUFFER_SIZE - 1 /\ size' \in 0 .. BUFFER_SIZE
    BY <1>0, <1>2, <2>1
  <2>5. (readIndex' + size') % BUFFER_SIZE = (readIndex + (size - 1) + 1) % BUFFER_SIZE
    BY <1>0, <2>1, <2>4, AdvanceRead
  <2>6. readIndex + (size - 1) + 1 = readIndex + size
    BY <1>0
  <2> QED BY <2>1, <2>2, <2>3, <2>4, <2>5, <2>6 DEF RingAligned
<1> QED BY <1>1, <1>2

\* The handler moves writeIndex along with size.
LEMMA HandlerAligned ==
  ASSUME KbdTypeOK, RingAligned, NEW sc \in 0 .. 255, keyboard_interrupt_handler(sc, 0)
  PROVE  RingAligned'
<1>1. CASE writeIndex' = writeIndex /\ size' = size
  BY <1>1, HandlerRing DEF RingAligned
<1>2. CASE /\ size < BUFFER_SIZE /\ size' = size + 1
           /\ writeIndex' = (writeIndex + 1) % BUFFER_SIZE
  <2>1. readIndex \in 0 .. BUFFER_SIZE - 1 /\ size \in 0 .. BUFFER_SIZE - 1
    BY <1>2, BufferAssumption DEF KbdTypeOK
  <2>2. writeIndex' = (readIndex + size + 1) % BUFFER_SIZE
    BY <1>2, <2>1, AdvanceWrite DEF RingAligned
  <2>3. readIndex + size + 1 = readIndex + (size + 1)
    BY <2>1
  <2> QED BY <1>2, <2>2, <2>3, HandlerRing DEF RingAligned
<1> QED BY <1>1, <1>2, HandlerRing

LEMMA KbdNextInv == KbdInv /\ [KbdNext]_kbdVars => KbdInv'
<1> SUFFICES ASSUME KbdInv, [KbdNext]_kbdVars PROVE KbdInv'
  OBVIOUS
<1>0. KbdTypeOK /\ Tracking /\ RingAligned
  BY DEF KbdInv
<1>1. CASE Keyboard
  <2>1. UNCHANGED <<activeShift, activeCapsLock, activeCtrl, key_states, buffer,
                    readIndex, writeIndex, size, do_snapshot, got, pushed>>
    BY <1>1 DEF Keyboard
  <2>2. KbdTypeOK'
    BY <1>0, <1>1, <2>1, KeyboardType DEF KbdTypeOK
  <2>3. RingAligned'
    BY <1>0, <2>1 DEF RingAligned
  <2> QED BY <1>0, <1>1, <2>2, <2>3, KeyboardTracking DEF KbdInv
<1>2. CASE Interrupt
  <2>1. port \in Seq(0 .. 255) /\ port # <<>>
    BY <1>0, <1>2 DEF KbdTypeOK, Interrupt
  <2>2. Head(port) \in 0 .. 255 /\ Tail(port) \in Seq(0 .. 255)
    BY <2>1, HeadTailProperties
  <2>3. keyboard_interrupt_handler(Head(port), 0) /\ port' = Tail(port)
        /\ UNCHANGED <<held, got>>
    BY <1>2 DEF Interrupt
  <2>4. KbdTypeOK'
    BY <1>0, <2>2, <2>3, HandlerType DEF KbdTypeOK
  <2>5. RingAligned'
    BY <1>0, <2>2, <2>3, HandlerAligned
  <2> QED BY <1>0, <1>2, <2>4, <2>5, InterruptTracking DEF KbdInv
<1>3. CASE keyboard_read_getchar
  <2>1. buffer_pop /\ UNCHANGED <<held, port, activeShift, activeCapsLock, activeCtrl,
                                  key_states, do_snapshot, pushed, buffer, writeIndex>>
    BY <1>3 DEF keyboard_read_getchar, buffer_pop
  <2>2. KbdTypeOK' /\ RingAligned'
    BY <1>0, <2>1, PopRing DEF KbdTypeOK
  <2> QED BY <1>0, <2>1, <2>2, ReadTracking DEF KbdInv
<1>4. CASE UNCHANGED kbdVars
  <2>1. KbdTypeOK' /\ RingAligned'
    BY <1>0, <1>4 DEF KbdTypeOK, RingAligned, kbdVars
  <2> QED BY <1>0, <1>4, <2>1, ReadTracking DEF KbdInv, kbdVars
<1> QED BY <1>1, <1>2, <1>3, <1>4 DEF KbdNext

-----------------------------------------------------------------------------
(* Theorems.                                                               *)

\* Whatever is typed and read, the driver's state keeps its types, its ring its
\* shape, and its entries and flags lead to what the keys that are down explain.
THEOREM KbdInvariance == KbdSpec => []KbdInv
BY KbdInitInv, KbdNextInv, PTL DEF KbdSpec

\* The types of the state of keyBoardDriver.c: every index stays inside the
\* buffer, and size never exceeds it.
THEOREM KbdTypesHold == KbdSpec => []KbdTypeOK
<1>1. KbdInv => KbdTypeOK
  BY DEF KbdInv
<1> QED BY <1>1, KbdInvariance, PTL

\* With no byte under way, what will be is what is.
LEMMA PendingEmpty ==
  ASSUME NEW on, NEW C
  PROVE  Pending(<<>>, on, C) <=> on = 1
<1>1. 1 .. Len(<<>>) = {} /\ 0 + 1 .. Len(<<>>) = {}
  OBVIOUS
<1> QED BY <1>1 DEF Pending, Undone

\* When updateKeyStates has seen every byte, key_states is the set of the codes
\* of the keys that are down: no key stays stuck, none is missed.
THEOREM EntriesFollowKeys == KbdSpec => []KeyStatesTrackKeys
<1>1. KbdInv => KeyStatesTrackKeys
  <2> SUFFICES ASSUME KbdInv, port = <<>>
               PROVE  /\ \A m \in key_states : \E k \in held : k.code = m
                      /\ \A k \in held : \/ k.code \in key_states
                                         \/ \E twin \in Keys \ {k} : twin.code = k.code
    BY DEF KeyStatesTrackKeys
  <2>1. ASSUME NEW m \in key_states
        PROVE  \E k \in held : k.code = m
    <3>1. m \in 0 .. 127 /\ entry(m) = 1
      BY DEF KbdInv, KbdTypeOK, entry
    <3>2. Pending(port, entry(m), {m})
      BY <3>1, PendingEmpty
    <3> QED BY <3>1, <3>2 DEF KbdInv, Tracking, Explained
  <2>2. ASSUME NEW k \in held, ~\E twin \in Keys \ {k} : twin.code = k.code
        PROVE  k.code \in key_states
    <3>1. Pending(<<>>, entry(k.code), {k.code})
      BY <2>2 DEF KbdInv, Tracking, Shown
    <3>2. entry(k.code) = 1
      BY <3>1, PendingEmpty
    <3> QED BY <3>2 DEF entry
  <2> QED BY <2>1, <2>2
<1> QED BY <1>1, KbdInvariance, PTL

\* updateFlags leaves no modifier on whose keys are all up.
THEOREM FlagsFollowKeys == KbdSpec => []ModifiersReleased
<1>1. KbdInv => ModifiersReleased
  <2> SUFFICES ASSUME KbdInv, port = <<>>
               PROVE  /\ activeShift = 1 => \E k \in held : k.code \in {SHIFT_L, SHIFT_R}
                      /\ activeCtrl = 1 => \E k \in held : k.code = CTRL_L
    BY DEF ModifiersReleased
  <2>1. activeShift = 1 => Pending(port, activeShift, {SHIFT_L, SHIFT_R})
    BY PendingEmpty
  <2>2. activeCtrl = 1 => Pending(port, activeCtrl, {CTRL_L})
    BY PendingEmpty
  <2> QED BY <2>1, <2>2 DEF KbdInv, Tracking, Explained
<1> QED BY <1>1, KbdInvariance, PTL

-----------------------------------------------------------------------------
(* The ring as a queue.                                                    *)

\* The n characters of a buffer b from slot r, oldest first: Contents, with the
\* buffer as a parameter.
Slots(b, r, n) == [m \in 1 .. n |-> b[(r + m - 1) % BUFFER_SIZE]]

Buffers == [0 .. BUFFER_SIZE - 1 -> 0 .. 127]

LEMMA SlotsSeq ==
  ASSUME NEW b \in Buffers, NEW r \in Nat, NEW n \in 0 .. BUFFER_SIZE
  PROVE  /\ Slots(b, r, n) \in Seq(0 .. 127)
         /\ Len(Slots(b, r, n)) = n
         /\ \A m \in 1 .. n : Slots(b, r, n)[m] = b[(r + m - 1) % BUFFER_SIZE]
<1>0. n \in Nat
  BY BufferAssumption
<1>1. ASSUME NEW m \in 1 .. n
      PROVE  b[(r + m - 1) % BUFFER_SIZE] \in 0 .. 127
  <2>1. r + m - 1 \in Nat
    BY <1>0
  <2>2. (r + m - 1) % BUFFER_SIZE \in 0 .. BUFFER_SIZE - 1
    BY <2>1, ModRange
  <2> QED BY <2>2 DEF Buffers
<1>2. Slots(b, r, n) \in [1 .. n -> 0 .. 127]
  BY <1>1 DEF Slots
<1>3. Slots(b, r, n) \in Seq(0 .. 127)
  BY <1>0, <1>2
<1> QED BY <1>0, <1>2, <1>3 DEF Slots

\* Two positions less than a turn apart are two slots.
LEMMA SlotsApart ==
  ASSUME NEW r \in 0 .. BUFFER_SIZE - 1, NEW k \in 0 .. BUFFER_SIZE - 1,
         NEW n \in 0 .. BUFFER_SIZE - 1, k < n
  PROVE  (r + k) % BUFFER_SIZE # (r + n) % BUFFER_SIZE
<1>0. BUFFER_SIZE \in Nat \ {0}
  BY BufferAssumption
<1>1. ASSUME NEW x \in 0 .. BUFFER_SIZE - 1
      PROVE  (r + x) % BUFFER_SIZE
               = IF r + x < BUFFER_SIZE THEN r + x ELSE r + x - BUFFER_SIZE
  <2>1. CASE r + x < BUFFER_SIZE
    BY <1>0, <2>1, ModSmall
  <2>2. CASE r + x >= BUFFER_SIZE
    BY <1>0, <2>2, ModLarge
  <2> QED BY <1>0, <2>1, <2>2
<1> QED BY <1>0, <1>1

\* A push appends to the queue.
LEMMA SlotsPush ==
  ASSUME NEW b \in Buffers, NEW r \in 0 .. BUFFER_SIZE - 1,
         NEW n \in 0 .. BUFFER_SIZE - 1, NEW c \in 0 .. 127
  PROVE  Slots([b EXCEPT ![(r + n) % BUFFER_SIZE] = c], r, n + 1)
           = Append(Slots(b, r, n), c)
<1> DEFINE w == (r + n) % BUFFER_SIZE
           b2 == [b EXCEPT ![w] = c]
           s == Slots(b2, r, n + 1)
           t == Append(Slots(b, r, n), c)
<1>0. BUFFER_SIZE \in Nat \ {0} /\ n \in Nat /\ r \in Nat
  BY BufferAssumption
<1>1. w \in 0 .. BUFFER_SIZE - 1
  BY <1>0, ModRange
<1>2. b2 \in Buffers
  BY <1>1 DEF Buffers
<1>3. b2[w] = c /\ \A x \in 0 .. BUFFER_SIZE - 1 : x # w => b2[x] = b[x]
  BY <1>1 DEF Buffers
<1> HIDE DEF b2
<1>4. s \in Seq(0 .. 127) /\ Len(s) = n + 1
      /\ \A m \in 1 .. n + 1 : s[m] = b2[(r + m - 1) % BUFFER_SIZE]
  BY <1>0, <1>2, SlotsSeq
<1>5. Slots(b, r, n) \in Seq(0 .. 127) /\ Len(Slots(b, r, n)) = n
      /\ \A m \in 1 .. n : Slots(b, r, n)[m] = b[(r + m - 1) % BUFFER_SIZE]
  <2> HIDE DEF w, s, t
  <2>1. n \in 0 .. BUFFER_SIZE /\ r \in Nat
    BY <1>0
  <2> QED BY <2>1, SlotsSeq, ZenonT(30)
<1>6. t \in Seq(0 .. 127) /\ Len(t) = n + 1 /\ t[n + 1] = c
      /\ \A m \in 1 .. n : t[m] = Slots(b, r, n)[m]
  <2> DEFINE q == Slots(b, r, n)
  <2> HIDE DEF q
  <2>1. q \in Seq(0 .. 127) /\ Len(q) = n
    BY <1>5 DEF q
  <2>2. Append(q, c) \in Seq(0 .. 127) /\ Len(Append(q, c)) = n + 1
        /\ Append(q, c)[n + 1] = c /\ \A m \in 1 .. n : Append(q, c)[m] = q[m]
    BY <1>0, <2>1
  <2> QED BY <2>2 DEF q
<1>7. s[n + 1] = c
  BY <1>0, <1>3, <1>4
<1>8. ASSUME NEW m \in 1 .. n
      PROVE  s[m] = t[m]
  <2>1. m - 1 \in 0 .. BUFFER_SIZE - 1 /\ m - 1 < n /\ r + (m - 1) = r + m - 1
    BY <1>0
  <2>2. (r + m - 1) % BUFFER_SIZE # w
    BY <2>1, SlotsApart
  <2>3. (r + m - 1) % BUFFER_SIZE \in 0 .. BUFFER_SIZE - 1
    <3>1. r + m - 1 \in Nat
      BY <1>0
    <3> QED BY <3>1, ModRange
  <2>4. s[m] = b2[(r + m - 1) % BUFFER_SIZE]
    BY <1>0, <1>4, SMTT(30)
  <2> QED BY <1>3, <1>5, <1>6, <2>2, <2>3, <2>4
<1> HIDE DEF s, t
<1>9. \A m \in 1 .. Len(s) : s[m] = t[m]
  BY <1>0, <1>4, <1>6, <1>7, <1>8
<1>10. s = t
  BY <1>4, <1>6, <1>9, SeqEqual
<1> QED BY <1>10 DEF s, t, b2

\* A pop takes the head, and leaves the tail.
LEMMA SlotsPop ==
  ASSUME NEW b \in Buffers, NEW r \in 0 .. BUFFER_SIZE - 1, NEW n \in 1 .. BUFFER_SIZE
  PROVE  /\ Slots(b, r, n) # <<>>
         /\ Head(Slots(b, r, n)) = b[r]
         /\ Slots(b, (r + 1) % BUFFER_SIZE, n - 1) = Tail(Slots(b, r, n))
         /\ Slots(b, r + 1, n - 1) = Tail(Slots(b, r, n))
<1> DEFINE s == Slots(b, r, n)
<1>0. BUFFER_SIZE \in Nat \ {0} /\ n - 1 \in 0 .. BUFFER_SIZE /\ n \in 0 .. BUFFER_SIZE
      /\ n \in Nat /\ r \in Nat
  BY BufferAssumption
<1>1. s \in Seq(0 .. 127) /\ Len(s) = n
      /\ \A m \in 1 .. n : s[m] = b[(r + m - 1) % BUFFER_SIZE]
  BY <1>0, SlotsSeq
<1> HIDE DEF s
<1>2. s # <<>>
  BY <1>0, <1>1
<1>3. Head(s) = b[r]
  <2>1. s[1] = b[(r + 1 - 1) % BUFFER_SIZE] /\ r + 1 - 1 = r
    BY <1>0, <1>1
  <2>2. r % BUFFER_SIZE = r
    BY ModSmall
  <2> QED BY <1>1, <1>2, <2>1, <2>2
<1>4. Tail(s) \in Seq(0 .. 127) /\ Len(Tail(s)) = n - 1
      /\ \A m \in 1 .. n - 1 : Tail(s)[m] = s[m + 1]
  <2>1. Tail(s) \in Seq(0 .. 127) /\ Len(Tail(s)) = Len(s) - 1
        /\ \A m \in 1 .. Len(Tail(s)) : Tail(s)[m] = s[m + 1]
    BY <1>1, <1>2, HeadTailProperties
  <2> QED BY <1>1, <2>1
<1>5. ASSUME NEW u \in {r + 1, (r + 1) % BUFFER_SIZE}
      PROVE  Slots(b, u, n - 1) = Tail(s)
  <2> DEFINE t == Slots(b, u, n - 1)
  <2>1. u \in Nat
    <3>1. (r + 1) % BUFFER_SIZE \in 0 .. BUFFER_SIZE - 1
      BY <1>0, ModRange
    <3> QED BY <1>0, <3>1
  <2>2. t \in Seq(0 .. 127) /\ Len(t) = n - 1
        /\ \A m \in 1 .. n - 1 : t[m] = b[(u + m - 1) % BUFFER_SIZE]
    BY <1>0, <2>1, SlotsSeq
  <2> HIDE DEF t
  <2>3. ASSUME NEW m \in 1 .. n - 1
        PROVE  t[m] = Tail(s)[m]
    <3>1. m - 1 \in 0 .. BUFFER_SIZE - 1 /\ m + 1 \in 1 .. n /\ u + m - 1 = u + (m - 1)
          /\ r + (m + 1) - 1 = r + (m - 1) + 1 /\ r + (m - 1) + 1 = (r + 1) + (m - 1)
      BY <1>0, <2>1
    <3>2. (u + (m - 1)) % BUFFER_SIZE = (r + (m - 1) + 1) % BUFFER_SIZE
      BY <3>1, AdvanceRead
    <3>3. t[m] = b[(u + (m - 1)) % BUFFER_SIZE]
      BY <2>2, <3>1
    <3>4. Tail(s)[m] = b[(r + (m - 1) + 1) % BUFFER_SIZE]
      BY <1>1, <1>4, <3>1
    <3> QED BY <3>2, <3>3, <3>4
  <2>4. t = Tail(s)
    BY <1>4, <2>2, <2>3, SeqEqual
  <2> QED BY <2>4 DEF t
<1> QED BY <1>2, <1>3, <1>5 DEF s

\* The handler pushes at most one character, with buffer_push.
LEMMA HandlerPush ==
  ASSUME KbdTypeOK, NEW sc \in 0 .. 255, keyboard_interrupt_handler(sc, 0)
  PROVE  \/ UNCHANGED <<buffer, readIndex, writeIndex, size, pushed>>
         \/ \E c \in Chars : buffer_push(c)
<1> DEFINE c == scToAscii(sc, activeShift', activeCapsLock')
<1>1. {activeShift', activeCapsLock'} \subseteq {0, 1}
  BY HandlerType
<1>2. c \in 0 .. 127
  BY <1>1, AsciiType
<1>3. \/ UNCHANGED <<buffer, readIndex, writeIndex, size, pushed>>
      \/ c # 0 /\ buffer_push(c)
  BY DEF keyboard_interrupt_handler
<1> HIDE DEF c
<1>4. c # 0 => c \in Chars
  BY <1>2 DEF Chars
<1> QED BY <1>3, <1>4

\* Seen as a queue, buffer_push appends the character if there is room, and
\* says so to its caller; a full buffer stays as it is.
LEMMA PushQueues ==
  ASSUME KbdTypeOK, RingAligned, NEW c \in Chars, buffer_push(c)
  PROVE  LET queue == Slots(buffer, readIndex, size)
         IN  /\ Len(queue) = size
             /\ IF size < BUFFER_SIZE THEN queue' = Append(queue, c) /\ pushed' = 1
                                      ELSE queue' = queue /\ pushed' = 0
<1>0. /\ buffer \in Buffers /\ readIndex \in 0 .. BUFFER_SIZE - 1 /\ size \in 0 .. BUFFER_SIZE
      /\ readIndex \in Nat
  BY BufferAssumption DEF KbdTypeOK, Buffers
<1>1. Len(Slots(buffer, readIndex, size)) = size
  BY <1>0, SlotsSeq
<1>2. CASE size < BUFFER_SIZE
  <2>1. /\ buffer' = [buffer EXCEPT ![writeIndex] = c]
        /\ size' = size + 1 /\ pushed' = 1 /\ readIndex' = readIndex
    BY <1>2, BufferAssumption DEF buffer_push, buffer_full
  <2>2. size \in 0 .. BUFFER_SIZE - 1 /\ c \in 0 .. 127
    BY <1>0, <1>2, BufferAssumption DEF Chars
  <2>3. Slots(buffer', readIndex, size + 1) = Append(Slots(buffer, readIndex, size), c)
    BY <1>0, <2>1, <2>2, SlotsPush DEF RingAligned
  <2> QED BY <1>1, <1>2, <2>1, <2>3 DEF Slots
<1>3. CASE ~(size < BUFFER_SIZE)
  <2>1. UNCHANGED <<buffer, readIndex, writeIndex, size>> /\ pushed' = 0
    BY <1>0, <1>3, BufferAssumption DEF buffer_push, buffer_full, ring
  <2> QED BY <1>1, <1>3, <2>1 DEF Slots
<1> QED BY <1>2, <1>3

\* TCircleBuffer implements the bounded queue of KeyQueue: every character
\* typed is appended or, when there is no room, refused; every read takes the
\* oldest; nothing else touches the queue.
THEOREM RingImplementsQueue == KbdSpec => RingIsQueue
<1>1. KbdInit => Queue!QInit
  <2> SUFFICES ASSUME KbdInit PROVE Queue!QInit
    OBVIOUS
  <2>1. size = 0 /\ got = 0 /\ pushed = 1 /\ 1 .. 0 = {}
    BY DEF KbdInit
  <2>2. Contents(readIndex, size) = <<>>
    BY <2>1 DEF Contents
  <2> QED BY <2>1, <2>2 DEF Queue!QInit
<1>2. KbdInv /\ [KbdNext]_kbdVars => [Queue!QNext]_(Queue!qvars)
  <2> SUFFICES ASSUME KbdInv, [KbdNext]_kbdVars
               PROVE  Queue!QNext \/ UNCHANGED Queue!qvars
    OBVIOUS
  <2> DEFINE queue == Contents(readIndex, size)
  <2>0. KbdTypeOK /\ RingAligned /\ queue = Slots(buffer, readIndex, size)
    BY DEF KbdInv, Contents, Slots
  <2>1. CASE UNCHANGED <<buffer, readIndex, writeIndex, size, pushed, got>>
    BY <2>1 DEF Queue!qvars, Contents
  <2>2. CASE Interrupt
    <3>1. port \in Seq(0 .. 255) /\ port # <<>> /\ got' = got
      BY <2>0, <2>2 DEF KbdTypeOK, Interrupt
    <3>2. Head(port) \in 0 .. 255 /\ keyboard_interrupt_handler(Head(port), 0)
      <4>1. Head(port) \in 0 .. 255
        BY <3>1, HeadTailProperties
      <4> QED BY <2>2, <4>1 DEF Interrupt
    <3>3. CASE \E c \in Chars : buffer_push(c)
      <4>1. PICK c \in Chars : buffer_push(c)
        BY <3>3
      <4>2. /\ Len(queue) = size
            /\ IF size < BUFFER_SIZE THEN queue' = Append(queue, c) /\ pushed' = 1
                                     ELSE queue' = queue /\ pushed' = 0
        BY <2>0, <4>1, PushQueues DEF Slots, Contents
      <4>3. Queue!Type(c)
        BY <3>1, <4>2 DEF Queue!Type
      <4> QED BY <4>3 DEF Queue!QNext
    <3> QED BY <2>0, <2>1, <3>1, <3>2, <3>3, HandlerPush
  <2>3. CASE keyboard_read_getchar
    <3>1. buffer_pop /\ pushed' = pushed
      BY <2>3 DEF keyboard_read_getchar
    <3>2. Queue!Read
      <4>1. CASE size = 0
        <5>1. got' = 0 /\ UNCHANGED <<readIndex, size, buffer>>
          BY <3>1, <4>1 DEF buffer_pop, buffer_empty
        <5>2. queue = <<>> /\ queue' = queue
          BY <4>1, <5>1 DEF Contents
        <5> QED BY <3>1, <5>1, <5>2 DEF Queue!Read
      <4>2. CASE size # 0
        <5>1. /\ got' = buffer[readIndex] /\ buffer' = buffer
              /\ readIndex' = (readIndex + 1) % BUFFER_SIZE /\ size' = size - 1
          BY <3>1, <4>2 DEF buffer_pop, buffer_empty
        <5>2. /\ buffer \in Buffers /\ readIndex \in 0 .. BUFFER_SIZE - 1
              /\ size \in 1 .. BUFFER_SIZE
          BY <2>0, <4>2, BufferAssumption DEF KbdTypeOK, Buffers
        <5>3. queue # <<>> /\ Head(queue) = buffer[readIndex]
              /\ Slots(buffer, (readIndex + 1) % BUFFER_SIZE, size - 1) = Tail(queue)
          BY <2>0, <5>2, SlotsPop
        <5>4. queue' = Tail(queue)
          BY <5>1, <5>3 DEF Contents, Slots
        <5> QED BY <3>1, <5>1, <5>3, <5>4 DEF Queue!Read
      <4> QED BY <4>1, <4>2
    <3> QED BY <3>2 DEF Queue!QNext
  <2>4. CASE Keyboard
    BY <2>1, <2>4 DEF Keyboard
  <2>5. CASE UNCHANGED kbdVars
    BY <2>1, <2>5 DEF kbdVars
  <2> QED BY <2>2, <2>3, <2>4, <2>5 DEF KbdNext
<1> QED BY <1>1, <1>2, KbdInvariance, PTL DEF KbdSpec, RingIsQueue, Queue!QSpec

-----------------------------------------------------------------------------
(* The input path.                                                         *)

\* Where interrupts are off, and what a pop in progress knows of size.
Exclusion ==
  /\ savedIntr = 1
  /\ pc = "user" => intr = 1
  /\ pc \in ReadSteps \cup {"regs"} => intr = 0
  /\ pc \in PopSteps => size > 0
  /\ pc = "store" => tmp = size

\* The snapshot is of one context, and so is what get_regs has copied of it.
SnapshotWhole ==
  /\ \A r, s \in Regs : snapshot_buffer[r] = snapshot_buffer[s]
  /\ pc = "regs" => \A r \in Regs : r < i => regs[r] = snapshot_buffer[r]
  /\ pc # "regs" => \A r, s \in Regs : regs[r] = regs[s]

IInv == TypeOK /\ Exclusion /\ RingConsistent /\ SnapshotWhole

-----------------------------------------------------------------------------
(* The inductive invariant.                                                *)

\* Initially no pop or copy is in progress and the ring is empty.
LEMMA InitIInv == Init => IInv
<1> SUFFICES ASSUME Init PROVE IInv
  OBVIOUS
<1> USE DEF Init, KbdInit
<1>1. TypeOK
  <2>1. KbdTypeOK
    BY BufferAssumption DEF KbdTypeOK
  <2>2. pc \in Locations /\ intr \in {0, 1} /\ savedIntr \in {0, 1} /\ ctx \in UserContexts
    BY ContextAssumption DEF Locations
  <2>3. count \in Nat /\ dest \in Seq(0 .. 127) /\ tmp \in 0 .. BUFFER_SIZE
    BY BufferAssumption
  <2>4. /\ snapshot_buffer \in [Regs -> Contexts] /\ regs \in [Regs -> Contexts]
        /\ i \in 0 .. REGISTERS_CANT
    BY RegsAssumption DEF Contexts
  <2> QED BY <2>1, <2>2, <2>3, <2>4 DEF TypeOK
<1>2. Exclusion
  BY DEF Exclusion, ReadSteps, PopSteps
<1>3. RingConsistent
  <2>1. (0 + 0) % BUFFER_SIZE = 0
    BY BufferAssumption, ModSmall
  <2> QED BY <2>1 DEF RingConsistent
<1>4. SnapshotWhole
  BY DEF SnapshotWhole
<1> QED BY <1>1, <1>2, <1>3, <1>4 DEF IInv

\* Typing fills the port and disturbs nothing else.
LEMMA TypingIInv == IInv /\ Typing => IInv'
<1> SUFFICES ASSUME IInv, Typing PROVE IInv'
  OBVIOUS
<1>0. TypeOK /\ Exclusion /\ RingConsistent /\ SnapshotWhole
  BY DEF IInv
<1>1. KbdTypeOK'
  <2>1. KbdTypeOK /\ Keyboard
    BY <1>0 DEF TypeOK, Typing
  <2> QED BY <2>1, KeyboardType DEF Keyboard, KbdTypeOK
<1>2. UNCHANGED <<pc, intr, savedIntr, ctx, count, dest, tmp, i, regs, snapshot_buffer,
                  readIndex, writeIndex, size>>
  BY DEF Typing, cpuVars, kernelVars, Keyboard
<1> QED BY <1>0, <1>1, <1>2 DEF IInv, TypeOK, Exclusion, RingConsistent, SnapshotWhole

\* The keyboard interrupt comes only where no pop and no copy is in progress,
\* so it may push and take a snapshot.
LEMMA IrqIInv == IInv /\ Irq01 => IInv'
<1> SUFFICES ASSUME IInv, Irq01 PROVE IInv'
  OBVIOUS
<1>0. TypeOK /\ Exclusion /\ RingConsistent /\ SnapshotWhole /\ KbdTypeOK
  BY DEF IInv, TypeOK
<1>1. Head(port) \in 0 .. 255 /\ port' \in Seq(0 .. 255)
  <2>1. port \in Seq(0 .. 255) /\ port # <<>>
    BY <1>0 DEF Irq01, KbdTypeOK
  <2>2. Head(port) \in 0 .. 255 /\ Tail(port) \in Seq(0 .. 255)
    BY <2>1, HeadTailProperties
  <2> QED BY <2>2 DEF Irq01
<1>2. keyboard_interrupt_handler(Head(port), 0)
  BY DEF Irq01
<1>3. pc \notin ReadSteps \cup {"regs"}
  BY <1>0 DEF Irq01, Exclusion
<1>4. pc' \in Locations /\ pc' \notin ReadSteps \cup {"regs"} /\ (pc' = "user" => pc = "user")
  BY <1>0, <1>3 DEF Irq01, TypeOK, Locations, ReadSteps, PopSteps
<1>5. UNCHANGED <<held, got, intr, savedIntr, ctx, count, dest, tmp, i, regs>>
  BY DEF Irq01, kernelVars
<1>6. KbdTypeOK'
  <2>1. /\ {activeShift', activeCapsLock', activeCtrl', do_snapshot', pushed'} \subseteq {0, 1}
        /\ key_states' \subseteq 0 .. 127
        /\ buffer' \in [0 .. BUFFER_SIZE - 1 -> 0 .. 127]
        /\ {readIndex', writeIndex'} \subseteq 0 .. BUFFER_SIZE - 1
        /\ size' \in 0 .. BUFFER_SIZE
    BY <1>0, <1>1, <1>2, HandlerType
  <2> QED BY <1>0, <1>1, <1>5, <2>1 DEF KbdTypeOK
<1>7. snapshot_buffer' \in [Regs -> Contexts]
  BY <1>0 DEF Irq01, TypeOK, Interrupted, Contexts
<1>8. TypeOK'
  BY <1>0, <1>4, <1>5, <1>6, <1>7 DEF TypeOK
<1>9. Exclusion'
  BY <1>0, <1>4, <1>5 DEF Exclusion, ReadSteps, PopSteps
<1>10. RingConsistent'
  <2>1. pc \notin {"load", "store"} /\ pc' \notin {"load", "store"}
    BY <1>3, <1>4 DEF ReadSteps, PopSteps
  <2>2. writeIndex = (readIndex + size) % BUFFER_SIZE
    BY <1>0, <2>1 DEF RingConsistent
  <2>3. /\ readIndex' = readIndex
        /\ \/ writeIndex' = writeIndex /\ size' = size
           \/ /\ size < BUFFER_SIZE /\ size' = size + 1
              /\ writeIndex' = (writeIndex + 1) % BUFFER_SIZE
    BY <1>0, <1>1, <1>2, HandlerRing
  <2>4. CASE writeIndex' = writeIndex /\ size' = size
    BY <2>1, <2>2, <2>3, <2>4 DEF RingConsistent
  <2>5. CASE size < BUFFER_SIZE /\ size' = size + 1 /\ writeIndex' = (writeIndex + 1) % BUFFER_SIZE
    <3>1. size \in 0 .. BUFFER_SIZE - 1 /\ readIndex \in 0 .. BUFFER_SIZE - 1
      BY <1>0, <2>5, BufferAssumption DEF KbdTypeOK
    <3>2. writeIndex' = (readIndex + size + 1) % BUFFER_SIZE
      BY <2>2, <2>5, <3>1, AdvanceWrite
    <3>3. readIndex + size + 1 = readIndex' + size'
      BY <2>3, <2>5, <3>1, BufferAssumption
    <3> QED BY <2>1, <3>2, <3>3 DEF RingConsistent
  <2> QED BY <2>3, <2>4, <2>5
<1>11. SnapshotWhole'
  <2>1. \A r, s \in Regs : snapshot_buffer'[r] = snapshot_buffer'[s]
    BY <1>0 DEF Irq01, SnapshotWhole
  <2>2. pc # "regs" /\ pc' # "regs"
    BY <1>3, <1>4
  <2> QED BY <1>0, <1>5, <2>1, <2>2 DEF SnapshotWhole
<1> QED BY <1>8, <1>9, <1>10, <1>11 DEF IInv

\* What a program step changes is its own registers and the entry of a call.
LEMMA ProgramIInv == IInv /\ Program => IInv'
<1> SUFFICES ASSUME IInv, Program PROVE IInv'
  OBVIOUS
<1>0. TypeOK /\ Exclusion /\ RingConsistent /\ SnapshotWhole /\ KbdTypeOK
  BY DEF IInv, TypeOK
<1>1. pc = "user" /\ UNCHANGED <<driverVars, popVars, snapshot_buffer>>
  BY DEF Program, Compute, Exception, CallGetRegs, CallSleep, CallRead, Int80
<1>2. KbdTypeOK'
  BY <1>0, <1>1 DEF KbdTypeOK, driverVars, popVars
<1>3. pc' \in {"user", "read", "regs", "sleep", "iretq"} /\ ctx' \in UserContexts
  BY <1>0, <1>1, ContextAssumption
     DEF Program, Compute, Exception, CallGetRegs, CallSleep, CallRead, Int80, TypeOK
<1>4. savedIntr' = 1 /\ intr' \in {0, 1} /\ (pc' = "user" => intr' = 1)
      /\ (pc' # "user" => intr' = 0)
  BY <1>0, <1>1 DEF Program, Compute, Exception, CallGetRegs, CallSleep, CallRead, Int80,
                    Exclusion, TypeOK
<1>5. /\ count' \in Nat /\ dest' \in Seq(0 .. 127) /\ tmp' \in 0 .. BUFFER_SIZE
      /\ i' \in 0 .. REGISTERS_CANT /\ regs' = regs /\ (pc' = "regs" => i' = 0)
  <2> USE DEF Int80, kernelVars, TypeOK
  <2>1. CASE Compute
    BY <1>0, <2>1 DEF Compute
  <2>2. CASE Exception
    BY <1>0, <1>1, <2>2 DEF Exception
  <2>3. CASE CallGetRegs
    BY <1>0, <2>3, RegsAssumption DEF CallGetRegs
  <2>4. CASE CallSleep
    BY <1>0, <2>4 DEF CallSleep
  <2>5. CASE \E n \in Counts : CallRead(n)
    BY <1>0, <2>5, CountsAssumption DEF CallRead
  <2> QED BY <2>1, <2>2, <2>3, <2>4, <2>5 DEF Program
<1>6. UNCHANGED <<readIndex, writeIndex, size, snapshot_buffer>>
  BY <1>1 DEF driverVars, popVars
<1>7. TypeOK'
  <2>1. pc' \in Locations /\ savedIntr' \in {0, 1}
    BY <1>3, <1>4 DEF Locations, ReadSteps
  <2>2. regs' \in [Regs -> Contexts] /\ snapshot_buffer' \in [Regs -> Contexts]
    BY <1>0, <1>5, <1>6 DEF TypeOK
  <2> QED BY <1>2, <1>3, <1>4, <1>5, <2>1, <2>2 DEF TypeOK
<1>8. Exclusion'
  BY <1>3, <1>4 DEF Exclusion, ReadSteps, PopSteps
<1>9. RingConsistent'
  <2>1. pc \notin {"load", "store"} /\ pc' \notin {"load", "store"}
    BY <1>1, <1>3
  <2> QED BY <1>0, <1>6, <2>1 DEF RingConsistent
<1>10. SnapshotWhole'
  <2>1. pc' = "regs" => \A r \in Regs : ~(r < i')
    BY <1>5 DEF Regs
  <2> QED BY <1>0, <1>1, <1>5, <1>6, <2>1 DEF SnapshotWhole
<1> QED BY <1>7, <1>8, <1>9, <1>10 DEF IInv

\* The four statements of a pop: size is positive from the test to the store,
\* and what is stored is one less than what was loaded.
LEMMA PopIInv == IInv /\ (ReadTest \/ PopTake \/ PopAdvance \/ PopLoad \/ PopStore) => IInv'
<1> SUFFICES ASSUME IInv, ReadTest \/ PopTake \/ PopAdvance \/ PopLoad \/ PopStore
             PROVE  IInv'
  OBVIOUS
<1> USE DEF ReadSteps, PopSteps
<1>0. TypeOK /\ Exclusion /\ RingConsistent /\ SnapshotWhole /\ KbdTypeOK
  BY DEF IInv, TypeOK
<1>1. UNCHANGED <<driverVars, intr, savedIntr, ctx, snapshot_buffer, count, dest, i, regs>>
  BY DEF ReadTest, PopTake, PopAdvance, PopLoad, PopStore, kernelVars
<1>2. /\ UNCHANGED <<held, port, activeShift, activeCapsLock, activeCtrl, key_states>>
      /\ UNCHANGED <<do_snapshot, pushed, buffer, writeIndex>>
  BY <1>1 DEF driverVars
<1>3. SnapshotWhole'
  <2>1. pc # "regs" /\ pc' # "regs"
    BY DEF ReadTest, PopTake, PopAdvance, PopLoad, PopStore
  <2> QED BY <1>0, <1>1, <2>1 DEF SnapshotWhole
<1>4. ASSUME KbdTypeOK', pc' \in Locations, tmp' \in 0 .. BUFFER_SIZE, Exclusion', RingConsistent'
      PROVE  IInv'
  BY <1>0, <1>1, <1>3, <1>4 DEF IInv, TypeOK
<1>5. CASE ReadTest
  <2>0. /\ got' \in 0 .. 127 /\ pc' \in Locations
        /\ UNCHANGED <<readIndex, size, tmp>>
    <3>1. (got' = 0 \/ got' = got) /\ (pc' = "iretq" \/ pc' = "take")
      BY <1>5 DEF ReadTest
    <3>2. UNCHANGED <<readIndex, size, tmp>>
      BY <1>5 DEF ReadTest, kernelVars
    <3>3. got' \in 0 .. 127
      <4>1. got \in 0 .. 127
        BY <1>0 DEF KbdTypeOK
      <4>2. CASE got' = 0
        BY <4>2
      <4>3. CASE got' = got
        BY <4>1, <4>3
      <4> QED BY <3>1, <4>2, <4>3
    <3>4. pc' \in Locations
      BY <3>1 DEF Locations
    <3> QED BY <3>2, <3>3, <3>4
  <2>1. KbdTypeOK' /\ pc' \in Locations /\ tmp' \in 0 .. BUFFER_SIZE
    BY <1>0, <1>2, <2>0 DEF TypeOK, KbdTypeOK
  <2>2. Exclusion'
    BY <1>0, <1>5, BufferAssumption DEF ReadTest, kernelVars, TypeOK, KbdTypeOK, Exclusion, buffer_empty
  <2>3. RingConsistent'
    BY <1>0, <1>2, <1>5 DEF ReadTest, RingConsistent
  <2> QED BY <1>4, <2>1, <2>2, <2>3
<1>6. CASE PopTake
  <2>1. KbdTypeOK' /\ pc' \in Locations /\ tmp' \in 0 .. BUFFER_SIZE
    BY <1>0, <1>2, <1>6 DEF PopTake, kernelVars, TypeOK, KbdTypeOK, Locations
  <2>2. Exclusion'
    BY <1>0, <1>6 DEF PopTake, kernelVars, Exclusion
  <2>3. RingConsistent'
    BY <1>0, <1>2, <1>6 DEF PopTake, RingConsistent
  <2> QED BY <1>4, <2>1, <2>2, <2>3
<1>7. CASE PopAdvance
  <2>0. readIndex \in 0 .. BUFFER_SIZE - 1 /\ size - 1 \in 0 .. BUFFER_SIZE - 1
    BY <1>0, <1>7, BufferAssumption DEF PopAdvance, KbdTypeOK, Exclusion
  <2>1. readIndex' \in 0 .. BUFFER_SIZE - 1
    BY <1>7, <2>0, ModRange, BufferAssumption DEF PopAdvance
  <2>2. KbdTypeOK' /\ pc' \in Locations /\ tmp' \in 0 .. BUFFER_SIZE
    BY <1>0, <1>2, <1>7, <2>1 DEF PopAdvance, kernelVars, TypeOK, KbdTypeOK, Locations
  <2>3. Exclusion'
    BY <1>0, <1>7 DEF PopAdvance, kernelVars, Exclusion
  <2>4. RingConsistent'
    <3>1. writeIndex = (readIndex + size) % BUFFER_SIZE
      BY <1>0, <1>7 DEF PopAdvance, RingConsistent
    <3>2. (((readIndex + 1) % BUFFER_SIZE) + (size - 1)) % BUFFER_SIZE
            = (readIndex + (size - 1) + 1) % BUFFER_SIZE
      BY <2>0, AdvanceRead
    <3>3. readIndex + (size - 1) + 1 = readIndex + size
      BY <1>0, BufferAssumption DEF KbdTypeOK
    <3> QED BY <1>2, <1>7, <3>1, <3>2, <3>3 DEF PopAdvance, RingConsistent
  <2> QED BY <1>4, <2>2, <2>3, <2>4
<1>8. CASE PopLoad
  <2>1. KbdTypeOK' /\ pc' \in Locations /\ tmp' \in 0 .. BUFFER_SIZE
    BY <1>0, <1>2, <1>8 DEF PopLoad, popVars, TypeOK, KbdTypeOK, Locations
  <2>2. Exclusion'
    BY <1>0, <1>8 DEF PopLoad, popVars, Exclusion
  <2>3. RingConsistent'
    BY <1>0, <1>2, <1>8 DEF PopLoad, popVars, RingConsistent
  <2> QED BY <1>4, <2>1, <2>2, <2>3
<1>9. CASE PopStore
  <2>0. size' = size - 1 /\ size' \in 0 .. BUFFER_SIZE
    BY <1>0, <1>9, BufferAssumption DEF PopStore, KbdTypeOK, Exclusion
  <2>1. KbdTypeOK' /\ pc' \in Locations /\ tmp' \in 0 .. BUFFER_SIZE
    BY <1>0, <1>2, <1>9, <2>0 DEF PopStore, kernelVars, TypeOK, KbdTypeOK, Locations
  <2>2. Exclusion'
    BY <1>0, <1>9 DEF PopStore, kernelVars, Exclusion
  <2>3. RingConsistent'
    BY <1>0, <1>2, <1>9, <2>0 DEF PopStore, RingConsistent
  <2> QED BY <1>4, <2>1, <2>2, <2>3
<1> QED BY <1>5, <1>6, <1>7, <1>8, <1>9

\* The rest of the kernel leaves the ring alone.
LEMMA RestIInv ==
  IInv /\ (ReadAppend \/ GetRegsCopy \/ Hlt \/ TimerWake \/ SleepDone \/ Iretq) => IInv'
<1> SUFFICES ASSUME IInv, ReadAppend \/ GetRegsCopy \/ Hlt \/ TimerWake \/ SleepDone \/ Iretq
             PROVE  IInv'
  OBVIOUS
<1> USE DEF ReadSteps, PopSteps
<1>0. TypeOK /\ Exclusion /\ RingConsistent /\ SnapshotWhole /\ KbdTypeOK
  BY DEF IInv, TypeOK
<1>1. UNCHANGED <<driverVars, popVars, savedIntr, ctx, snapshot_buffer, count, tmp>>
  BY DEF ReadAppend, GetRegsCopy, Hlt, TimerWake, SleepDone, Iretq, kernelVars
<1>2. KbdTypeOK'
  BY <1>0, <1>1 DEF KbdTypeOK, driverVars, popVars
<1>3. pc \notin PopSteps /\ pc' \in Locations /\ pc' \notin PopSteps /\ intr' \in {0, 1}
  BY <1>0 DEF ReadAppend, GetRegsCopy, Hlt, TimerWake, SleepDone, Iretq, TypeOK, Locations
<1>4. dest' \in Seq(0 .. 127)
  <2>1. CASE ReadAppend /\ got # 0
    <3>1. got \in 0 .. 127 /\ dest \in Seq(0 .. 127)
      BY <1>0 DEF TypeOK, KbdTypeOK
    <3>2. dest' = Append(dest, got)
      BY <2>1 DEF ReadAppend
    <3> QED BY <3>1, <3>2
  <2>2. CASE ~(ReadAppend /\ got # 0)
    <3>1. dest' = dest
      BY <2>2 DEF ReadAppend, GetRegsCopy, Hlt, TimerWake, SleepDone, Iretq, kernelVars
    <3> QED BY <1>0, <3>1 DEF TypeOK
  <2> QED BY <2>1, <2>2
<1>5. i' \in 0 .. REGISTERS_CANT /\ regs' \in [Regs -> Contexts]
  <2>1. CASE GetRegsCopy
    BY <1>0, <2>1, RegsAssumption DEF GetRegsCopy, TypeOK, Regs
  <2>2. CASE UNCHANGED <<i, regs>>
    BY <1>0, <2>2 DEF TypeOK
  <2> QED BY <2>1, <2>2 DEF ReadAppend, Hlt, TimerWake, SleepDone, Iretq, kernelVars
<1>6. TypeOK'
  BY <1>0, <1>1, <1>2, <1>3, <1>4, <1>5 DEF TypeOK
<1>7. Exclusion'
  BY <1>0, <1>1, <1>3 DEF Exclusion, ReadAppend, GetRegsCopy, Hlt, TimerWake, SleepDone, Iretq
<1>8. RingConsistent'
  BY <1>0, <1>1, <1>3 DEF RingConsistent, driverVars, popVars
<1>9. SnapshotWhole'
  <2>1. CASE GetRegsCopy /\ i < REGISTERS_CANT
    <3>1. i \in Regs /\ i' = i + 1 /\ pc = "regs" /\ pc' = "regs"
      BY <1>0, <2>1, RegsAssumption DEF GetRegsCopy, TypeOK, Regs
    <3>2. \A r \in Regs : r < i' => regs'[r] = snapshot_buffer[r]
      <4>1. regs' = [regs EXCEPT ![i] = snapshot_buffer[i]] /\ regs \in [Regs -> Contexts]
        BY <1>0, <2>1 DEF GetRegsCopy, TypeOK
      <4>2. \A r \in Regs : r < i => regs[r] = snapshot_buffer[r]
        BY <1>0, <3>1 DEF SnapshotWhole
      <4>3. \A r \in Regs : r < i' => r < i \/ r = i
        BY <1>0, <3>1, RegsAssumption DEF Regs
      <4> QED BY <3>1, <4>1, <4>2, <4>3
    <3> QED BY <1>0, <1>1, <3>1, <3>2 DEF SnapshotWhole
  <2>2. CASE GetRegsCopy /\ ~(i < REGISTERS_CANT)
    <3>1. i = REGISTERS_CANT /\ regs' = regs /\ pc = "regs" /\ pc' # "regs"
      BY <1>0, <2>2, RegsAssumption DEF GetRegsCopy, TypeOK
    <3>2. \A r \in Regs : regs[r] = snapshot_buffer[r]
      BY <1>0, <3>1, RegsAssumption DEF SnapshotWhole, Regs
    <3> QED BY <1>0, <1>1, <3>1, <3>2 DEF SnapshotWhole
  <2>3. CASE ~GetRegsCopy
    <3>1. pc # "regs" /\ pc' # "regs" /\ regs' = regs
      BY <2>3 DEF ReadAppend, Hlt, TimerWake, SleepDone, Iretq, kernelVars
    <3> QED BY <1>0, <1>1, <3>1 DEF SnapshotWhole
  <2> QED BY <2>1, <2>2, <2>3
<1> QED BY <1>6, <1>7, <1>8, <1>9 DEF IInv

\* IInv holds in every reachable state.
THEOREM Invariance == Spec => []IInv
<1>1. ASSUME IInv, [Next]_vars PROVE IInv'
  <2>1. CASE Next
    BY <1>1, <2>1, TypingIInv, IrqIInv, ProgramIInv, PopIInv, RestIInv DEF Next, Kernel
  <2>2. CASE UNCHANGED vars
    BY <1>1, <2>2 DEF vars, IInv, TypeOK, KbdTypeOK, Exclusion, RingConsistent, SnapshotWhole
  <2> QED BY <1>1, <2>1, <2>2
<1> QED BY <1>1, InitIInv, PTL DEF Spec

\* Every variable keeps its range; in particular size never leaves
\* 0 .. BUFFER_SIZE although a pop updates it with a load and a store.
THEOREM TypeCorrect == Spec => []TypeOK
<1>1. IInv => TypeOK
  BY DEF IInv
<1> QED BY <1>1, Invariance, PTL

\* The positions and the size of the ring agree in every state, in the middle
\* of a pop included.
THEOREM RingCorrect == Spec => []RingConsistent
<1>1. IInv => RingConsistent
  BY DEF IInv
<1> QED BY <1>1, Invariance, PTL

\* No program gets the registers of two contexts mixed.
THEOREM RegsCorrect == Spec => []RegsNotTorn
<1>1. IInv => RegsNotTorn
  BY DEF IInv, SnapshotWhole, RegsNotTorn
<1> QED BY <1>1, Invariance, PTL

\* The program never runs with interrupts disabled.
THEOREM InterruptibleCorrect == Spec => []ProgramInterruptible
<1>1. IInv => ProgramInterruptible
  BY DEF IInv, Exclusion, ProgramInterruptible
<1> QED BY <1>1, Invariance, PTL

-----------------------------------------------------------------------------
(* What one read stores.                                                   *)

\* A newline ends the call, so while it goes on none has been stored, and a
\* statement that will store a character has room for it.
LineInv ==
  /\ Len(dest) <= count
  /\ \A k \in 1 .. Len(dest) : dest[k] = 10 => k = Len(dest)
  /\ pc \in ReadSteps => \A k \in 1 .. Len(dest) : dest[k] # 10
  /\ pc \in PopSteps \cup {"append"} => Len(dest) < count

LEMMA LineNext == IInv /\ LineInv /\ [Next]_vars => LineInv'
<1> SUFFICES ASSUME IInv, LineInv, [Next]_vars PROVE LineInv'
  OBVIOUS
<1> USE DEF ReadSteps, PopSteps
<1>0. dest \in Seq(0 .. 127) /\ count \in Nat /\ got \in 0 .. 127 /\ Len(dest) \in Nat
  BY DEF IInv, TypeOK, KbdTypeOK
<1>1. CASE UNCHANGED <<dest, count>> /\ pc' \notin ReadSteps
  BY <1>1 DEF LineInv
<1>2. CASE UNCHANGED <<dest, count>> /\ pc \in PopSteps /\ pc' \in PopSteps \cup {"append"}
  BY <1>2 DEF LineInv
<1>3. CASE UNCHANGED <<dest, count, pc>>
  BY <1>3 DEF LineInv
<1>4. CASE dest' = <<>> /\ count' \in Nat /\ pc' \in {"user", "iretq", "read"}
  <2>1. Len(dest') = 0 /\ 1 .. Len(dest') = {}
    BY <1>4
  <2> QED BY <1>4, <2>1 DEF LineInv
<1>5. CASE ReadTest
  <2>1. UNCHANGED <<dest, count>> /\ pc = "read"
    BY <1>5 DEF ReadTest, kernelVars
  <2>2. CASE Len(dest) < count /\ ~buffer_empty
    BY <1>5, <2>1, <2>2 DEF ReadTest, LineInv
  <2>3. CASE ~(Len(dest) < count /\ ~buffer_empty)
    BY <1>1, <1>5, <2>1, <2>3 DEF ReadTest
  <2> QED BY <2>2, <2>3
<1>6. CASE ReadAppend
  <2>1. CASE got = 0
    BY <1>1, <1>6, <2>1 DEF ReadAppend
  <2>2. CASE got # 0
    <3>1. /\ dest' = Append(dest, got) /\ count' = count /\ pc = "append"
          /\ pc' = IF got = 10 THEN "iretq" ELSE "read"
      BY <1>6, <2>2 DEF ReadAppend
    <3>2. /\ Len(dest') = Len(dest) + 1 /\ dest'[Len(dest) + 1] = got
          /\ \A k \in 1 .. Len(dest) : dest'[k] = dest[k]
      BY <1>0, <3>1
    <3>3. Len(dest) < count /\ \A k \in 1 .. Len(dest) : dest[k] # 10
      BY <3>1 DEF LineInv
    <3>4. Len(dest') <= count'
      BY <1>0, <3>1, <3>2, <3>3
    <3>5. \A k \in 1 .. Len(dest') : k = Len(dest') \/ (k \in 1 .. Len(dest) /\ dest'[k] # 10)
      BY <1>0, <3>2, <3>3
    <3>6. got # 10 => \A k \in 1 .. Len(dest') : dest'[k] # 10
      BY <3>2, <3>5
    <3> QED BY <3>1, <3>4, <3>5, <3>6 DEF LineInv
  <2> QED BY <2>1, <2>2
<1>7. CASE Program
  <2>1. CASE Compute \/ CallGetRegs \/ CallSleep
    <3>1. UNCHANGED <<dest, count>> /\ pc' \notin ReadSteps
      BY <2>1 DEF Compute, CallGetRegs, CallSleep, Int80, kernelVars
    <3> QED BY <1>1, <3>1
  <2>2. CASE Exception \/ \E n \in Counts : CallRead(n)
    <3>1. dest' = <<>> /\ count' \in Nat /\ pc' \in {"user", "iretq", "read"}
      BY <1>0, <2>2, CountsAssumption DEF Exception, CallRead, Int80
    <3> QED BY <1>4, <3>1
  <2> QED BY <1>7, <2>1, <2>2 DEF Program
<1>8. CASE PopTake \/ PopAdvance \/ PopLoad \/ PopStore
  BY <1>2, <1>8 DEF PopTake, PopAdvance, PopLoad, PopStore, kernelVars
<1>9. CASE GetRegsCopy \/ Hlt \/ SleepDone \/ Iretq \/ TimerWake
  BY <1>1, <1>9 DEF GetRegsCopy, Hlt, SleepDone, Iretq, TimerWake, kernelVars
<1>10. CASE Irq01
  BY <1>1, <1>3, <1>10 DEF Irq01, kernelVars
<1>11. CASE Typing \/ UNCHANGED vars
  BY <1>3, <1>11 DEF Typing, cpuVars, kernelVars, vars
<1> QED BY <1>5, <1>6, <1>7, <1>8, <1>9, <1>10, <1>11 DEF Next, Kernel

\* syscall_read stores at most count characters, and a newline only as the last.
THEOREM LineCorrect == Spec => []OneLinePerRead
<1>1. Init => LineInv
  <2>1. Len(<<>>) = 0 /\ 1 .. Len(<<>>) = {}
    OBVIOUS
  <2> QED BY <2>1 DEF Init, LineInv, ReadSteps, PopSteps
<1>2. LineInv => OneLinePerRead
  BY DEF LineInv, OneLinePerRead
<1> QED BY <1>1, <1>2, LineNext, Invariance, PTL DEF Spec

-----------------------------------------------------------------------------
(* The refinement.                                                         *)

\* IRQ1 comes only where no pop is under way, and pushes at most one character.
LEMMA IrqRefines == IInv /\ Irq01 => [PathQueue!QNext]_(PathQueue!qvars)
<1> SUFFICES ASSUME IInv, Irq01
             PROVE  PathQueue!QNext \/ UNCHANGED PathQueue!qvars
  OBVIOUS
<1> USE DEF ReadSteps, PopSteps
<1>1. pc \notin PopSteps /\ pc' \notin PopSteps /\ got' = got
  BY DEF IInv, Exclusion, Irq01
<1>2. KbdTypeOK /\ RingAligned
  BY <1>1 DEF IInv, TypeOK, RingConsistent, RingAligned
<1>3. port \in Seq(0 .. 255) /\ port # <<>>
  BY <1>2 DEF KbdTypeOK, Irq01
<1>4. Head(port) \in 0 .. 255
  BY <1>3, HeadTailProperties
<1>5. keyboard_interrupt_handler(Head(port), 0)
  BY DEF Irq01
<1>6. CASE UNCHANGED <<buffer, readIndex, writeIndex, size, pushed>>
  BY <1>1, <1>6 DEF PathQueue!qvars, Contents
<1>7. CASE \E c \in Chars : buffer_push(c)
  <2>1. PICK c \in Chars : buffer_push(c)
    BY <1>7
  <2> DEFINE queue == Contents(readIndex, size)
  <2>2. /\ Len(queue) = size
        /\ IF size < BUFFER_SIZE THEN queue' = Append(queue, c) /\ pushed' = 1
                                 ELSE queue' = queue /\ pushed' = 0
    BY <1>2, <2>1, PushQueues DEF Slots, Contents
  <2> HIDE DEF queue
  <2>3. PathQueue!Type(c)
    BY <1>1, <2>2 DEF PathQueue!Type, queue
  <2> QED BY <2>3 DEF PathQueue!QNext
<1> QED BY <1>2, <1>4, <1>5, <1>6, <1>7, HandlerPush

\* The call takes the head of the queue when it loads the character, or finds
\* the queue empty; its other statements leave the queue as it is.
LEMMA PopRefines ==
  IInv /\ (ReadTest \/ PopTake \/ PopAdvance \/ PopLoad \/ PopStore)
    => [PathQueue!QNext]_(PathQueue!qvars)
<1> SUFFICES ASSUME IInv, ReadTest \/ PopTake \/ PopAdvance \/ PopLoad \/ PopStore
             PROVE  PathQueue!QNext \/ UNCHANGED PathQueue!qvars
  OBVIOUS
<1> USE DEF ReadSteps, PopSteps
<1>0. /\ buffer \in Buffers /\ readIndex \in 0 .. BUFFER_SIZE - 1
      /\ size \in 0 .. BUFFER_SIZE /\ BUFFER_SIZE \in Nat \ {0} /\ buffer' = buffer
      /\ pushed' = pushed
  BY BufferAssumption DEF IInv, TypeOK, KbdTypeOK, Buffers, driverVars,
                          ReadTest, PopTake, PopAdvance, PopLoad, PopStore
<1>1. pc \in PopSteps => size \in 1 .. BUFFER_SIZE
  BY <1>0 DEF IInv, Exclusion
<1>2. CASE ReadTest
  <2>1. pc = "read" /\ pc' \notin {"advance", "load", "store"} /\ UNCHANGED <<readIndex, size>>
    BY <1>2 DEF ReadTest
  <2>2. CASE Len(dest) < count /\ buffer_empty
    <3>1. size = 0 /\ got' = 0 /\ 1 .. 0 = {}
      BY <1>2, <2>2 DEF ReadTest, buffer_empty
    <3>2. Contents(readIndex, size) = <<>>
      BY <3>1 DEF Contents
    <3>3. Contents(readIndex, size)' = Contents(readIndex, size)
      BY <1>0, <2>1 DEF Contents
    <3>4. PathQueue!Read
      BY <1>0, <2>1, <3>1, <3>2, <3>3 DEF PathQueue!Read
    <3> QED BY <3>4 DEF PathQueue!QNext
  <2>3. CASE ~(Len(dest) < count /\ buffer_empty)
    <3>1. got' = got
      BY <1>2, <2>3 DEF ReadTest
    <3> QED BY <1>0, <2>1, <3>1 DEF PathQueue!qvars, Contents
  <2> QED BY <2>2, <2>3
<1>3. CASE PopTake
  <2>1. pc = "take" /\ pc' = "advance" /\ got' = buffer[readIndex] /\ UNCHANGED <<readIndex, size>>
    BY <1>3 DEF PopTake
  <2> DEFINE queue == Contents(readIndex, size)
  <2>2. queue # <<>> /\ Head(queue) = buffer[readIndex]
        /\ Slots(buffer, readIndex + 1, size - 1) = Tail(queue)
    BY <1>0, <1>1, <2>1, SlotsPop DEF Contents, Slots
  <2>3. Contents(readIndex + 1, size - 1)' = Tail(queue)
    BY <1>0, <2>1, <2>2 DEF Contents, Slots
  <2> HIDE DEF queue
  <2>4. PathQueue!Read
    BY <1>0, <2>1, <2>2, <2>3 DEF PathQueue!Read, queue
  <2> QED BY <2>4 DEF PathQueue!QNext
<1>4. CASE PopAdvance
  <2>1. /\ pc = "advance" /\ pc' = "load" /\ readIndex' = (readIndex + 1) % BUFFER_SIZE
        /\ UNCHANGED <<size, got>>
    BY <1>4 DEF PopAdvance
  <2>2. Slots(buffer, readIndex + 1, size - 1)
          = Slots(buffer, (readIndex + 1) % BUFFER_SIZE, size - 1)
    BY <1>0, <1>1, <2>1, SlotsPop
  <2>3. Contents(readIndex, size - 1)' = Contents(readIndex + 1, size - 1)
    BY <1>0, <2>1, <2>2 DEF Contents, Slots
  <2> QED BY <1>0, <2>1, <2>3 DEF PathQueue!qvars
<1>5. CASE PopLoad
  <2>1. pc = "load" /\ pc' = "store" /\ UNCHANGED <<readIndex, size, got>>
    BY <1>5 DEF PopLoad, popVars
  <2> QED BY <1>0, <2>1 DEF PathQueue!qvars, Contents
<1>6. CASE PopStore
  <2>1. pc = "store" /\ pc' = "append" /\ size' = tmp - 1 /\ tmp = size
        /\ UNCHANGED <<readIndex, got>>
    BY <1>6 DEF PopStore, IInv, Exclusion
  <2> QED BY <1>0, <2>1 DEF PathQueue!qvars, Contents
<1> QED BY <1>2, <1>3, <1>4, <1>5, <1>6

\* The ring popped by the statements of read, with the keyboard interrupting
\* wherever the flag lets it, implements the bounded queue of KeyQueue.
THEOREM PathImplementsQueue == Spec => InputIsQueue
<1>1. Init => PathQueue!QInit
  <2> SUFFICES ASSUME Init PROVE PathQueue!QInit
    OBVIOUS
  <2>1. size = 0 /\ got = 0 /\ pushed = 1 /\ pc = "user" /\ 1 .. 0 = {}
    BY DEF Init, KbdInit
  <2>2. Contents(readIndex, size) = <<>>
    BY <2>1 DEF Contents
  <2> QED BY <2>1, <2>2 DEF PathQueue!QInit
<1>2. IInv /\ [Next]_vars => [PathQueue!QNext]_(PathQueue!qvars)
  <2> SUFFICES ASSUME IInv, [Next]_vars
               PROVE  PathQueue!QNext \/ UNCHANGED PathQueue!qvars
    OBVIOUS
  <2>1. CASE /\ UNCHANGED <<buffer, readIndex, size, got, pushed>>
             /\ pc' = pc \/ (pc \notin PopSteps /\ pc' \notin PopSteps)
    BY <2>1 DEF PathQueue!qvars, Contents, PopSteps
  <2>2. CASE Program
    BY <2>1, <2>2 DEF Program, Compute, Exception, CallGetRegs, CallSleep, CallRead, Int80,
                      driverVars, popVars, PopSteps
  <2>3. CASE ReadAppend \/ GetRegsCopy \/ Hlt \/ SleepDone \/ Iretq \/ TimerWake
    BY <2>1, <2>3 DEF ReadAppend, GetRegsCopy, Hlt, SleepDone, Iretq, TimerWake,
                      driverVars, popVars, PopSteps
  <2>4. CASE Typing \/ UNCHANGED vars
    BY <2>1, <2>4 DEF Typing, Keyboard, cpuVars, vars
  <2> QED BY <2>2, <2>3, <2>4, IrqRefines, PopRefines DEF Next, Kernel
<1> QED BY <1>1, <1>2, Invariance, PTL DEF Spec, InputIsQueue, PathQueue!QSpec
=============================================================================
