------------------------------ MODULE KeyQueue ------------------------------
(***************************************************************************)
(* What the keyboard driver promises to the rest of the kernel: a bounded  *)
(* first-in first-out queue of characters.  A typed character is appended  *)
(* while there is room and refused, never another one displaced, when      *)
(* there is none; a reader gets the oldest character, or 0 exactly when    *)
(* the queue is empty (keyboardDriver.h, keyboard_read_getchar).           *)
(***************************************************************************)
EXTENDS Naturals, Sequences

CONSTANTS Capacity,     \* characters the queue can hold
          Chars         \* characters that can be typed

VARIABLES queue,        \* the characters typed and not read yet, oldest first
          got,          \* what the last reader was given; 0 when there was none
          accepted      \* 1 when the last typed character was queued, 0 if refused

qvars == <<queue, got, accepted>>

QInit == queue = <<>> /\ got = 0 /\ accepted = 1

Type(c) ==
  /\ IF Len(queue) < Capacity
       THEN queue' = Append(queue, c) /\ accepted' = 1
       ELSE queue' = queue /\ accepted' = 0
  /\ UNCHANGED got

Read ==
  /\ IF queue = <<>>
       THEN got' = 0 /\ UNCHANGED queue
       ELSE got' = Head(queue) /\ queue' = Tail(queue)
  /\ UNCHANGED accepted

QNext == Read \/ \E c \in Chars : Type(c)

QSpec == QInit /\ [][QNext]_qvars
=============================================================================
