----------------------------- MODULE BMFSProofs -----------------------------
(***************************************************************************)
(* Proofs about BMFS, for every disk, directory, set of names and sizes.   *)
(* The directory is read up to its end marker, so everything rests on the  *)
(* records in use being the first ones (Prefix).  What holds of the files  *)
(* depends on the commands: that no two overlap only without delete, that  *)
(* none is lost only in a directory with more records than names.          *)
(***************************************************************************)
EXTENDS BMFS, FiniteSetTheorems, TLAPS

-----------------------------------------------------------------------------
(* Least elements and the records in use.                                  *)

\* A set of natural numbers has a least element, and Min is one.
LEMMA MinOfNat ==
  ASSUME NEW S \in SUBSET Nat, S # {}
  PROVE  Min(S) \in S /\ \A y \in S : Min(S) <= y
<1> DEFINE R == OpToRel(<, Nat)
<1>1. IsWellFoundedOn(R, Nat)
  BY Zenon, NatLessThanWellFounded
<1>2. \A x, y \in Nat : x < y => <<x, y>> \in R
  BY Zenon DEF OpToRel
<1> HIDE DEF R
<1>3. PICK x \in S : \A y \in S : ~ (<<y, x>> \in R)
  BY <1>1, WFMin
<1>4. \A y \in S : ~(y < x)
  BY <1>2, <1>3
<1>5. \A y \in S : x <= y
  BY <1>4
<1> QED BY <1>5 DEF Min

\* The records in use are the first ones, as many as num_used_entries counts
\* when there is an end marker, which is then the next record.
LEMMA Prefix ==
  /\ Cardinality(InUse) \in 0 .. ENTRIES
  /\ InUse = 0 .. Cardinality(InUse) - 1
  /\ InUse = Slots <=> Cardinality(InUse) = ENTRIES
  /\ \A s \in InUse : Directory[s].FileName # END
  /\ InUse # Slots => /\ Cardinality(InUse) \in Slots
                      /\ Directory[Cardinality(InUse)].FileName = END
                      /\ num_used_entries = Cardinality(InUse)
  /\ InUse = Slots => num_used_entries = 0
<1>0. ENTRIES \in Nat \ {0}
  BY SizeAssumption
<1>1. \A n \in Nat : Cardinality(0 .. n - 1) = n
  <2> SUFFICES ASSUME NEW n \in Nat PROVE Cardinality(0 .. n - 1) = n
    OBVIOUS
  <2>1. Cardinality(0 .. n - 1) = IF 0 > n - 1 THEN 0 ELSE (n - 1) - 0 + 1
    BY FS_Interval
  <2> QED BY <2>1
<1>2. \A s \in InUse : Directory[s].FileName # END
  BY <1>0 DEF InUse, Slots
<1>3. CASE \A s \in Slots : Directory[s].FileName # END
  <2>1. InUse = 0 .. ENTRIES - 1
    BY <1>0, <1>3 DEF InUse, Slots
  <2>2. Cardinality(InUse) = ENTRIES
    BY <1>0, <1>1, <2>1
  <2> QED BY <1>0, <1>2, <2>1, <2>2 DEF Slots, num_used_entries
<1>4. CASE \E s \in Slots : Directory[s].FileName = END
  <2> DEFINE Ends == {s \in Slots : Directory[s].FileName = END}
             e == Min(Ends)
  <2>1. Ends \in SUBSET Nat /\ Ends # {}
    BY <1>0, <1>4 DEF Slots
  <2>2. e \in Ends /\ \A y \in Ends : e <= y
    BY <2>1, MinOfNat
  <2> HIDE DEF e
  <2>3. e \in Slots /\ e \in Nat /\ Directory[e].FileName = END
        /\ \A s \in Slots : s < e => Directory[s].FileName # END
    BY <1>0, <2>2 DEF Slots
  <2>4. InUse = 0 .. e - 1
    <3>1. ASSUME NEW s \in InUse PROVE s \in 0 .. e - 1
      BY <1>0, <2>3, <3>1 DEF InUse, Slots
    <3>2. ASSUME NEW s \in 0 .. e - 1 PROVE s \in InUse
      BY <1>0, <2>3, <3>2 DEF InUse, Slots
    <3> QED BY <3>1, <3>2
  <2>5. Cardinality(InUse) = e
    BY <1>1, <2>3, <2>4
  <2>6. InUse # Slots
    BY <1>2, <2>3
  <2> QED BY <1>0, <1>2, <2>3, <2>4, <2>5, <2>6 DEF Slots, num_used_entries
<1> QED BY <1>3, <1>4

\* The search of findfile and the choice of a free record answer with a record
\* of the directory.
LEMMA FoundSlot ==
  ASSUME NEW name, Exists(name)
  PROVE  SlotOf(name) \in Live /\ SlotOf(name) \in Slots
         /\ Directory[SlotOf(name)].FileName = name
<1>1. findfile(name) \in SUBSET Nat /\ findfile(name) # {}
  BY SizeAssumption DEF Exists, findfile, Live, InUse, Slots
<1>2. SlotOf(name) \in findfile(name)
  BY <1>1, MinOfNat DEF SlotOf
<1> QED BY <1>2 DEF findfile, Live, InUse

LEMMA FreeSlot ==
  ASSUME FreeSlots # {}
  PROVE  /\ Min(FreeSlots) \in Slots
         /\ Min(FreeSlots) \notin Live
         /\ \/ Min(FreeSlots) \in InUse
            \/ /\ InUse # Slots /\ InUse = Live
               /\ Min(FreeSlots) = Cardinality(InUse)
<1>1. FreeSlots \in SUBSET Nat /\ FreeSlots \subseteq Slots
  <2>1. InUse \ Live \subseteq Slots
    BY DEF InUse
  <2>2. InUse # Slots => Cardinality(InUse) \in Slots
    BY Prefix
  <2>3. FreeSlots \subseteq Slots
    BY <2>1, <2>2 DEF FreeSlots
  <2>4. Slots \subseteq Nat
    BY SizeAssumption DEF Slots
  <2> QED BY <2>3, <2>4
<1>2. Min(FreeSlots) \in FreeSlots /\ \A y \in FreeSlots : Min(FreeSlots) <= y
  BY <1>1, MinOfNat
<1>3. CASE Min(FreeSlots) \in InUse \ Live
  BY <1>1, <1>2, <1>3
<1>4. CASE Min(FreeSlots) \notin InUse \ Live
  <2>1. InUse # Slots /\ Min(FreeSlots) = Cardinality(InUse)
    BY <1>2, <1>4 DEF FreeSlots
  <2>2. ASSUME NEW s \in InUse, s \notin Live PROVE FALSE
    <3>1. s \in FreeSlots /\ s \in Nat /\ s < Cardinality(InUse)
      BY <2>2, Prefix DEF FreeSlots
    <3> QED BY <1>1, <1>2, <2>1, <3>1, Prefix
  <2>3. Live \subseteq InUse
    BY DEF Live
  <2> QED BY <1>1, <1>2, <2>1, <2>2, <2>3, Prefix
<1> QED BY <1>3, <1>4

-----------------------------------------------------------------------------
(* Types.                                                                  *)

\* Also in records that are not in use the length fits, and a write under way
\* has its file, whose length it respects: no command runs in between.
TypeInv ==
  /\ Directory \in [Slots -> Entry]
  /\ data \in [0 .. num_blocks - 1 -> Names \cup {NOBODY}]
  /\ \A s \in Slots : Directory[s].FileSize <= Directory[s].ReservedBlocks
  /\ writing \in [slot : Slots \cup {-1}, done : Nat, total : Nat]
  /\ writing.done <= writing.total
  /\ writing # NoWrite => /\ writing.slot \in Live
                          /\ writing.total <= Directory[writing.slot].ReservedBlocks

\* The files that were in use are those that still are, when no record changes
\* its name.
LEMMA SameLive ==
  ASSUME \A s \in Slots : Directory'[s].FileName = Directory[s].FileName
  PROVE  InUse' = InUse /\ Live' = Live
<1>1. InUse' = InUse
  <2>1. \A s \in Slots : \A t \in 0 .. s : t \in Slots
    BY SizeAssumption DEF Slots
  <2> QED BY <2>1 DEF InUse
<1>2. InUse \subseteq Slots
  BY DEF InUse
<1> QED BY <1>1, <1>2 DEF Live

\* A block the search offers is a number.
LEMMA PrevEndType ==
  ASSUME TypeInv, NEW o \in Sorted, NEW t \in 0 .. num_used_entries
  PROVE  PrevEnd(o, t) \in Nat /\ ThisStart(o, t) \in Nat
<1> DEFINE used == 0 .. num_used_entries - 1
<1>0. num_used_entries \in 0 .. ENTRIES /\ used \subseteq Slots /\ num_blocks - 1 \in Nat
      /\ ENTRIES \in Nat
  BY Prefix, SizeAssumption DEF Slots
<1>1. o \in [used -> used]
  BY DEF Sorted
<1>2. \A k \in used : /\ Directory[o[k]].StartingBlock \in Nat
                      /\ Directory[o[k]].ReservedBlocks \in Nat
  BY <1>0, <1>1 DEF TypeInv, Entry
<1>3. t # 0 => t - 1 \in used
  BY <1>0
<1>4. t # num_used_entries => t \in used
  BY <1>0
<1>5. PrevEnd(o, t) \in Nat
  BY <1>2, <1>3 DEF PrevEnd, FileEnd
<1>6. ThisStart(o, t) \in Nat
  BY <1>0, <1>2, <1>4 DEF ThisStart
<1> QED BY <1>5, <1>6

\* The turn in which the search stops.
LEMMA TurnFound ==
  ASSUME NEW o, NEW n, Turns(o, n) # {}
  PROVE  /\ Min(Turns(o, n)) \in 0 .. num_used_entries
         /\ Fits(o, Min(Turns(o, n)), n)
<1>1. Turns(o, n) \in SUBSET Nat
  BY Prefix DEF Turns
<1>2. Min(Turns(o, n)) \in Turns(o, n)
  BY <1>1, MinOfNat
<1> QED BY <1>2 DEF Turns

LEMMA InitTypeInv == Init => TypeInv
<1> SUFFICES ASSUME Init PROVE TypeInv
  OBVIOUS
<1>1. Blank \in Entry /\ Blank.FileSize = 0 /\ Blank.ReservedBlocks = 0
  BY DEF Blank, Entry
<1>2. Directory \in [Slots -> Entry]
      /\ \A s \in Slots : Directory[s].FileSize <= Directory[s].ReservedBlocks
  BY <1>1 DEF Init
<1>3. data \in [0 .. num_blocks - 1 -> Names \cup {NOBODY}]
  BY DEF Init
<1>4. writing = NoWrite /\ writing \in [slot : Slots \cup {-1}, done : Nat, total : Nat]
      /\ writing.done <= writing.total
  BY DEF Init, NoWrite
<1> QED BY <1>2, <1>3, <1>4 DEF TypeInv

\* What create does to the records.
LEMMA CreateRecords ==
  ASSUME TypeInv, NEW name \in Names, NEW n \in Requests, create(name, n)
  PROVE  /\ writing = NoWrite /\ FreeSlots # {} /\ ~Exists(name)
         /\ UNCHANGED <<data, writing>>
         /\ \E o \in Sorted :
              /\ Turns(o, n) # {}
              /\ PrevEnd(o, Min(Turns(o, n))) \in Nat
              /\ \A s \in Slots :
                   Directory'[s] =
                     CASE s = Min(FreeSlots) ->
                            [FileName |-> name, StartingBlock |-> PrevEnd(o, Min(Turns(o, n))),
                             ReservedBlocks |-> n, FileSize |-> 0]
                       [] s = Min(FreeSlots) + 1 /\ Min(FreeSlots) = num_used_entries ->
                            [Directory[s] EXCEPT !.FileName = END]
                       [] OTHER -> Directory[s]
              /\ Directory' \in [Slots -> Entry]
<1>1. PICK o \in Sorted :
        /\ Turns(o, n) # {}
        /\ Directory' = Recorded(Min(FreeSlots),
             [FileName |-> name, StartingBlock |-> PrevEnd(o, Min(Turns(o, n))),
              ReservedBlocks |-> n, FileSize |-> 0])
  BY DEF create
<1> DEFINE slot == Min(FreeSlots)
           new == [FileName |-> name, StartingBlock |-> PrevEnd(o, Min(Turns(o, n))),
                   ReservedBlocks |-> n, FileSize |-> 0]
<1>2. PrevEnd(o, Min(Turns(o, n))) \in Nat
  BY <1>1, TurnFound, PrevEndType
<1>3. n \in Nat
  BY RequestsAssumption
<1>4. new \in Entry
  BY <1>2, <1>3 DEF Entry
<1> HIDE DEF new, slot
<1>5. \A s \in Slots :
        Directory'[s] = CASE s = slot -> new
                          [] s = slot + 1 /\ slot = num_used_entries ->
                               [Directory[s] EXCEPT !.FileName = END]
                          [] OTHER -> Directory[s]
  BY <1>1 DEF Recorded, new, slot
<1>6. Directory' \in [Slots -> Entry]
  <2>1. Directory' = Recorded(slot, new)
    BY <1>1 DEF new, slot
  <2>2. \A s \in Slots : [Directory[s] EXCEPT !.FileName = END] \in Entry /\ Directory[s] \in Entry
    BY DEF TypeInv, Entry
  <2> QED BY <1>4, <2>1, <2>2 DEF Recorded
<1>7. writing = NoWrite /\ FreeSlots # {} /\ ~Exists(name) /\ UNCHANGED <<data, writing>>
  BY DEF create
<1> QED BY <1>1, <1>2, <1>5, <1>6, <1>7 DEF new, slot

LEMMA NextTypeInv == TypeInv /\ [Next]_vars => TypeInv'
<1> SUFFICES ASSUME TypeInv, [Next]_vars PROVE TypeInv'
  OBVIOUS
<1>0. /\ Directory \in [Slots -> Entry]
      /\ data \in [0 .. num_blocks - 1 -> Names \cup {NOBODY}]
      /\ \A s \in Slots : Directory[s].FileSize <= Directory[s].ReservedBlocks
      /\ writing \in [slot : Slots \cup {-1}, done : Nat, total : Nat]
      /\ writing.done <= writing.total
      /\ writing # NoWrite => /\ writing.slot \in Live
                              /\ writing.total <= Directory[writing.slot].ReservedBlocks
  BY DEF TypeInv
<1>1. /\ NoWrite \in [slot : Slots \cup {-1}, done : Nat, total : Nat]
      /\ NoWrite.done <= NoWrite.total
  BY DEF NoWrite
<1>2. ASSUME NEW name \in Names, NEW n \in Requests, create(name, n)
      PROVE  TypeInv'
  <2>1. Directory' \in [Slots -> Entry] /\ UNCHANGED <<data, writing>> /\ writing = NoWrite
    BY <1>2, CreateRecords
  <2>2. \A s \in Slots : Directory'[s].FileSize <= Directory'[s].ReservedBlocks
    <3> SUFFICES ASSUME NEW s \in Slots
                 PROVE  Directory'[s].FileSize <= Directory'[s].ReservedBlocks
      OBVIOUS
    <3> DEFINE slot == Min(FreeSlots)
    <3>1. PICK start \in Nat :
            Directory'[s] = CASE s = slot ->
                                   [FileName |-> name, StartingBlock |-> start,
                                    ReservedBlocks |-> n, FileSize |-> 0]
                              [] s = slot + 1 /\ slot = num_used_entries ->
                                   [Directory[s] EXCEPT !.FileName = END]
                              [] OTHER -> Directory[s]
      BY <1>2, CreateRecords
    <3> HIDE DEF slot
    <3>2. \/ Directory'[s].FileSize = 0 /\ Directory'[s].ReservedBlocks = n
          \/ Directory'[s] = [Directory[s] EXCEPT !.FileName = END]
          \/ Directory'[s] = Directory[s]
      BY <3>1
    <3>3. n \in Nat
      BY RequestsAssumption
    <3>4. [Directory[s] EXCEPT !.FileName = END].FileSize = Directory[s].FileSize
          /\ [Directory[s] EXCEPT !.FileName = END].ReservedBlocks = Directory[s].ReservedBlocks
      BY <1>0 DEF Entry
    <3>5. Directory[s].FileSize <= Directory[s].ReservedBlocks
      BY <1>0
    <3>6. CASE Directory'[s].FileSize = 0 /\ Directory'[s].ReservedBlocks = n
      BY <3>3, <3>6
    <3>7. CASE Directory'[s] = [Directory[s] EXCEPT !.FileName = END]
      BY <3>4, <3>5, <3>7
    <3>8. CASE Directory'[s] = Directory[s]
      BY <3>5, <3>8
    <3> QED BY <3>2, <3>6, <3>7, <3>8
  <2> QED BY <1>0, <2>1, <2>2 DEF TypeInv
<1>3. ASSUME NEW name \in Names, delete(name)
      PROVE  TypeInv'
  <2>1. SlotOf(name) \in Slots /\ writing = NoWrite /\ UNCHANGED <<data, writing>>
        /\ Directory' = [Directory EXCEPT ![SlotOf(name)].FileName = DELETED]
    BY <1>3, FoundSlot DEF delete
  <2>2. Directory' \in [Slots -> Entry]
        /\ \A s \in Slots : /\ Directory'[s].FileSize = Directory[s].FileSize
                            /\ Directory'[s].ReservedBlocks = Directory[s].ReservedBlocks
    BY <1>0, <2>1 DEF Entry
  <2> QED BY <1>0, <2>1, <2>2 DEF TypeInv
<1>4. ASSUME format PROVE TypeInv'
  <2>1. Blank \in Entry /\ Blank.FileSize = 0 /\ Blank.ReservedBlocks = 0
    BY DEF Blank, Entry
  <2>2. Directory' = [s \in Slots |-> Blank] /\ writing = NoWrite /\ UNCHANGED <<data, writing>>
    BY <1>4 DEF format
  <2> QED BY <1>0, <2>1, <2>2 DEF TypeInv
<1>5. ASSUME NEW name \in Names, NEW n \in Requests, write(name, n)
      PROVE  TypeInv'
  <2>1. /\ SlotOf(name) \in Live /\ SlotOf(name) \in Slots
        /\ n <= Directory[SlotOf(name)].ReservedBlocks /\ n \in Nat
        /\ writing' = [slot |-> SlotOf(name), done |-> 0, total |-> n]
        /\ UNCHANGED <<Directory, data>>
    BY <1>5, FoundSlot, RequestsAssumption DEF write
  <2>2. Live' = Live
    BY <2>1, SameLive
  <2> QED BY <1>0, <2>1, <2>2 DEF TypeInv
<1>6. ASSUME WriteBlock PROVE TypeInv'
  <2>1. /\ writing # NoWrite /\ writing.done < writing.total /\ UNCHANGED Directory
        /\ writing' = [writing EXCEPT !.done = @ + 1]
        /\ data' = [data EXCEPT ![Directory[writing.slot].StartingBlock + writing.done]
                                  = Directory[writing.slot].FileName]
    BY <1>6 DEF WriteBlock
  <2>2. Directory[writing.slot].FileName \in Names
    <3>1. writing.slot \in Slots /\ writing.slot \in InUse
          /\ Directory[writing.slot].FileName # DELETED
      BY <1>0, <2>1 DEF Live, InUse
    <3>2. Directory[writing.slot].FileName # END
      BY <3>1, Prefix
    <3> QED BY <1>0, <3>1, <3>2 DEF Entry
  <2>3. data' \in [0 .. num_blocks - 1 -> Names \cup {NOBODY}]
    BY <1>0, <2>1, <2>2
  <2>4. /\ writing'.slot = writing.slot /\ writing'.total = writing.total
        /\ writing' \in [slot : Slots \cup {-1}, done : Nat, total : Nat]
        /\ writing'.done <= writing'.total
    BY <1>0, <2>1
  <2>5. Live' = Live
    BY <2>1, SameLive
  <2> QED BY <1>0, <2>1, <2>3, <2>4, <2>5 DEF TypeInv
<1>7. ASSUME WriteLength PROVE TypeInv'
  <2>1. /\ writing # NoWrite /\ writing' = NoWrite /\ data' = data
        /\ Directory' = [Directory EXCEPT ![writing.slot].FileSize = writing.total]
    BY <1>7 DEF WriteLength
  <2>2. writing.slot \in Slots /\ writing.total \in Nat
        /\ writing.total <= Directory[writing.slot].ReservedBlocks
    BY <1>0, <2>1 DEF Live, InUse
  <2>3. Directory' \in [Slots -> Entry]
        /\ \A s \in Slots : /\ Directory'[s].ReservedBlocks = Directory[s].ReservedBlocks
                            /\ \/ Directory'[s].FileSize = Directory[s].FileSize
                               \/ s = writing.slot /\ Directory'[s].FileSize = writing.total
    BY <1>0, <2>1, <2>2 DEF Entry
  <2>4. \A s \in Slots : Directory'[s].FileSize <= Directory'[s].ReservedBlocks
    BY <1>0, <2>2, <2>3
  <2> QED BY <1>0, <1>1, <2>1, <2>3, <2>4 DEF TypeInv
<1>8. ASSUME Crash PROVE TypeInv'
  BY <1>0, <1>1, <1>8 DEF Crash, TypeInv
<1>9. CASE UNCHANGED vars
  <2>1. UNCHANGED <<Directory, data, writing>> /\ Live' = Live
    BY <1>9, SameLive DEF vars
  <2> QED BY <1>0, <2>1 DEF TypeInv
<1> QED BY <1>2, <1>3, <1>4, <1>5, <1>6, <1>7, <1>8, <1>9 DEF Next

LEMMA TypeInvariance == Spec => []TypeInv
BY InitTypeInv, NextTypeInv, PTL DEF Spec

\* The types of the directory and of the disk; no file is longer than what is
\* reserved for it, and a write stays within the length it has checked.
THEOREM DiskTypes == Spec => []TypeOK
<1>1. TypeInv => TypeOK
  BY DEF TypeInv, TypeOK, Live, InUse
<1> QED BY <1>1, TypeInvariance, PTL

-----------------------------------------------------------------------------
(* The search for room.                                                    *)

\* The loop of create finds a gap whenever there is one: the first turn whose
\* file starts after the gap, or is deleted, or is the last, ends after it,
\* and every file of an earlier turn ends before it.
THEOREM RoomFound == Spec => []FindsRoom
<1>1. ASSUME TypeInv PROVE FindsRoom
  <2> SUFFICES ASSUME NEW n \in Requests, NEW o \in Sorted, NEW b \in 1 .. num_blocks - 1 - n,
                      \A s \in Live : b + n <= Directory[s].StartingBlock \/ FileEnd(s) <= b
               PROVE  Turns(o, n) # {}
    BY DEF FindsRoom
  <2> DEFINE N == num_used_entries
             used == 0 .. N - 1
             Past == {t \in 0 .. N : \/ t = N
                                     \/ Directory[o[t]].FileName = DELETED
                                     \/ Directory[o[t]].StartingBlock >= b + n}
             m == Min(Past)
  <2>0. /\ N \in 0 .. ENTRIES /\ ENTRIES \in Nat /\ num_blocks \in Nat
        /\ n \in Nat /\ b \in Nat /\ b >= 1 /\ b + n <= num_blocks - 1
    BY Prefix, SizeAssumption, RequestsAssumption
  <2>1. o \in [used -> used] /\ used \subseteq InUse
    <3>1. o \in [used -> used]
      BY DEF Sorted
    <3>2. used \subseteq InUse
      BY Prefix
    <3> QED BY <3>1, <3>2
  <2>2. Past \in SUBSET Nat /\ N \in Past
    BY <2>0
  <2>3. m \in Past /\ \A t \in Past : m <= t
    <3> HIDE DEF Past
    <3> QED BY <2>2, MinOfNat
  <2> HIDE DEF m
  <2>4. m \in 0 .. N
    BY <2>3
  <2>5. ThisStart(o, m) \in Nat /\ ThisStart(o, m) >= b + n
    <3>1. CASE m = N \/ Directory[o[m]].FileName = DELETED
      BY <2>0, <3>1 DEF ThisStart
    <3>2. CASE ~(m = N \/ Directory[o[m]].FileName = DELETED)
      <4>1. ThisStart(o, m) = Directory[o[m]].StartingBlock
            /\ Directory[o[m]].StartingBlock >= b + n
        BY <2>3, <3>2 DEF ThisStart
      <4>2. ThisStart(o, m) \in Nat
        BY <1>1, <2>4, PrevEndType
      <4> QED BY <4>1, <4>2
    <3> QED BY <3>1, <3>2
  <2>6. PrevEnd(o, m) \in Nat /\ PrevEnd(o, m) <= b
    <3>1. CASE m = 0
      BY <2>0, <3>1 DEF PrevEnd
    <3>2. CASE m # 0
      <4>1. m - 1 \in used /\ m - 1 \in 0 .. N /\ m - 1 # N /\ ~(m <= m - 1)
        BY <2>0, <2>4, <3>2
      <4>2. m - 1 \notin Past
        BY <2>3, <4>1
      <4>3. Directory[o[m - 1]].FileName # DELETED
            /\ ~(Directory[o[m - 1]].StartingBlock >= b + n)
        BY <4>1, <4>2
      <4>4. o[m - 1] \in Live
        BY <2>1, <4>1, <4>3 DEF Live
      <4>5. FileEnd(o[m - 1]) <= b
        <5>1. Directory[o[m - 1]].StartingBlock \in Nat
          BY <1>1, <4>4 DEF TypeInv, Live, InUse, Entry
        <5> QED BY <2>0, <4>3, <4>4, <5>1
      <4>6. PrevEnd(o, m) \in Nat
        BY <1>1, <2>4, PrevEndType
      <4> QED BY <3>2, <4>5, <4>6 DEF PrevEnd
    <3> QED BY <3>1, <3>2
  <2>7. Fits(o, m, n)
    BY <2>0, <2>5, <2>6 DEF Fits
  <2> QED BY <2>4, <2>7 DEF Turns
<1> QED BY <1>1, TypeInvariance, PTL

-----------------------------------------------------------------------------
(* Names.                                                                  *)

\* What the commands do to the files there are: create adds one, or in a full
\* directory may cut it off; the others add none.
LEMMA CreateLive ==
  ASSUME TypeInv, NEW name \in Names, NEW n \in Requests, create(name, n)
  PROVE  LET slot == Min(FreeSlots)
         IN  /\ slot \in Slots /\ slot \notin Live
             /\ Directory'[slot].FileName = name
             /\ \A s \in Live' : s = slot \/ (s \in Live /\ Directory'[s] = Directory[s])
             /\ InUse # Slots =>
                  /\ InUse' = InUse \cup {slot} /\ Live' = Live \cup {slot}
                  /\ \A s \in InUse : s # slot => Directory'[s] = Directory[s]
<1> DEFINE slot == Min(FreeSlots)
           N == Cardinality(InUse)
<1>1. /\ slot \in Slots /\ slot \notin Live
      /\ slot \in InUse \/ (InUse # Slots /\ InUse = Live /\ slot = N)
  BY FreeSlot, CreateRecords
<1>2. /\ InUse # Slots => num_used_entries = N
      /\ InUse = 0 .. N - 1 /\ N \in 0 .. ENTRIES
      /\ \A s \in InUse : Directory[s].FileName # END
  BY Prefix
<1>3. name # END /\ name # DELETED
  BY NamesAssumption
<1>4. PICK start \in Nat :
        \A s \in Slots :
          Directory'[s] = CASE s = slot ->
                                 [FileName |-> name, StartingBlock |-> start,
                                  ReservedBlocks |-> n, FileSize |-> 0]
                            [] s = slot + 1 /\ slot = num_used_entries ->
                                 [Directory[s] EXCEPT !.FileName = END]
                            [] OTHER -> Directory[s]
  BY CreateRecords
<1> HIDE DEF slot, N
<1>5. Slots = 0 .. ENTRIES - 1 /\ ENTRIES \in Nat \ {0}
  BY SizeAssumption DEF Slots
<1>6. Directory'[slot].FileName = name
  <2>1. Directory'[slot] = [FileName |-> name, StartingBlock |-> start,
                            ReservedBlocks |-> n, FileSize |-> 0]
    <3>1. slot \in Slots /\ slot # slot + 1
      BY <1>1, <1>5
    <3> QED BY <1>4, <3>1
  <2> QED BY <2>1
<1>7. \A s \in Slots : s # slot /\ ~(s = slot + 1 /\ slot = num_used_entries)
                         => Directory'[s] = Directory[s]
  BY <1>4
<1>8. slot + 1 \in Slots /\ slot = num_used_entries => Directory'[slot + 1].FileName = END
  <2> SUFFICES ASSUME slot + 1 \in Slots, slot = num_used_entries
               PROVE  Directory'[slot + 1].FileName = END
    OBVIOUS
  <2>1. slot + 1 # slot
    BY <1>1, <1>5
  <2>2. Directory'[slot + 1] = [Directory[slot + 1] EXCEPT !.FileName = END]
    BY <1>4, <2>1
  <2>3. Directory[slot + 1] \in Entry
    BY DEF TypeInv
  <2> QED BY <2>2, <2>3 DEF Entry
<1>9. InUse' = {s \in Slots : \A t \in 0 .. s : Directory'[t].FileName # END}
  BY DEF InUse
<1>10. ASSUME NEW s \in InUse', s # slot
       PROVE  s \in InUse /\ Directory'[s] = Directory[s]
  <2>1. s \in Slots /\ \A t \in 0 .. s : t \in Slots /\ Directory'[t].FileName # END
    BY <1>5, <1>9
  <2>2. \A t \in 0 .. s : t # slot => Directory'[t] = Directory[t]
    <3> SUFFICES ASSUME NEW t \in 0 .. s, t # slot PROVE Directory'[t] = Directory[t]
      OBVIOUS
    <3>1. ~(t = slot + 1 /\ slot = num_used_entries)
      BY <1>8, <2>1
    <3> QED BY <1>7, <1>10, <2>1, <3>1
  <2>3. slot \in 0 .. s => Directory[slot].FileName # END
    <3> SUFFICES ASSUME slot \in 0 .. s PROVE slot \in InUse
      BY <1>2
    <3>1. CASE slot = num_used_entries
      <4>1. slot + 1 \in 0 .. s
        BY <1>5, <1>10, <2>1
      <4> QED BY <1>8, <2>1, <3>1, <4>1
    <3>2. CASE slot # num_used_entries
      BY <1>1, <1>2, <3>2
    <3> QED BY <3>1, <3>2
  <2>4. \A t \in 0 .. s : Directory[t].FileName # END
    BY <2>1, <2>2, <2>3
  <2> QED BY <1>5, <1>10, <2>1, <2>2, <2>4 DEF InUse
<1>11. \A s \in Live' : s = slot \/ (s \in Live /\ Directory'[s] = Directory[s])
  BY <1>10 DEF Live
<1>12. ASSUME InUse # Slots
       PROVE  /\ InUse' = InUse \cup {slot} /\ Live' = Live \cup {slot}
              /\ \A s \in InUse : s # slot => Directory'[s] = Directory[s]
  <2>1. \A s \in InUse : s \in Slots /\ (s # slot => Directory'[s] = Directory[s])
    <3> SUFFICES ASSUME NEW s \in InUse, s # slot PROVE Directory'[s] = Directory[s]
      BY DEF InUse
    <3>1. s \in Slots /\ s \in 0 .. N - 1
      BY <1>2 DEF InUse
    <3>2. ~(s = slot + 1 /\ slot = num_used_entries)
      BY <1>2, <1>12, <3>1
    <3> QED BY <1>7, <3>1, <3>2
  <2>2. \A t \in InUse \cup {slot} : Directory'[t].FileName # END
    BY <1>2, <1>3, <1>6, <2>1
  <2>3. \A s \in InUse \cup {slot} : 0 .. s \subseteq InUse \cup {slot}
    BY <1>1, <1>2
  <2>4. InUse \cup {slot} \subseteq InUse'
    BY <1>1, <1>9, <2>1, <2>2, <2>3
  <2>5. InUse' = InUse \cup {slot}
    BY <1>10, <2>4
  <2>6. \A s \in InUse' : Directory'[s].FileName # DELETED
                            <=> s = slot \/ Directory[s].FileName # DELETED
    BY <1>3, <1>6, <2>1, <2>5
  <2>7. Live' = Live \cup {slot}
    BY <1>1, <2>5, <2>6 DEF Live
  <2> QED BY <2>1, <2>5, <2>7
<1> QED BY <1>1, <1>6, <1>11, <1>12 DEF slot

LEMMA OtherLive ==
  ASSUME TypeInv, [Next]_vars,
         ~\E name \in Names, n \in Requests : create(name, n)
  PROVE  /\ InUse' \subseteq InUse /\ Live' \subseteq Live
         /\ \A s \in Live' : /\ Directory'[s].FileName = Directory[s].FileName
                             /\ Directory'[s].StartingBlock = Directory[s].StartingBlock
                             /\ Directory'[s].ReservedBlocks = Directory[s].ReservedBlocks
<1>0. Directory \in [Slots -> Entry] /\ Live \subseteq Slots /\ Slots = 0 .. ENTRIES - 1
      /\ ENTRIES \in Nat \ {0}
  BY SizeAssumption DEF TypeInv, Live, InUse, Slots
<1>1. CASE UNCHANGED Directory
  <2>1. InUse' = InUse /\ Live' = Live
    BY <1>1, SameLive
  <2> QED BY <1>1, <2>1
<1>2. ASSUME NEW name \in Names, delete(name)
      PROVE  /\ InUse' = InUse /\ Live' = Live \ {SlotOf(name)}
             /\ Directory' = [Directory EXCEPT ![SlotOf(name)].FileName = DELETED]
  <2>1. SlotOf(name) \in Live /\ SlotOf(name) \in Slots
        /\ Directory' = [Directory EXCEPT ![SlotOf(name)].FileName = DELETED]
    BY <1>2, FoundSlot DEF delete
  <2> DEFINE slot == SlotOf(name)
  <2> HIDE DEF slot
  <2>2. /\ \A s \in Slots : s # slot => Directory'[s] = Directory[s]
        /\ Directory'[slot].FileName = DELETED
    BY <1>0, <2>1 DEF slot, Entry
  <2>3. \A s \in Slots : Directory'[s].FileName # END <=> Directory[s].FileName # END
    <3>1. Directory[slot].FileName # END
      BY <2>1, Prefix DEF Live, slot
    <3> QED BY <2>2, <3>1 DEF END, DELETED
  <2>4. InUse' = InUse
    <3>1. \A s \in Slots : \A t \in 0 .. s : t \in Slots
      BY <1>0
    <3> QED BY <2>3, <3>1 DEF InUse
  <2>5. Live' = Live \ {slot}
    BY <2>2, <2>4 DEF Live, InUse
  <2> QED BY <2>1, <2>4, <2>5 DEF slot
<1>3. ASSUME format PROVE InUse' = {} /\ Live' = {}
  <2>1. \A s \in Slots : Directory'[0].FileName = END /\ 0 \in 0 .. s
    BY <1>0, <1>3 DEF format, Blank
  <2> QED BY <2>1 DEF InUse, Live
<1>4. ASSUME WriteLength
      PROVE  /\ InUse' = InUse /\ Live' = Live
             /\ \A s \in Slots : /\ Directory'[s].FileName = Directory[s].FileName
                                 /\ Directory'[s].StartingBlock = Directory[s].StartingBlock
                                 /\ Directory'[s].ReservedBlocks = Directory[s].ReservedBlocks
  <2>1. Directory' = [Directory EXCEPT ![writing.slot].FileSize = writing.total]
    BY <1>4 DEF WriteLength
  <2>2. \A s \in Slots : /\ Directory'[s].FileName = Directory[s].FileName
                         /\ Directory'[s].StartingBlock = Directory[s].StartingBlock
                         /\ Directory'[s].ReservedBlocks = Directory[s].ReservedBlocks
    BY <1>0, <2>1 DEF Entry
  <2> QED BY <2>2, SameLive
<1>5. CASE \E name \in Names : delete(name)
  <2>1. PICK name \in Names : delete(name)
    BY <1>5
  <2>2. \A s \in Live' : s \in Slots /\ s # SlotOf(name)
    BY <1>0, <1>2, <2>1
  <2>3. \A s \in Live' : Directory'[s] = Directory[s]
    BY <1>0, <1>2, <2>1, <2>2
  <2> QED BY <1>2, <2>1, <2>3
<1>6. CASE \E name \in Names, n \in Requests : write(name, n)
  BY <1>1, <1>6 DEF write
<1>7. CASE WriteBlock \/ Crash \/ UNCHANGED vars
  BY <1>1, <1>7 DEF WriteBlock, Crash, vars
<1>8. CASE format
  BY <1>3, <1>8
<1>9. CASE WriteLength
  BY <1>0, <1>4, <1>9
<1> QED BY <1>5, <1>6, <1>7, <1>8, <1>9 DEF Next

\* No two files in use have the same name.
UniqueInv == \A s, t \in Live : s # t => Directory[s].FileName # Directory[t].FileName

LEMMA NextUnique == TypeInv /\ UniqueInv /\ [Next]_vars => UniqueInv'
<1> SUFFICES ASSUME TypeInv, UniqueInv, [Next]_vars PROVE UniqueInv'
  OBVIOUS
<1>1. ASSUME NEW name \in Names, NEW n \in Requests, create(name, n)
      PROVE  UniqueInv'
  <2>1. PICK slot : /\ Directory'[slot].FileName = name
                    /\ \A s \in Live' : s = slot \/ (s \in Live /\ Directory'[s] = Directory[s])
    BY <1>1, CreateLive
  <2>2. \A s \in Live : Directory[s].FileName # name
    BY <1>1 DEF create, Exists, findfile
  <2> QED BY <2>1, <2>2 DEF UniqueInv
<1>2. CASE ~\E name \in Names, n \in Requests : create(name, n)
  BY <1>2, OtherLive DEF UniqueInv
<1> QED BY <1>1, <1>2

\* A name has one record among those before the end of the directory, whatever
\* was deleted and created before.
THEOREM NamesUnique == Spec => []UniqueNames
<1>1. Init => UniqueInv
  <2> SUFFICES ASSUME Init PROVE Live = {}
    BY DEF UniqueInv
  <2>1. \A s \in Slots : 0 \in 0 .. s /\ 0 \in Slots
    BY SizeAssumption DEF Slots
  <2> QED BY <2>1 DEF Init, Blank, Live, InUse
<1>2. UniqueInv => UniqueNames
  <2> SUFFICES ASSUME UniqueInv, NEW t \in Slots,
                      \A e \in 0 .. t : Directory[e].FileName # END,
                      NEW s \in 0 .. t - 1, Directory[s].FileName \in Names,
                      Directory[s].FileName = Directory[t].FileName
               PROVE  FALSE
    BY DEF UniqueNames
  <2>1. s \in Slots /\ s # t /\ 0 .. s \subseteq 0 .. t
    BY SizeAssumption DEF Slots
  <2>2. s \in InUse /\ t \in InUse
    BY <2>1 DEF InUse
  <2>3. s \in Live /\ t \in Live
    BY <2>2, NamesAssumption DEF Live
  <2> QED BY <2>1, <2>3 DEF UniqueInv
<1> QED BY <1>1, <1>2, TypeInvariance, NextUnique, PTL DEF Spec

-----------------------------------------------------------------------------
(* Files that stay.  In a full directory without an end marker the count of *)
(* used records is 0 and a create in the first record cuts off the others,  *)
(* so the next theorem is about directories with more records than names.   *)

\* There are never more records in use than names: a deleted record is used
\* again before the directory grows.
FewInv == IsFiniteSet(Names) /\ Cardinality(InUse) <= Cardinality(Names)

LEMMA NextFew ==
  TypeInv /\ UniqueInv /\ FewInv /\ Cardinality(Names) < ENTRIES /\ [Next]_vars => FewInv'
<1> SUFFICES ASSUME TypeInv, UniqueInv, FewInv, Cardinality(Names) < ENTRIES, [Next]_vars
             PROVE  FewInv'
  OBVIOUS
<1>0. IsFiniteSet(Names) /\ Cardinality(Names) \in Nat /\ ENTRIES \in Nat
      /\ Cardinality(InUse) \in Nat /\ Cardinality(InUse) <= Cardinality(Names)
  BY FS_CardinalityType, SizeAssumption, Prefix DEF FewInv
<1>1. InUse # Slots /\ IsFiniteSet(InUse)
  <2>1. InUse = 0 .. Cardinality(InUse) - 1
    BY Prefix
  <2>2. IsFiniteSet(0 .. Cardinality(InUse) - 1)
    BY <1>0, FS_Interval
  <2> QED BY <1>0, <2>1, <2>2, Prefix
<1>2. ASSUME NEW name \in Names, NEW n \in Requests, create(name, n)
      PROVE  Cardinality(InUse') <= Cardinality(Names)
  <2> DEFINE slot == Min(FreeSlots)
  <2>1. InUse' = InUse \cup {slot} /\ FreeSlots # {}
    BY <1>1, <1>2, CreateLive DEF create
  <2>2. \/ slot \in InUse
        \/ InUse = Live /\ slot = Cardinality(InUse)
    BY <2>1, FreeSlot
  <2> HIDE DEF slot
  <2>3. CASE slot \in InUse
    <3>1. InUse' = InUse
      BY <2>1, <2>3
    <3> QED BY <1>0, <3>1
  <2>4. CASE InUse = Live /\ slot = Cardinality(InUse)
    <3> DEFINE Others == Names \ {name}
               named == [s \in Live |-> Directory[s].FileName]
    <3>1. \A s \in Live : Directory[s].FileName \in Others
      <4> SUFFICES ASSUME NEW s \in Live PROVE Directory[s].FileName \in Others
        OBVIOUS
      <4>1. s \in InUse /\ s \in Slots /\ Directory[s].FileName # DELETED
        BY DEF Live, InUse
      <4>2. Directory[s].FileName # END /\ Directory[s] \in Entry
        BY <4>1, Prefix DEF TypeInv
      <4>3. Directory[s].FileName # name
        <5>1. findfile(name) = {}
          BY <1>2 DEF create, Exists
        <5> QED BY <5>1 DEF findfile
      <4> QED BY <4>1, <4>2, <4>3 DEF Entry
    <3>2. named \in Injection(Live, Others)
      BY <3>1 DEF UniqueInv, Injection, IsInjective
    <3>3. IsFiniteSet(Others) /\ Cardinality(Others) = Cardinality(Names) - 1
      BY <1>0, FS_RemoveElement
    <3> HIDE DEF Others, named
    <3>4. Cardinality(InUse) <= Cardinality(Names) - 1
      BY <2>4, <3>2, <3>3, FS_Injection
    <3>5. slot \notin InUse
      BY <1>0, <2>4, Prefix
    <3>6. Cardinality(InUse') = Cardinality(InUse) + 1
      BY <1>1, <2>1, <3>5, FS_AddElement
    <3> QED BY <1>0, <3>4, <3>6
  <2> QED BY <2>2, <2>3, <2>4
<1>3. CASE ~\E name \in Names, n \in Requests : create(name, n)
  <2>1. InUse' \subseteq InUse
    BY <1>3, OtherLive
  <2>2. Cardinality(InUse') <= Cardinality(InUse) /\ Cardinality(InUse') \in Nat
    BY <1>1, <2>1, FS_Subset, FS_CardinalityType
  <2> QED BY <1>0, <2>2 DEF FewInv
<1> QED BY <1>0, <1>2, <1>3 DEF FewInv

\* A step that is neither the deletion of a file nor a format keeps the file:
\* no command but those makes a file disappear from the directory.
THEOREM FilesStay ==
  ASSUME IsFiniteSet(Names), Cardinality(Names) < ENTRIES
  PROVE  Spec => NoFileLost
<1>1. Init => UniqueInv /\ FewInv
  <2> SUFFICES ASSUME Init PROVE InUse = {}
    BY SMTT(30), FS_EmptySet, FS_CardinalityType DEF UniqueInv, FewInv, Live
  <2>1. \A s \in Slots : 0 \in 0 .. s /\ 0 \in Slots
    BY SizeAssumption DEF Slots
  <2> QED BY <2>1 DEF Init, Blank, InUse
<1>2. ASSUME TypeInv, FewInv, [Next]_vars, NEW name \in Names, Exists(name), ~Exists(name)'
      PROVE  \/ Directory'[SlotOf(name)].FileName = DELETED
             \/ \A s \in Slots : Directory'[s].FileName = END
  <2>1. PICK s \in Live : Directory[s].FileName = name
    BY <1>2 DEF Exists, findfile
  <2>2. s \notin Live' \/ Directory'[s].FileName # name
    BY <1>2 DEF Exists, findfile
  <2>3. InUse # Slots /\ Live \subseteq InUse /\ InUse \subseteq Slots
    <3>1. Cardinality(InUse) # ENTRIES
      BY <1>2, FS_CardinalityType, Prefix, SizeAssumption DEF FewInv
    <3> QED BY <3>1, Prefix DEF Live, InUse
  <2>4. ASSUME NEW other \in Names, NEW n \in Requests, create(other, n)
        PROVE  FALSE
    <3> DEFINE slot == Min(FreeSlots)
    <3>1. /\ slot \notin Live /\ Live' = Live \cup {slot}
          /\ \A t \in InUse : t # slot => Directory'[t] = Directory[t]
      BY <1>2, <2>3, <2>4, CreateLive
    <3> QED BY <2>1, <2>2, <2>3, <3>1
  <2>5. ASSUME NEW other \in Names, delete(other)
        PROVE  Directory'[SlotOf(name)].FileName = DELETED
    <3>1. /\ Directory' = [Directory EXCEPT ![SlotOf(other)].FileName = DELETED]
          /\ SlotOf(other) \in Slots /\ SlotOf(other) \in Live
          /\ Directory[SlotOf(other)].FileName = other
      BY <2>5, FoundSlot DEF delete
    <3>2. Directory'[SlotOf(other)].FileName = DELETED
          /\ \A t \in Slots : t # SlotOf(other) => Directory'[t] = Directory[t]
      BY <1>2, <3>1 DEF TypeInv, Entry
    <3>3. CASE other = name
      BY <3>2, <3>3
    <3>4. CASE other # name
      <4>1. s # SlotOf(other) /\ s \in InUse /\ s \in Slots
        BY <2>1, <2>3, <3>1, <3>4
      <4>2. Directory'[s] = Directory[s]
        BY <3>2, <4>1
      <4>3. InUse' = InUse
        <5>1. \A t \in Slots : Directory'[t].FileName # END <=> Directory[t].FileName # END
          <6>1. Directory[SlotOf(other)].FileName # END
            BY <2>3, <3>1, Prefix
          <6> QED BY <3>2, <6>1 DEF END, DELETED
        <5>2. \A t \in Slots : \A e \in 0 .. t : e \in Slots
          BY SizeAssumption DEF Slots
        <5> QED BY <5>1, <5>2 DEF InUse
      <4>4. s \in Live'
        BY <2>1, <4>2, <4>3 DEF Live
      <4> QED BY <2>1, <2>2, <4>2, <4>4
    <3> QED BY <3>3, <3>4
  <2>6. ASSUME format PROVE \A t \in Slots : Directory'[t].FileName = END
    BY <2>6 DEF format, Blank
  <2>7. CASE \/ \E other \in Names, n \in Requests : write(other, n)
             \/ WriteBlock \/ WriteLength \/ Crash \/ UNCHANGED vars
    <3>1. \A t \in Slots : Directory'[t].FileName = Directory[t].FileName
      <4>1. CASE WriteLength
        BY <1>2, <4>1 DEF WriteLength, TypeInv, Entry
      <4>2. CASE UNCHANGED Directory
        BY <4>2
      <4> QED BY <2>7, <4>1, <4>2 DEF write, WriteBlock, Crash, vars
    <3>2. Live' = Live
      BY <3>1, SameLive
    <3> QED BY <2>1, <2>2, <2>3, <3>1, <3>2
  <2> QED BY <1>2, <2>4, <2>5, <2>6, <2>7 DEF Next
<1>3. TypeInv /\ FewInv /\ [Next]_vars =>
        [\A name \in Names : Exists(name) /\ ~Exists(name)' =>
           \/ Directory'[SlotOf(name)].FileName = DELETED
           \/ \A s \in Slots : Directory'[s].FileName = END]_vars
  BY <1>2
<1>4. TypeInv /\ UniqueInv /\ FewInv /\ [Next]_vars => FewInv'
  BY NextFew
<1> QED BY <1>1, <1>3, <1>4, TypeInvariance, NextUnique, PTL DEF Spec, NoFileLost

-----------------------------------------------------------------------------
(* Files that do not overlap.  A deleted record keeps the blocks of its     *)
(* file in the eyes of the search, at the end of the order, and with two of *)
(* them create can place a file over another (the run that deletes shows    *)
(* it); the theorems are about disks on which nothing is deleted.           *)

\* Every record in use is that of a file, and files keep apart, at least one
\* block each, between the first block and the last.
FilesInv ==
  /\ \A s \in InUse : Directory[s].FileName # DELETED
  /\ \A s \in Live : Directory[s].ReservedBlocks >= 1
  /\ InDataArea
  /\ NoOverlap

\* qsort leaves every record in the order.
LEMMA SortedAll ==
  ASSUME NEW o \in Sorted
  PROVE  \A s \in 0 .. num_used_entries - 1 : \E k \in 0 .. num_used_entries - 1 : s = o[k]
<1> DEFINE used == 0 .. num_used_entries - 1
<1>1. num_used_entries \in Nat
  BY Prefix, SizeAssumption
<1>2. o \in [used -> used] /\ \A k, l \in used : k < l => o[k] # o[l]
  BY DEF Sorted
<1>3. \A k, l \in used : o[k] = o[l] => k = l
  BY <1>1, <1>2
<1>4. IsFiniteSet(used)
  BY <1>1, FS_Interval
<1> HIDE DEF used
<1>5. o \in Injection(used, used)
  BY <1>2, <1>3 DEF Injection, IsInjective
<1>6. o \in Surjection(used, used)
  BY <1>4, <1>5, FS_Injection
<1>7. \A s \in used : \E k \in used : o[k] = s
  BY <1>6 DEF Surjection
<1> QED BY <1>7 DEF used

\* The gap in which the search stops has room for the new file, every file
\* there is ends before it or starts after it.
LEMMA CreateFits ==
  ASSUME TypeInv, FilesInv, InUse # Slots, NEW n \in Requests,
         NEW o \in Sorted, NEW t \in 0 .. num_used_entries, Fits(o, t, n)
  PROVE  /\ PrevEnd(o, t) >= 1 /\ PrevEnd(o, t) + n <= num_blocks - 1
         /\ \A s \in Live : \/ FileEnd(s) <= PrevEnd(o, t)
                            \/ PrevEnd(o, t) + n <= Directory[s].StartingBlock
<1> DEFINE N == num_used_entries
           used == 0 .. N - 1
           start(k) == Directory[o[k]].StartingBlock
<1>0. /\ N \in Nat /\ n \in Nat /\ num_blocks \in Nat /\ num_blocks > 2 /\ t \in 0 .. N
  BY Prefix, SizeAssumption, RequestsAssumption
<1>1. used = InUse /\ used = Live
  BY Prefix DEF FilesInv, Live
<1>2. \A s \in Live : /\ Directory[s].StartingBlock \in Nat /\ FileEnd(s) \in Nat
                      /\ Directory[s].StartingBlock >= 1 /\ FileEnd(s) <= num_blocks - 1
                      /\ FileEnd(s) > Directory[s].StartingBlock
  <2> SUFFICES ASSUME NEW s \in Live
               PROVE  /\ Directory[s].StartingBlock \in Nat /\ FileEnd(s) \in Nat
                      /\ Directory[s].StartingBlock >= 1 /\ FileEnd(s) <= num_blocks - 1
                      /\ FileEnd(s) > Directory[s].StartingBlock
    OBVIOUS
  <2>1. Directory[s].StartingBlock \in Nat /\ Directory[s].ReservedBlocks \in Nat
    BY DEF TypeInv, Entry, Live, InUse
  <2> QED BY <2>1 DEF FilesInv, InDataArea, FileEnd
<1>3. /\ \A k \in used : o[k] \in Live
      /\ \A k, l \in used : k < l =>
           o[k] # o[l] /\ Directory[o[k]].StartingBlock <= Directory[o[l]].StartingBlock
  <2>1. o \in [used -> used]
    BY DEF Sorted
  <2>2. \A k \in used : Directory[o[k]].FileName # DELETED
    BY <1>1, <2>1 DEF FilesInv
  <2>3. \A k, l \in used : k < l =>
          /\ o[k] # o[l]
          /\ ~(Directory[o[l]].FileName = DELETED)
               => Directory[o[k]].StartingBlock <= Directory[o[l]].StartingBlock
    BY DEF Sorted
  <2> QED BY <1>1, <2>1, <2>2, <2>3
<1>4. \A k, l \in used : k < l => FileEnd(o[k]) <= Directory[o[l]].StartingBlock
  <2> SUFFICES ASSUME NEW k \in used, NEW l \in used, k < l
               PROVE  FileEnd(o[k]) <= Directory[o[l]].StartingBlock
    OBVIOUS
  <2>1. \/ FileEnd(o[k]) <= Directory[o[l]].StartingBlock
        \/ FileEnd(o[l]) <= Directory[o[k]].StartingBlock
    BY <1>3 DEF FilesInv, NoOverlap
  <2>2. Directory[o[k]].StartingBlock <= Directory[o[l]].StartingBlock
        /\ o[k] \in Live /\ o[l] \in Live
    BY <1>3
  <2> QED BY <1>2, <2>1, <2>2
<1>5. t # 0 => t - 1 \in used
  BY <1>0
<1>6. t # N => t \in used
  BY <1>0
<1>7. PrevEnd(o, t) \in Nat /\ PrevEnd(o, t) >= 1
  BY <1>2, <1>3, <1>5 DEF PrevEnd
<1>8. ThisStart(o, t) = IF t = N THEN num_blocks - 1 ELSE Directory[o[t]].StartingBlock
  <2>1. t # N => Directory[o[t]].FileName # DELETED
    BY <1>3, <1>6 DEF Live
  <2> QED BY <2>1 DEF ThisStart
<1> HIDE DEF N
<1>9. ThisStart(o, t) \in Nat /\ ThisStart(o, t) <= num_blocks - 1
  <2>1. CASE t = N
    BY <1>0, <1>8, <2>1
  <2>2. CASE t # N
    <3>1. o[t] \in Live
      BY <1>3, <1>6, <2>2
    <3> QED BY <1>0, <1>2, <1>8, <2>2, <3>1
  <2> QED BY <2>1, <2>2
<1>10. PrevEnd(o, t) <= ThisStart(o, t)
  <2>1. CASE t = 0 /\ t = N
    BY <1>0, <1>8, <2>1 DEF PrevEnd
  <2>2. CASE t = 0 /\ t # N
    BY <1>2, <1>3, <1>6, <1>8, <2>2 DEF PrevEnd
  <2>3. CASE t # 0 /\ t = N
    BY <1>2, <1>3, <1>5, <1>8, <2>3 DEF PrevEnd
  <2>4. CASE t # 0 /\ t # N
    <3>1. t - 1 < t
      BY <1>0
    <3>2. FileEnd(o[t - 1]) <= Directory[o[t]].StartingBlock
      BY <1>4, <1>5, <1>6, <2>4, <3>1
    <3> QED BY <1>8, <2>4, <3>2 DEF PrevEnd
  <2> QED BY <2>1, <2>2, <2>3, <2>4
<1>11. PrevEnd(o, t) + n <= ThisStart(o, t)
  <2>1. ThisStart(o, t) < PrevEnd(o, t) \/ ThisStart(o, t) - PrevEnd(o, t) >= n
    BY DEF Fits
  <2> QED BY <1>0, <1>7, <1>9, <1>10, <2>1
<1>12. ASSUME NEW s \in Live
       PROVE  \/ FileEnd(s) <= PrevEnd(o, t)
              \/ PrevEnd(o, t) + n <= Directory[s].StartingBlock
  <2>1. PICK k \in used : s = o[k]
    BY <1>1, SortedAll DEF N
  <2>2. /\ Directory[s].StartingBlock \in Nat /\ FileEnd(s) \in Nat
        /\ FileEnd(s) > Directory[s].StartingBlock /\ k \in Nat
    BY <1>0, <1>2
  <2>3. CASE k < t
    <3>1. t # 0 /\ t - 1 \in used /\ (k = t - 1 \/ k < t - 1)
          /\ PrevEnd(o, t) = FileEnd(o[t - 1])
      BY <1>0, <1>5, <2>2, <2>3 DEF PrevEnd
    <3>2. CASE k = t - 1
      BY <2>1, <2>2, <3>1, <3>2
    <3>3. CASE k < t - 1
      <4>1. FileEnd(o[k]) <= Directory[o[t - 1]].StartingBlock
        BY <1>4, <3>1, <3>3
      <4>2. Directory[o[t - 1]].StartingBlock \in Nat /\ FileEnd(o[t - 1]) \in Nat
            /\ Directory[o[t - 1]].StartingBlock < FileEnd(o[t - 1])
        BY <1>2, <1>3, <3>1
      <4> QED BY <2>1, <2>2, <3>1, <4>1, <4>2
    <3> QED BY <3>1, <3>2, <3>3
  <2>4. CASE ~(k < t)
    <3>1. t # N /\ t \in used /\ (k = t \/ t < k)
      BY <1>0, <1>6, <2>2, <2>4
    <3>2. ThisStart(o, t) <= Directory[s].StartingBlock
      <4>1. ThisStart(o, t) = Directory[o[t]].StartingBlock
        BY <1>8, <3>1
      <4>2. CASE k = t
        BY <2>1, <2>2, <4>1, <4>2
      <4>3. CASE t < k
        BY <1>3, <2>1, <3>1, <4>1, <4>3
      <4> QED BY <3>1, <4>2, <4>3
    <3> QED BY <1>0, <1>7, <1>9, <1>11, <2>2, <3>2
  <2> QED BY <2>3, <2>4
<1>13. PrevEnd(o, t) + n <= num_blocks - 1
  BY <1>0, <1>7, <1>9, <1>11
<1> QED BY <1>7, <1>12, <1>13

\* What create adds when nothing was deleted: an empty file of n blocks after
\* or before each of the others, whose records stay as they are.
LEMMA CreateFile ==
  ASSUME TypeInv, FilesInv, NEW name \in Names, NEW n \in Requests, create(name, n)
  PROVE  \E slot \in Slots, start \in Nat :
           /\ slot \notin Live /\ InUse' = InUse \cup {slot} /\ Live' = Live \cup {slot}
           /\ \A s \in Live : Directory'[s] = Directory[s]
           /\ Directory'[slot] = [FileName |-> name, StartingBlock |-> start,
                                  ReservedBlocks |-> n, FileSize |-> 0]
           /\ start >= 1 /\ start + n <= num_blocks - 1
           /\ \A s \in Live : FileEnd(s) <= start \/ start + n <= Directory[s].StartingBlock
           /\ UNCHANGED <<data, writing>> /\ writing = NoWrite
<1> DEFINE slot == Min(FreeSlots)
<1>1. PICK o \in Sorted :
        /\ Turns(o, n) # {}
        /\ PrevEnd(o, Min(Turns(o, n))) \in Nat
        /\ \A s \in Slots :
             Directory'[s] =
               CASE s = slot ->
                      [FileName |-> name, StartingBlock |-> PrevEnd(o, Min(Turns(o, n))),
                       ReservedBlocks |-> n, FileSize |-> 0]
                 [] s = slot + 1 /\ slot = num_used_entries ->
                      [Directory[s] EXCEPT !.FileName = END]
                 [] OTHER -> Directory[s]
  BY CreateRecords
<1> DEFINE start == PrevEnd(o, Min(Turns(o, n)))
<1>2. FreeSlots # {} /\ UNCHANGED <<data, writing>> /\ writing = NoWrite
  BY DEF create
<1>3. InUse \subseteq Live
  BY DEF FilesInv, Live
<1>4. slot \in Slots /\ slot \notin Live /\ InUse # Slots
  BY <1>2, <1>3, FreeSlot
<1>5. /\ InUse' = InUse \cup {slot} /\ Live' = Live \cup {slot}
      /\ \A s \in InUse : s # slot => Directory'[s] = Directory[s]
  BY <1>4, CreateLive
<1>6. \A s \in Live : Directory'[s] = Directory[s]
  BY <1>4, <1>5 DEF Live
<1>7. Min(Turns(o, n)) \in 0 .. num_used_entries /\ Fits(o, Min(Turns(o, n)), n)
  BY <1>1, TurnFound
<1>8. /\ start >= 1 /\ start + n <= num_blocks - 1
      /\ \A s \in Live : FileEnd(s) <= start \/ start + n <= Directory[s].StartingBlock
  BY <1>4, <1>7, CreateFits
<1> HIDE DEF slot, start
<1>9. slot # slot + 1
  BY <1>4, SizeAssumption DEF Slots
<1>10. Directory'[slot] = [FileName |-> name, StartingBlock |-> start,
                           ReservedBlocks |-> n, FileSize |-> 0]
  BY <1>1, <1>4, <1>9 DEF start
<1>11. start \in Nat
  BY <1>1 DEF start
<1> QED BY <1>2, <1>4, <1>5, <1>6, <1>8, <1>10, <1>11

\* The records that the other commands leave are those there were, but for the
\* length that a write records; a format leaves none.
LEMMA OtherFiles ==
  ASSUME TypeInv, "delete" \notin Commands, [Next]_vars,
         ~\E name \in Names, n \in Requests : create(name, n)
  PROVE  \/ InUse' = {} /\ Live' = {} /\ writing' = NoWrite
         \/ /\ InUse' = InUse /\ Live' = Live
            /\ \A s \in Slots : /\ Directory'[s].FileName = Directory[s].FileName
                                /\ Directory'[s].StartingBlock = Directory[s].StartingBlock
                                /\ Directory'[s].ReservedBlocks = Directory[s].ReservedBlocks
                                /\ \/ Directory'[s].FileSize = Directory[s].FileSize
                                   \/ WriteLength /\ s = writing.slot
                                        /\ Directory'[s].FileSize = writing.total
<1>1. CASE format
  <2>1. Directory' = [s \in Slots |-> Blank] /\ writing' = NoWrite
    BY <1>1 DEF format
  <2>2. \A s \in Slots : 0 \in 0 .. s /\ Directory'[0].FileName = END
    BY <2>1, SizeAssumption DEF Slots, Blank
  <2> QED BY <2>1, <2>2 DEF InUse, Live
<1>2. CASE UNCHANGED Directory
  <2>1. InUse' = InUse /\ Live' = Live
    BY <1>2, SameLive
  <2> QED BY <1>2, <2>1
<1>3. CASE WriteLength
  <2>1. Directory' = [Directory EXCEPT ![writing.slot].FileSize = writing.total]
    BY <1>3 DEF WriteLength
  <2>2. writing # NoWrite => writing.slot \in Slots
    BY DEF TypeInv, Live, InUse
  <2>3. \A s \in Slots : /\ Directory'[s].FileName = Directory[s].FileName
                         /\ Directory'[s].StartingBlock = Directory[s].StartingBlock
                         /\ Directory'[s].ReservedBlocks = Directory[s].ReservedBlocks
                         /\ s # writing.slot => Directory'[s].FileSize = Directory[s].FileSize
                         /\ s = writing.slot => Directory'[s].FileSize = writing.total
    BY <2>1 DEF TypeInv, Entry
  <2>4. InUse' = InUse /\ Live' = Live
    BY <2>3, SameLive
  <2> QED BY <1>3, <2>3, <2>4
<1>4. CASE \/ \E name \in Names, n \in Requests : write(name, n)
           \/ WriteBlock \/ Crash \/ UNCHANGED vars
  BY <1>2, <1>4 DEF write, WriteBlock, Crash, vars
<1>5. ~\E name \in Names : delete(name)
  BY DEF delete
<1> QED BY <1>1, <1>3, <1>4, <1>5 DEF Next

LEMMA NextFiles ==
  ASSUME "delete" \notin Commands
  PROVE  TypeInv /\ FilesInv /\ [Next]_vars => FilesInv'
<1> SUFFICES ASSUME TypeInv, FilesInv, [Next]_vars PROVE FilesInv'
  OBVIOUS
<1>0. \A s \in Live : /\ Directory[s].StartingBlock \in Nat /\ s \in Slots /\ s \in InUse
                      /\ Directory[s].ReservedBlocks \in Nat
  BY DEF TypeInv, Live, InUse, Entry
<1>1. ASSUME NEW name \in Names, NEW n \in Requests, create(name, n)
      PROVE  FilesInv'
  <2>1. PICK slot \in Slots, start \in Nat :
           /\ slot \notin Live /\ InUse' = InUse \cup {slot} /\ Live' = Live \cup {slot}
           /\ \A s \in Live : Directory'[s] = Directory[s]
           /\ Directory'[slot] = [FileName |-> name, StartingBlock |-> start,
                                  ReservedBlocks |-> n, FileSize |-> 0]
           /\ start >= 1 /\ start + n <= num_blocks - 1
           /\ \A s \in Live : FileEnd(s) <= start \/ start + n <= Directory[s].StartingBlock
    BY <1>1, CreateFile
  <2>2. n \in Nat /\ n >= 1 /\ name # DELETED
    BY RequestsAssumption, NamesAssumption
  <2>3. /\ Directory'[slot].FileName = name /\ Directory'[slot].StartingBlock = start
        /\ Directory'[slot].ReservedBlocks = n
    BY <2>1
  <2>4. InUse \subseteq Live
    BY DEF FilesInv, Live
  <2>5. \A s \in InUse' : Directory'[s].FileName # DELETED
    BY <2>1, <2>2, <2>3, <2>4 DEF FilesInv
  <2>6. \A s \in Live' : Directory'[s].ReservedBlocks >= 1
    BY <2>1, <2>2, <2>3 DEF FilesInv
  <2>7. InDataArea'
    BY <2>1, <2>2, <2>3 DEF FilesInv, InDataArea, FileEnd
  <2>8. NoOverlap'
    BY <2>1, <2>2, <2>3 DEF FilesInv, NoOverlap, FileEnd
  <2> QED BY <2>5, <2>6, <2>7, <2>8 DEF FilesInv
<1>2. CASE ~\E name \in Names, n \in Requests : create(name, n)
  <2>1. CASE InUse' = {} /\ Live' = {}
    BY <2>1 DEF FilesInv, InDataArea, NoOverlap
  <2>2. CASE /\ InUse' = InUse /\ Live' = Live
             /\ \A s \in Slots : /\ Directory'[s].FileName = Directory[s].FileName
                                 /\ Directory'[s].StartingBlock = Directory[s].StartingBlock
                                 /\ Directory'[s].ReservedBlocks = Directory[s].ReservedBlocks
    <3>1. InUse \subseteq Slots
      BY DEF InUse
    <3>2. \A s \in Live : Directory'[s].StartingBlock + Directory'[s].ReservedBlocks
                            = Directory[s].StartingBlock + Directory[s].ReservedBlocks
      BY <1>0, <2>2
    <3> QED BY <1>0, <2>2, <3>1, <3>2 DEF FilesInv, InDataArea, NoOverlap, FileEnd
  <2> QED BY <1>2, <2>1, <2>2, OtherFiles
<1> QED BY <1>1, <1>2

LEMMA FilesInvariance ==
  ASSUME "delete" \notin Commands
  PROVE  Spec => []FilesInv
<1>1. Init => FilesInv
  <2> SUFFICES ASSUME Init PROVE InUse = {} /\ Live = {}
    BY DEF FilesInv, InDataArea, NoOverlap
  <2>1. \A s \in Slots : 0 \in 0 .. s /\ 0 \in Slots
    BY SizeAssumption DEF Slots
  <2> QED BY <2>1 DEF Init, Blank, Live, InUse
<1> QED BY <1>1, TypeInvariance, NextFiles, PTL DEF Spec

\* No block belongs to two files of a disk on which nothing is deleted.
THEOREM FilesApart ==
  ASSUME "delete" \notin Commands
  PROVE  Spec => []NoOverlap
<1>1. FilesInv => NoOverlap
  BY DEF FilesInv
<1> QED BY <1>1, FilesInvariance, PTL

\* Its files lie between the first block and the last.
THEOREM FilesInside ==
  ASSUME "delete" \notin Commands
  PROVE  Spec => []InDataArea
<1>1. FilesInv => InDataArea
  BY DEF FilesInv
<1> QED BY <1>1, FilesInvariance, PTL

-----------------------------------------------------------------------------
(* What a file holds.                                                      *)

\* The recorded part of every file, and what the write under way has copied,
\* hold what was written for that file.
OwnInv ==
  /\ ReadsOwnData
  /\ writing # NoWrite =>
       \A b \in 0 .. writing.done - 1 :
         data[Directory[writing.slot].StartingBlock + b] = Directory[writing.slot].FileName

LEMMA NextOwn ==
  ASSUME "delete" \notin Commands
  PROVE  TypeInv /\ FilesInv /\ OwnInv /\ [Next]_vars => OwnInv'
<1> SUFFICES ASSUME TypeInv, FilesInv, OwnInv, [Next]_vars PROVE OwnInv'
  OBVIOUS
<1>0. \A s \in Live : /\ s \in Slots /\ Directory[s].StartingBlock \in Nat
                      /\ Directory[s].ReservedBlocks \in Nat /\ Directory[s].FileSize \in Nat
                      /\ Directory[s].FileSize <= Directory[s].ReservedBlocks
  BY DEF TypeInv, Live, InUse, Entry
<1>1. ASSUME NEW name \in Names, NEW n \in Requests, create(name, n)
      PROVE  OwnInv'
  <2>1. PICK slot \in Slots, start \in Nat :
           /\ slot \notin Live /\ Live' = Live \cup {slot}
           /\ \A s \in Live : Directory'[s] = Directory[s]
           /\ Directory'[slot] = [FileName |-> name, StartingBlock |-> start,
                                  ReservedBlocks |-> n, FileSize |-> 0]
           /\ UNCHANGED <<data, writing>> /\ writing = NoWrite
    BY <1>1, CreateFile
  <2>2. Directory'[slot].FileSize = 0 /\ 0 .. 0 - 1 = {}
    BY <2>1
  <2>3. ReadsOwnData'
    <3> SUFFICES ASSUME NEW s \in Live', NEW b \in 0 .. Directory'[s].FileSize - 1
                 PROVE  data'[Directory'[s].StartingBlock + b] = Directory'[s].FileName
      BY DEF ReadsOwnData
    <3>1. s \in Live /\ Directory'[s] = Directory[s]
      BY <2>1, <2>2
    <3> QED BY <2>1, <3>1 DEF OwnInv, ReadsOwnData
  <2>4. writing' = NoWrite
    BY <2>1
  <2> QED BY <2>3, <2>4 DEF OwnInv
<1>2. CASE ~\E name \in Names, n \in Requests : create(name, n)
  <2>1. CASE Live' = {} /\ writing' = NoWrite
    BY <2>1 DEF OwnInv, ReadsOwnData
  <2>2. CASE /\ Live' = Live
             /\ \A s \in Slots : /\ Directory'[s].FileName = Directory[s].FileName
                                 /\ Directory'[s].StartingBlock = Directory[s].StartingBlock
                                 /\ \/ Directory'[s].FileSize = Directory[s].FileSize
                                    \/ WriteLength /\ s = writing.slot
                                         /\ Directory'[s].FileSize = writing.total
    <3>1. CASE WriteBlock
      <4> DEFINE f == writing.slot
                 at == Directory[f].StartingBlock + writing.done
      <4>1. /\ writing # NoWrite /\ writing.done < writing.total /\ UNCHANGED Directory
            /\ writing' = [writing EXCEPT !.done = @ + 1]
            /\ data' = [data EXCEPT ![at] = Directory[f].FileName]
        BY <3>1 DEF WriteBlock
      <4>2. /\ f \in Live /\ f \in Slots
            /\ writing.done \in Nat /\ writing.total \in Nat
            /\ writing.total <= Directory[f].ReservedBlocks
            /\ writing'.slot = f /\ writing'.done = writing.done + 1
        BY <1>0, <4>1 DEF TypeInv
      <4>3. /\ at \in Nat /\ at >= Directory[f].StartingBlock /\ at < FileEnd(f)
            /\ at \in 0 .. num_blocks - 1
        <5>1. FileEnd(f) <= num_blocks - 1
          BY <4>2 DEF FilesInv, InDataArea
        <5>2. Directory[f].StartingBlock \in Nat /\ Directory[f].ReservedBlocks \in Nat
              /\ num_blocks \in Nat
          BY <1>0, <4>2, SizeAssumption
        <5>3. at \in Nat /\ at >= Directory[f].StartingBlock /\ at < FileEnd(f)
          BY <4>1, <4>2, <5>2 DEF FileEnd
        <5> QED BY <5>1, <5>2, <5>3 DEF FileEnd
      <4>4. data'[at] = Directory[f].FileName /\ \A i : i # at => data'[i] = data[i]
        <5>1. data'[at] = Directory[f].FileName
          BY <4>1, <4>3 DEF TypeInv
        <5>2. ASSUME NEW i, i # at PROVE data'[i] = data[i]
          BY <4>1, <5>2 DEF TypeInv
        <5> QED BY <5>1, <5>2
      <4>5. ASSUME NEW s \in Live, NEW b \in Nat, b < Directory[s].ReservedBlocks, s # f
            PROVE  Directory[s].StartingBlock + b # at
        <5>1. FileEnd(s) <= Directory[f].StartingBlock \/ FileEnd(f) <= Directory[s].StartingBlock
          BY <4>2, <4>5 DEF FilesInv, NoOverlap
        <5>2. /\ Directory[s].StartingBlock \in Nat /\ Directory[s].ReservedBlocks \in Nat
              /\ Directory[f].StartingBlock \in Nat /\ Directory[f].ReservedBlocks \in Nat
          BY <1>0, <4>2
        <5> HIDE DEF at
        <5> QED BY <4>3, <4>5, <5>1, <5>2 DEF FileEnd
      <4> HIDE DEF at
      <4>6. ReadsOwnData'
        <5> SUFFICES ASSUME NEW s \in Live, NEW b \in 0 .. Directory[s].FileSize - 1
                     PROVE  data'[Directory[s].StartingBlock + b] = Directory[s].FileName
          BY <2>2, <4>1 DEF ReadsOwnData
        <5>1. data[Directory[s].StartingBlock + b] = Directory[s].FileName
          BY DEF OwnInv, ReadsOwnData
        <5>2. b \in Nat /\ b < Directory[s].ReservedBlocks
          BY <1>0
        <5>3. CASE s = f
          BY <4>4, <5>1, <5>3
        <5>4. CASE s # f
          BY <4>4, <4>5, <5>1, <5>2, <5>4
        <5> QED BY <5>3, <5>4
      <4>7. ASSUME NEW b \in 0 .. writing'.done - 1
            PROVE  data'[Directory[f].StartingBlock + b] = Directory[f].FileName
        <5>1. b = writing.done \/ b \in 0 .. writing.done - 1
          BY <4>2
        <5>2. CASE b = writing.done
          BY <4>4, <5>2 DEF at
        <5>3. CASE b \in 0 .. writing.done - 1
          BY <4>1, <4>4, <5>3 DEF OwnInv
        <5> QED BY <5>1, <5>2, <5>3
      <4>8. \A b \in 0 .. writing'.done - 1 :
              data'[Directory'[writing'.slot].StartingBlock + b]
                = Directory'[writing'.slot].FileName
        BY <4>1, <4>2, <4>7
      <4> QED BY <4>6, <4>8 DEF OwnInv
    <3>2. CASE WriteLength
      <4>1. writing # NoWrite /\ writing.done = writing.total /\ data' = data
            /\ writing' = NoWrite
        BY <3>2 DEF WriteLength
      <4>2. ReadsOwnData'
        <5> SUFFICES ASSUME NEW s \in Live, NEW b \in 0 .. Directory'[s].FileSize - 1
                     PROVE  data[Directory[s].StartingBlock + b] = Directory[s].FileName
          BY <1>0, <2>2, <4>1 DEF ReadsOwnData
        <5>1. \/ Directory'[s].FileSize = Directory[s].FileSize
              \/ s = writing.slot /\ Directory'[s].FileSize = writing.done
          BY <1>0, <2>2, <4>1
        <5> QED BY <4>1, <5>1 DEF OwnInv, ReadsOwnData
      <4> QED BY <4>1, <4>2 DEF OwnInv
    <3>3. CASE /\ ~WriteLength /\ data' = data
               /\ writing' = writing \/ writing' = NoWrite \/ writing'.done = 0
      <4>1. ReadsOwnData'
        <5>1. \A s \in Live : /\ Directory'[s].FileName = Directory[s].FileName
                              /\ Directory'[s].StartingBlock = Directory[s].StartingBlock
                              /\ Directory'[s].FileSize = Directory[s].FileSize
          BY <1>0, <2>2, <3>3
        <5> QED BY <2>2, <3>3, <5>1 DEF OwnInv, ReadsOwnData
      <4>2. ASSUME writing' # NoWrite, NEW b \in 0 .. writing'.done - 1
            PROVE  data'[Directory'[writing'.slot].StartingBlock + b]
                     = Directory'[writing'.slot].FileName
        <5>1. writing' = writing
          BY <3>3, <4>2
        <5>2. writing.slot \in Slots
          BY <1>0, <4>2, <5>1 DEF TypeInv
        <5> QED BY <2>2, <3>3, <4>2, <5>1, <5>2 DEF OwnInv
      <4> QED BY <4>1, <4>2 DEF OwnInv
    <3>4. \/ WriteBlock \/ WriteLength \/ format
          \/ /\ data' = data
             /\ writing' = writing \/ writing' = NoWrite \/ writing'.done = 0
      BY <1>2 DEF Next, vars, write, Crash, delete
    <3>5. CASE format
      BY <2>2, <3>3, <3>5 DEF format, WriteLength
    <3> QED BY <3>1, <3>2, <3>3, <3>4, <3>5
  <2> QED BY <1>2, <2>1, <2>2, OtherFiles
<1> QED BY <1>1, <1>2

\* On a disk on which nothing is deleted, what read copies out of a file was
\* written to that file, whatever writes were interrupted and whatever the
\* blocks held before a format.
THEOREM OwnDataRead ==
  ASSUME "delete" \notin Commands
  PROVE  Spec => []ReadsOwnData
<1>1. Init => OwnInv
  <2> SUFFICES ASSUME Init PROVE Live = {} /\ writing = NoWrite
    BY DEF OwnInv, ReadsOwnData
  <2>1. \A s \in Slots : 0 \in 0 .. s /\ 0 \in Slots
    BY SizeAssumption DEF Slots
  <2> QED BY <2>1 DEF Init, Blank, Live, InUse
<1>2. OwnInv => ReadsOwnData
  BY DEF OwnInv
<1> QED BY <1>1, <1>2, TypeInvariance, FilesInvariance, NextOwn, PTL DEF Spec
=============================================================================
