-------------------------------- MODULE BMFS --------------------------------
(***************************************************************************)
(* The BareMetal File System utility (Bootloader/BMFS/bmfs.c): a directory *)
(* of fixed size in block 0 and files of contiguous blocks.  Each command  *)
(* is a process that reads the directory, changes it and writes it back;   *)
(* write copies the data first and records the length last, and can be     *)
(* interrupted in between.  Contents are abstracted to the name of the     *)
(* file a block was written for, sizes to whole blocks.                    *)
(***************************************************************************)
EXTENDS Integers, FiniteSetsExt

CONSTANTS Names,        \* file names
          ENTRIES,      \* records in the directory (64)
          num_blocks,   \* blocks on the disk, the first and the last reserved
          Requests,     \* sizes given to create, in blocks
          Commands      \* the commands used on this disk

END == "0x00"           \* first byte of FileName: end of the directory
DELETED == "0x01"       \* unused record
NOBODY == "nobody"      \* contents of a block never written

ASSUME NamesAssumption == {END, DELETED, NOBODY} \cap Names = {}
ASSUME SizeAssumption == ENTRIES \in Nat \ {0} /\ num_blocks \in Nat /\ num_blocks > 2
ASSUME RequestsAssumption == Requests \subseteq Nat \ {0}

VARIABLES Directory,    \* the records, as on the disk
          data,         \* whose contents each block holds
          writing       \* the write in progress: its record, blocks written and to write

vars == <<Directory, data, writing>>

Slots == 0 .. ENTRIES - 1
Entry == [FileName : Names \cup {END, DELETED}, StartingBlock : Nat,
          ReservedBlocks : Nat, FileSize : Nat]
Blank == [FileName |-> END, StartingBlock |-> 0, ReservedBlocks |-> 0, FileSize |-> 0]
NoWrite == [slot |-> -1, done |-> 0, total |-> 0]

Init ==
  /\ Directory = [s \in Slots |-> Blank]
  /\ data = [b \in 0 .. num_blocks - 1 |-> NOBODY]
  /\ writing = NoWrite

-----------------------------------------------------------------------------
(* Looking into the directory.                                             *)

\* Records before the first one marked as the end.
InUse == {s \in Slots : \A t \in 0 .. s : Directory[t].FileName # END}
Live == {s \in InUse : Directory[s].FileName # DELETED}

findfile_Bug(name) ==                  \* the search stops at an unused record
  {s \in Live : Directory[s].FileName = name /\ 0 .. s \subseteq Live}

findfile(name) == {s \in Live : Directory[s].FileName = name}
Exists(name) == findfile(name) # {}
SlotOf(name) == Min(findfile(name))

FileEnd(s) == Directory[s].StartingBlock + Directory[s].ReservedBlocks

-----------------------------------------------------------------------------
(* create.                                                                 *)

\* The count of used records is only taken at the end marker: a directory
\* without one leaves it 0.
num_used_entries == IF InUse = Slots THEN 0 ELSE Cardinality(InUse)

\* The first unused record, the end marker included; none in a full directory.
FreeSlots == (InUse \ Live) \cup (IF InUse = Slots THEN {} ELSE {Cardinality(InUse)})

\* Orders in which qsort can leave the used records: by starting block, the
\* deleted ones last and, compared with each other, in any order.
Sorted ==
  LET used == 0 .. num_used_entries - 1
      deleted(s) == Directory[s].FileName = DELETED
  IN  {o \in [used -> used] :
        \A k, l \in used : k < l =>
          /\ o[k] # o[l]
          /\ deleted(o[k]) => deleted(o[l])
          /\ ~deleted(o[l]) => Directory[o[k]].StartingBlock <= Directory[o[l]].StartingBlock}

\* prev_file_end and this_file_start in the t-th turn of the search loop.
PrevEnd(o, t) == IF t = 0 THEN 1 ELSE FileEnd(o[t - 1])

ThisStart_Bug(o, t) ==                 \* the last block taken for a data block
  IF t = num_used_entries \/ Directory[o[t]].FileName = DELETED
    THEN num_blocks
    ELSE Directory[o[t]].StartingBlock

ThisStart(o, t) ==
  IF t = num_used_entries \/ Directory[o[t]].FileName = DELETED
    THEN num_blocks - 1
    ELSE Directory[o[t]].StartingBlock

Fits_Strict(o, t, n) ==                \* > in place of >=
  ThisStart(o, t) < PrevEnd(o, t) \/ ThisStart(o, t) - PrevEnd(o, t) > n

Fits_Reserve(o, t, n) ==               \* the block count rounded down
  ThisStart(o, t) < PrevEnd(o, t) \/ ThisStart(o, t) - PrevEnd(o, t) >= n - 1

\* The difference is unsigned: a negative one is larger than any request.
Fits(o, t, n) ==
  ThisStart(o, t) < PrevEnd(o, t) \/ ThisStart(o, t) - PrevEnd(o, t) >= n

Turns(o, n) == {t \in 0 .. num_used_entries : Fits(o, t, n)}

Recorded_Bug(slot, entry) ==           \* the next record cut off every time
  [s \in Slots |-> CASE s = slot -> entry
                     [] s = slot + 1 -> [Directory[s] EXCEPT !.FileName = END]
                     [] OTHER -> Directory[s]]

\* The directory with the new record; the one after it becomes the end marker
\* when the record used was the end marker.
Recorded(slot, entry) ==
  [s \in Slots |-> CASE s = slot -> entry
                     [] s = slot + 1 /\ slot = num_used_entries ->
                          [Directory[s] EXCEPT !.FileName = END]
                     [] OTHER -> Directory[s]]

create(name, n) ==
  /\ "create" \in Commands /\ writing = NoWrite
  /\ ~Exists(name) /\ FreeSlots # {}
  /\ \E o \in Sorted :
       /\ Turns(o, n) # {}
       /\ Directory' = Recorded(Min(FreeSlots),
            [FileName |-> name, StartingBlock |-> PrevEnd(o, Min(Turns(o, n))),
             ReservedBlocks |-> n, FileSize |-> 0])
  /\ UNCHANGED <<data, writing>>

-----------------------------------------------------------------------------
(* The other commands.                                                     *)

delete(name) ==
  /\ "delete" \in Commands /\ writing = NoWrite
  /\ Exists(name)
  /\ Directory' = [Directory EXCEPT ![SlotOf(name)].FileName = DELETED]
  /\ UNCHANGED <<data, writing>>

\* format /FORCE: the directory is cleared, the data stays where it is.
format ==
  /\ "format" \in Commands /\ writing = NoWrite
  /\ Directory' = [s \in Slots |-> Blank]
  /\ UNCHANGED <<data, writing>>

write_Bug(name, n) ==                  \* the length recorded before the data
  /\ "write" \in Commands /\ writing = NoWrite
  /\ Exists(name) /\ n <= Directory[SlotOf(name)].ReservedBlocks
  /\ writing' = [slot |-> SlotOf(name), done |-> 0, total |-> n]
  /\ Directory' = [Directory EXCEPT ![SlotOf(name)].FileSize = n]
  /\ UNCHANGED data

\* write finds the file and checks that n blocks fit in what it reserved.
write(name, n) ==
  /\ "write" \in Commands /\ writing = NoWrite
  /\ Exists(name) /\ n <= Directory[SlotOf(name)].ReservedBlocks
  /\ writing' = [slot |-> SlotOf(name), done |-> 0, total |-> n]
  /\ UNCHANGED <<Directory, data>>

WriteBlock_Bug ==                      \* <= in place of <
  /\ writing # NoWrite /\ writing.done <= writing.total
  /\ LET file == Directory[writing.slot]
     IN  data' = [data EXCEPT ![file.StartingBlock + writing.done] = file.FileName]
  /\ writing' = [writing EXCEPT !.done = @ + 1]
  /\ UNCHANGED Directory

WriteBlock ==
  /\ writing # NoWrite /\ writing.done < writing.total
  /\ LET file == Directory[writing.slot]
     IN  data' = [data EXCEPT ![file.StartingBlock + writing.done] = file.FileName]
  /\ writing' = [writing EXCEPT !.done = @ + 1]
  /\ UNCHANGED Directory

WriteLength ==
  /\ writing # NoWrite /\ writing.done = writing.total
  /\ Directory' = [Directory EXCEPT ![writing.slot].FileSize = writing.total]
  /\ writing' = NoWrite
  /\ UNCHANGED data

\* The utility is killed or the host fails in the middle of a write.
Crash ==
  /\ writing # NoWrite
  /\ writing' = NoWrite
  /\ UNCHANGED <<Directory, data>>

Next ==
  \/ \E name \in Names, n \in Requests : create(name, n) \/ write(name, n)
  \/ \E name \in Names : delete(name)
  \/ format \/ WriteBlock \/ WriteLength \/ Crash

Spec == Init /\ [][Next]_vars

-----------------------------------------------------------------------------
(* Properties.                                                             *)

\* The variables have the types of their declarations; a file fits in what is
\* reserved for it and a write in progress stays within the length it checked.
TypeOK ==
  /\ Directory \in [Slots -> Entry]
  /\ data \in [0 .. num_blocks - 1 -> Names \cup {NOBODY}]
  /\ \A s \in Live : Directory[s].FileSize <= Directory[s].ReservedBlocks
  /\ writing \in [slot : Slots \cup {-1}, done : Nat, total : Nat]
  /\ writing.done <= writing.total

\* "All files are contiguous" and free blocks are those not in use (BareMetal
\* File System.md, Free Blocks): no block belongs to two files.
NoOverlap ==
  \A s, t \in Live : s # t =>
    FileEnd(s) <= Directory[t].StartingBlock \/ FileEnd(t) <= Directory[s].StartingBlock

\* The first and the last block are reserved: files lie strictly between.
InDataArea ==
  \A s \in Live : Directory[s].StartingBlock >= 1 /\ FileEnd(s) <= num_blocks - 1

\* A file has one record before the end of the directory, wherever the deleted
\* records and the reused ones lie.
UniqueNames ==
  \A t \in Slots : (\A e \in 0 .. t : Directory[e].FileName # END) =>
    \A s \in 0 .. t - 1 :
      Directory[s].FileName \in Names => Directory[s].FileName # Directory[t].FileName

\* What read copies out of a file was written to that file, also after writes
\* that were interrupted and formats that left the old data in place.
ReadsOwnData ==
  \A s \in Live : \A b \in 0 .. Directory[s].FileSize - 1 :
    data[Directory[s].StartingBlock + b] = Directory[s].FileName

\* create refuses no request for which there is a gap between the files, deleted
\* records notwithstanding.
FindsRoom ==
  \A n \in Requests, o \in Sorted :
    (\E b \in 1 .. num_blocks - 1 - n :
       \A s \in Live : b + n <= Directory[s].StartingBlock \/ FileEnd(s) <= b)
    => Turns(o, n) # {}

\* In a directory that is never full, no command but its own deletion or a format
\* makes a file disappear (bmfs.c:698: the next record is marked as the end only
\* when the record used was the one marked with 0x00).
NoFileLost ==
  [][ \A name \in Names : Exists(name) /\ ~Exists(name)' =>
        \/ Directory'[SlotOf(name)].FileName = DELETED
        \/ \A s \in Slots : Directory'[s].FileName = END ]_vars
=============================================================================
