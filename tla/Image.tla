------------------------------- MODULE Image -------------------------------
(***************************************************************************)
(* From the binaries to the modules in memory: ModulePacker appends the    *)
(* modules to the kernel, bmfs initialize puts boot loader and kernel on a *)
(* new disk, the boot loader copies the start of the disk to memory and    *)
(* the kernel moves the modules to their places.  A cell stands for a run  *)
(* of bytes: cell k of a file, or a number.  Writes can fail, and a failed *)
(* initialize is run again.                                                *)
(***************************************************************************)
EXTENDS Integers, Sequences, FiniteSetsExt

CONSTANTS KERNEL_LEN, BOOT_LEN,   \* length of the kernel and of the boot loader
          ModuleSets,             \* the modules given to the packer: their lengths
          Sizes,                  \* disk sizes given to initialize: sequences of characters
          DigitOf, UnitOf,        \* digits, and the exponents of the units K, M, ...
          WIDTH, KILO,            \* 64 bits, 1024
          minimumDiskSize,
          INFO_AT, DIR_AT, BOOT_AT, bufferSize,   \* the layout of the disk, the copy buffer
          LOAD,                   \* what the boot loader reads, from BOOT_AT on (256 KiB)
          BSS, Targets, MEMORY,   \* the kernel's .bss, where modules go, size of the memory
          Faults                  \* what can fail: "open", "write", "read", "flush"

ASSUME LengthsAssumption == KERNEL_LEN \in Nat /\ BOOT_LEN \in Nat \ {0} /\ bufferSize \in Nat \ {0}
ASSUME TargetsAssumption ==
  \A lengths \in ModuleSets : lengths \in Seq(Nat) /\ Len(lengths) <= Len(Targets)
ASSUME LayoutAssumption == /\ INFO_AT \in Nat /\ DIR_AT \in Nat /\ BOOT_AT \in Nat
                           /\ 0 < INFO_AT /\ INFO_AT < DIR_AT /\ DIR_AT < BOOT_AT

\* A module has the room between its place and the next one (1 MiB in the
\* code), behind all that is loaded and off the .bss.
ASSUME PlacesAssumption ==
  /\ LOAD \in Nat /\ MEMORY \in Nat /\ LOAD - BOOT_LEN <= MEMORY
  /\ \A lengths \in ModuleSets : \A i \in 1 .. Len(lengths) :
       /\ Targets[i] \in Nat /\ LOAD - BOOT_LEN <= Targets[i] /\ Targets[i] + lengths[i] <= MEMORY
       /\ BSS \cap (Targets[i] .. (Targets[i] + lengths[i] - 1)) = {}
       /\ \A j \in i + 1 .. Len(lengths) : Targets[i] + lengths[i] <= Targets[j]

\* The numbers of WIDTH bits are those below Span.
Span == 2^WIDTH
ASSUME SpanAssumption == Span \in Nat \ {0}

\* Sizes are of any characters, digits and units among them.
ASSUME SizesAssumption ==
  /\ KILO \in Nat \ {0} /\ \A size \in Sizes : Len(size) \in Nat
  /\ DigitOf \in [DOMAIN DigitOf -> Nat] /\ UnitOf \in [DOMAIN UnitOf -> Nat]

VARIABLES pc,          \* what runs
          modules,     \* lengths of the modules packed
          ret, failed, \* initialize's result, the faults it met
          diskSize, disk, position, source,   \* the disk, its position, that of the file copied
          memory, module, next                \* memory, the module being loaded, where it starts

vars == <<pc, modules, ret, failed, diskSize, disk, position, source, memory, module, next>>

Number(n) == <<"number", n>>
Zero == Number(0)
File(name, length) == [k \in 1 .. length |-> <<name, k>>]
Name(i) == <<"code", "data", "more">>[i]
Put(cells, at, file) ==
  [p \in DOMAIN cells \cup (at .. (at + Len(file) - 1)) |->
     IF p \in at .. (at + Len(file) - 1) THEN file[p - at + 1] ELSE cells[p]]
Read(cells, p) == IF p \in DOMAIN cells THEN cells[p] ELSE Zero

-----------------------------------------------------------------------------
(* The module packer.                                                      *)

write_file(name, length) == File(name, length)
write_size(length) == <<Number(length)>>

\* The kernel, the number of modules, and each module behind its length.
buildImage(lengths) ==
  LET image[i \in 0 .. Len(lengths)] ==
        IF i = 0 THEN write_file("kernel", KERNEL_LEN) \o <<Number(Len(lengths))>>
        ELSE image[i - 1] \o write_size(lengths[i]) \o write_file(Name(i), lengths[i])
  IN  image[Len(lengths)]

Pack ==
  /\ pc = "pack" /\ pc' = "initialize"
  /\ modules' \in ModuleSets
  /\ UNCHANGED <<ret, failed, diskSize, disk, position, source, memory, module, next>>

-----------------------------------------------------------------------------
(* bmfs initialize: the size.                                              *)

Wrap(n) == n % Span

\* After the first i characters: the number, the exponent of its unit, an error.
Parsed(size) ==
  LET after[i \in 0 .. Len(size)] ==
        IF i = 0 THEN [n |-> 0, factor |-> 0, error |-> FALSE]
        ELSE LET p == after[i - 1]
                 ch == size[i]
             IN  CASE p.error -> p
                   [] ~p.error /\ ch \in DOMAIN DigitOf ->
                        IF Wrap(10 * p.n) > p.n \/ p.n = 0
                        THEN [p EXCEPT !.n = Wrap(10 * p.n + DigitOf[ch])]
                        ELSE [p EXCEPT !.error = TRUE]
                   [] OTHER ->
                        IF i > 1 /\ i = Len(size) /\ ch \in DOMAIN UnitOf
                        THEN [p EXCEPT !.factor = UnitOf[ch]]
                        ELSE [p EXCEPT !.error = TRUE]
  IN  after[Len(size)]

Scaled_Bug(p) ==                       \* one unit too few
  [p EXCEPT !.n = IF p.factor > 1 THEN Wrap(KILO * p.n) ELSE p.n]

\* The unit is multiplied in turn by turn; a turn that overflows is an error.
Scaled(p) ==
  LET after[i \in 0 .. p.factor] ==
        IF i = 0 THEN p
        ELSE LET q == after[i - 1]
             IN  IF Wrap(KILO * q.n) > q.n THEN [q EXCEPT !.n = Wrap(KILO * q.n)]
                 ELSE [q EXCEPT !.error = TRUE]
  IN  IF p.error \/ p.n = 0 THEN p ELSE after[p.factor]

-----------------------------------------------------------------------------
(* bmfs initialize: the disk.  After an error the remaining parts are      *)
(* skipped; the disk was truncated when it was opened.                     *)

Step(from, to) == pc = from /\ pc' = to
Steady == UNCHANGED <<modules, memory, module, next>>

\* Sizes and files are checked before the disk is opened for writing.
Refuse(size, missing) ==
  /\ Step("initialize", "closed") /\ ret' = 1
  /\ Scaled(Parsed(size)).error \/ Scaled(Parsed(size)).n < minimumDiskSize \/ missing # {}
  /\ failed' = failed \cup missing
  /\ UNCHANGED <<diskSize, disk, position, source>> /\ Steady

Open(size) ==
  /\ Step("initialize", "fill")
  /\ ~Scaled(Parsed(size)).error /\ Scaled(Parsed(size)).n >= minimumDiskSize
  /\ diskSize' = [asked |-> size, n |-> Scaled(Parsed(size)).n]
  /\ disk' = << >> /\ position' = 0 /\ ret' = 0 /\ failed' = {}
  /\ UNCHANGED source /\ Steady

\* fwrite of some cells at the position; a failure leaves the stream's error
\* set, and what reached the disk is a part of them.
Written(cells) == /\ disk' = Put(disk, position, cells)
                  /\ position' = position + Len(cells)
                  /\ UNCHANGED failed
WriteFails(cells) == /\ "write" \in Faults
                     /\ \E n \in 0 .. (Len(cells) - 1) : disk' = Put(disk, position, SubSeq(cells, 1, n))
                     /\ failed' = failed \cup {"write"}
                     /\ UNCHANGED position

Zeros(n) == [k \in 1 .. n |-> Zero]

Fill ==
  /\ pc = "fill" /\ position < diskSize.n
  /\ LET chunk == Zeros(Min({bufferSize, diskSize.n - position}))
     IN  \/ Written(chunk) /\ UNCHANGED <<pc, ret>>
         \/ WriteFails(chunk) /\ ret' = 1 /\ pc' = "close"
  /\ UNCHANGED <<diskSize, source>> /\ Steady

\* format does not look at the results of its writes.
format ==
  /\ Step("fill", "mbr") /\ position = diskSize.n
  /\ LET formatted == Put(Put(disk, INFO_AT, <<"BMFS">>), DIR_AT, Zeros(BOOT_AT - DIR_AT))
     IN  \/ disk' = formatted /\ UNCHANGED failed
         \/ "write" \in Faults /\ disk' = disk /\ failed' = failed \cup {"write"}
  /\ position' = 0
  /\ UNCHANGED <<ret, diskSize, source>> /\ Steady

WriteMbr ==
  /\ pc = "mbr"
  /\ \/ Written(File("mbr", 1)) /\ pc' = "boot" /\ UNCHANGED ret
     \/ WriteFails(File("mbr", 1)) /\ pc' = "close" /\ ret' = 1
     \/ /\ "read" \in Faults /\ pc' = "close" /\ ret' = 1   \* less than a sector of the MBR file
        /\ failed' = failed \cup {"read"} /\ UNCHANGED <<disk, position>>
  /\ source' = 0 /\ UNCHANGED diskSize /\ Steady

\* The file copied: the boot loader from BOOT_AT on, the kernel right behind it.
Copied == IF pc = "boot" THEN File("boot", BOOT_LEN) ELSE buildImage(modules)
Place == IF pc = "boot" /\ source = 0 THEN BOOT_AT ELSE position
ferror == "write" \in failed

\* A chunk of the file; a failed write is noted, and the loop goes on.
Copy ==
  /\ pc \in {"boot", "kernel"} /\ source < Len(Copied)
  /\ LET chunk == SubSeq(Copied, source + 1, Min({source + bufferSize, Len(Copied)}))
     IN  /\ \/ /\ disk' = Put(disk, Place, chunk) /\ UNCHANGED <<ret, failed>>
               /\ position' = Place + Len(chunk)
            \/ /\ "write" \in Faults
               /\ ret' = 1 /\ failed' = failed \cup {"write"}
               /\ position' = Place /\ UNCHANGED disk
         /\ source' = source + Len(chunk)
  /\ UNCHANGED <<pc, diskSize>> /\ Steady

CopyEnds_Bug ==                        \* the stream's error is not looked at
  /\ pc \in {"boot", "kernel"} /\ source = Len(Copied)
  /\ UNCHANGED <<ret, failed>>
  /\ pc' = IF pc = "boot" /\ ret' = 0 THEN "kernel" ELSE "close"
  /\ source' = 0
  /\ UNCHANGED <<diskSize, disk, position>> /\ Steady

\* The file ends, or cannot be read any further: what is asked then is the
\* error of the disk, also when it was the file that failed.
CopyEnds ==
  /\ pc \in {"boot", "kernel"}
  /\ \/ source = Len(Copied) /\ UNCHANGED failed
     \/ "read" \in Faults /\ failed' = failed \cup {"read"}
  /\ ret' = IF ferror THEN 1 ELSE ret
  /\ pc' = IF pc = "boot" /\ ret' = 0 THEN "kernel" ELSE "close"
  /\ source' = 0
  /\ UNCHANGED <<diskSize, disk, position>> /\ Steady

\* fclose writes what is still buffered; its result is not looked at.
Close ==
  /\ Step("close", "closed")
  /\ \/ UNCHANGED <<failed, disk>>
     \/ /\ "flush" \in Faults /\ disk # << >>
        /\ failed' = failed \cup {"flush"}
        /\ disk' = [p \in DOMAIN disk \ {position - 1} |-> disk[p]]
  /\ UNCHANGED <<ret, diskSize, position, source>> /\ Steady

\* make stops at an error, and is run again.
Again ==
  /\ Step("closed", "pack") /\ ret = 1
  /\ UNCHANGED <<modules, ret, failed, diskSize, disk, position, source, memory, module, next>>

-----------------------------------------------------------------------------
(* Boot: the MBR loads LOAD cells of the disk from BOOT_AT on, Pure64      *)
(* copies what lies behind itself in them to where the kernel runs, which  *)
(* moves the modules and then clears its .bss.                             *)

Pure64 ==
  /\ Step("closed", "count") /\ ret = 0
  /\ memory' = [p \in 0 .. (MEMORY - 1) |->
                  IF p < LOAD - BOOT_LEN THEN Read(disk, BOOT_AT + BOOT_LEN + p) ELSE Zero]
  /\ UNCHANGED <<modules, ret, failed, diskSize, disk, position, source, module, next>>

Unchanged == UNCHANGED <<modules, ret, failed, diskSize, disk, position, source>>

Cleared == [p \in DOMAIN memory |-> IF p \in BSS THEN Zero ELSE memory[p]]

loadModules_Bug ==                     \* .bss cleared first
  /\ Step("count", "modules")
  /\ module' = [count |-> Read(memory, KERNEL_LEN), i |-> 0] /\ next' = KERNEL_LEN + 1
  /\ memory' = Cleared /\ Unchanged

loadModules ==
  /\ Step("count", "modules")
  /\ module' = [count |-> Read(memory, KERNEL_LEN), i |-> 0] /\ next' = KERNEL_LEN + 1
  /\ UNCHANGED memory /\ Unchanged

\* The next module, whose length must be a number and fit in the memory.
loadModule ==
  /\ pc = "modules" /\ UNCHANGED pc
  /\ Number(module.i) # module.count /\ module.i < Len(Targets)
  /\ \E n \in 0 .. MEMORY :
       /\ Read(memory, next) = Number(n)
       /\ memory' = [p \in DOMAIN memory |->
            IF p \in Targets[module.i + 1] .. (Targets[module.i + 1] + n - 1)
            THEN Read(memory, next + 1 + p - Targets[module.i + 1]) ELSE memory[p]]
       /\ next' = next + 1 + n
  /\ module' = [module EXCEPT !.i = @ + 1]
  /\ Unchanged

clearBSS ==
  /\ Step("modules", "running") /\ Number(module.i) = module.count
  /\ memory' = Cleared
  /\ UNCHANGED <<module, next>> /\ Unchanged

-----------------------------------------------------------------------------

Init ==
  /\ pc = "pack" /\ modules = <<>> /\ ret = 0 /\ failed = {}
  /\ diskSize = [asked |-> <<>>, n |-> 0] /\ disk = << >> /\ position = 0 /\ source = 0
  /\ memory = << >> /\ module = [count |-> Zero, i |-> 0] /\ next = 0

Next ==
  \/ Pack \/ Again
  \/ \E size \in Sizes : Open(size) \/ Refuse(size, {}) \/ ("open" \in Faults /\ Refuse(size, {"open"}))
  \/ Fill \/ format \/ WriteMbr \/ Copy \/ CopyEnds \/ Close
  \/ Pure64 \/ loadModules \/ loadModule \/ clearBSS

Spec == Init /\ [][Next]_vars

-----------------------------------------------------------------------------
(* Properties.                                                             *)

Holds(cells, at, file) == \A k \in 1 .. Len(file) : Read(cells, at + k - 1) = file[k]

\* initialize reports success only for a disk that has the MBR, an empty
\* directory and the whole of both files, unless one of the files copied could
\* not be read to its end or fclose failed: a write that fails anywhere is
\* reported at the latest by the ferror(disk) behind the copies (bmfs.c:522,
\* 550), whichever step it was.  The two exceptions are failures the code
\* reports as a success: it asks the disk's stream for the error where the
\* file's may have it, and it does not look at what fclose returns.
SuccessIsWhole ==
  pc = "closed" /\ ret = 0 /\ failed \cap {"read", "flush"} = {} =>
    /\ Holds(disk, 0, File("mbr", 1)) /\ Holds(disk, INFO_AT, <<"BMFS">>)
    /\ Holds(disk, DIR_AT, Zeros(BOOT_AT - DIR_AT))
    /\ Holds(disk, BOOT_AT, File("boot", BOOT_LEN))
    /\ Holds(disk, BOOT_AT + BOOT_LEN, buildImage(modules))

\* Every module packed stands whole at its place when userland starts, although
\* the kernel's .bss lies over the packed modules (kernel.c:57 before 65): with
\* tools that reported no error and an image within what the boot loader reads.
ModulesIntact ==
  pc = "running" /\ failed \cap {"read", "flush"} = {}
                 /\ BOOT_LEN + Len(buildImage(modules)) <= LOAD =>
    \A i \in 1 .. Len(modules) : Holds(memory, Targets[i], File(Name(i), modules[i]))

\* n times KILO, factor times.
Times(n, factor) ==
  LET product[k \in 0 .. factor] == IF k = 0 THEN n ELSE KILO * product[k - 1]
  IN  product[factor]

\* What a well-formed size denotes: its digits, times its unit.
Denoted(size) ==
  LET value[i \in 0 .. Len(size)] ==
        IF i = 0 THEN 0
        ELSE IF size[i] \in DOMAIN DigitOf THEN 10 * value[i - 1] + DigitOf[size[i]]
        ELSE Times(value[i - 1], UnitOf[size[i]])
  IN  value[Len(size)]

\* A size that fits its 64 bits is taken for what it says (bmfs.c:299-377); the
\* tests against overflow miss larger ones that wrap to something larger.
SizeExact ==
  pc = "fill" /\ Denoted(diskSize.asked) < Span => diskSize.n = Denoted(diskSize.asked)
=============================================================================
