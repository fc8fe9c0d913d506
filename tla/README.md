# A TLA+ model of the Arqui golf kernel

This directory specifies the repository in TLA+: a small 64-bit kernel
(`Kernel/`) with a shell and a golf game in user mode (`Userland/`), and the host
tools that build its disk (`Bootloader/BMFS`, `Toolchain/ModulePacker`). The
specifications are translated from the C and assembly source; TLC checks them on
small instances, and TLAPS proves most of what TLC checks, the three refinements
included, for every value of the constants.

    tlc -config InputPath_read.cfg MCInputPath.tla
    tlapm MatchProofs.tla

## 1. Inventory

| Component | State | Operations | Interacts with |
|---|---|---|---|
| Keyboard driver (`drivers/keyBoardDriver.c`) | modifier flags, `key_states`, a ring buffer of characters | `keyboard_interrupt_handler`, `keyboard_read_getchar`, `is_key_pressed` | called from IRQ1 and from system calls; requests a snapshot |
| Interrupt entry (`asm/interrupts.asm`, `idtLoader.c`, `irqDispatcher.c`, `exceptions.c`) | RFLAGS.IF, `do_snapshot`, `snapshot_buffer`, the frame on the stack | `_irq00Handler`, `_irq01Handler`, `_irq80Handler`, exceptions 0 and 6, `_hlt` | everything |
| System calls (`syscallDispatcher.c`, `syscalls_kernel.c`) | locals only | 15 calls | drivers |
| Timer (`time.c`) | `ticks` | `timer_handler`, `ticks_elapsed` | `syscall_sleep`, `syscall_beep` |
| Audio (`drivers/audioDriver.c`) | speaker bits of port 0x61 | `audio_play`, `audio_stop` | `syscall_beep` around a sleep |
| Video (`drivers/videoDriver.c`) | cursor, font scale, frame buffer | put, newline, backspace, tab, scroll, scale | write, exceptions, the pixels of the game |
| RTC (`drivers/rtc.c`) | hardware | `getTime` | getTime, one register a call |
| Kernel start (`kernel.c`, `moduleLoader.c`, `lib.c`) | memory layout | copy modules, clear `.bss` | ModulePacker's image |
| Shell and library (`shell/`, `lib.c`, `_loader.c`) | line buffer, user name, `current_font_scale` | `readLine`, `CommandParse`, nine commands | system calls; the game |
| Golf game (`game.c`, `game_functions.c`) | players, balls, hole, obstacles; level and victories | one loop per frame; a nested call per round | polls `is_key_pressed`, paints pixels, sleeps, beeps |
| BMFS utility (`BMFS/bmfs.c`) | directory and blocks of the disk | initialize, format, create, read, write, delete, list | a process per command |
| ModulePacker (`ModulePacker/main.c`) | the image | append kernel and modules | `loadModules` |
| Pure64 | boot tables | read of the disk, start of the processors, move of the kernel | the kernel |

What is hard in this code, and what makes each part correct:

* **One processor, two contexts.** The ring and the snapshot are shared by the
  keyboard interrupt and by system calls without any lock. They are right only
  because int 0x80 goes through an interrupt gate. Wanted: the ring is a FIFO,
  its counters agree, a snapshot is read whole, and the program always gets its
  interrupts back.
* **A driver of state machines.** Press, repeat and release in any order, two
  keys for one modifier, extended scancodes. Wanted: nothing stays stuck, what
  is held is known.
* **Waiting.** `sti; hlt` in a loop that tests a tick count: the tick can come
  between the test and the hlt, and any interrupt ends the hlt. Wanted: a sleep
  is never cut short by a key, is late by at most one tick, and returns.
* **A disk edited by independent processes**, each of which can be stopped or
  fail in the middle. Wanted: files never overlap, none disappears, what is read
  is what was written, and a reported success is one.
* **A round that can end in four ways in one frame** (the ball drops, strokes are
  used up, a seventh stroke, ESC), each with its own path to the next round and
  to the shell. Wanted: score and level follow the rounds, and nothing of one
  match is left in the next.
* **Physics in integers**: tenths truncated towards 0, bounces that move the
  ball. Wanted: it stays on the field, comes to rest and can be reached.
* **A picture that is never painted again**: each frame repairs what it moved.
  Wanted: the screen shows the scene.
* **A cursor kept in pixels, a scale kept twice, a line edited blindly.** Wanted:
  nothing is drawn outside the frame buffer (one exception: section 5, number 12),
  both scales agree, and what the user sees is what `readLine` has.

`PROJECT.json` lists every hazard with its line and the properties that cover it.

## 2. The modules

    KeyQueue            abstract bounded FIFO
       ^ implemented by
    KeyboardDriver      driver and keyboard, handler and read atomic
       ^ extended by
    InputPath           the same handler against the statements of system calls
       ^ extended by
    InputPathProofs     the proofs about both

    ScancodeTable       the table of the driver, as data
    MCKeyboardDriver, MCInputPath   small keyboards for TLC
    Timer               ticks, sleep, beep, shutdown, hlt against real time; TimerProofs
    BMFS                the host utility and its disk; BMFSProofs
    Image               ModulePacker, bmfs initialize, boot, module loader;
                        MCImage, ImageProofs

    Round               the rules of one round, without geometry
       ^ extended by                       ^ implemented by
    Match               home screen,      Golf    coordinates, tables, physics;
       ^ extended by    rounds, score             MCGolf, GolfProofs
    MatchProofs                           Canvas  the pixels of the field;
                                                  MCCanvas, CanvasProofs
    Geometry            directions and distances, extended by Golf and Canvas

    Console             cursor, scale and glyphs of the video driver, as operators
       ^ extended by
    Shell               readLine, commands, prompt, RTC; MCShell
       ^ extended by
    ShellProofs

**KeyQueue** is what `keyboardDriver.h` promises its callers: oldest character
first, 0 exactly when there is none, a character refused only when full.

**KeyboardDriver** has one variable per static variable of `keyBoardDriver.c`.
`key_states`, an array of 0 and 1, is the set of indexes that hold 1. The
keyboard is external: `MakeKey` is a press or a typematic repeat, `BreakKey` a
release of a held key; an extended key sends 0xE0 first, and the driver takes
that byte as a release of scancode 0x60, as the code does. `Interrupt` is the whole of
IRQ1: the pending byte, flags, `key_states`, translation, and then a push or a
snapshot request. Results a caller drops (`pushed`) or returns (`got`) are kept
in variables so that KeyQueue can speak of them. Values that are 0 at start
because they are static are 0 in `KbdInit`.

**InputPath** puts the driver on a processor. `pc` is the statement to execute,
`intr` is RFLAGS.IF, `savedIntr` its copy in the frame of the system call.
`Int80` clears the flag, `Iretq` restores it, `Hlt` is `sti; hlt` (no interrupt
is recognised between the two). A pop is four steps, with
`buffer.size--` split into its load and its store: the kernel is compiled
without optimisation, and nothing in the driver forbids an interrupt there; only
the flag does. `Irq01` can come at any step at which the flag is set; it records
the registers of what it interrupts when a snapshot is pending and then runs
`keyboard_interrupt_handler` of KeyboardDriver. Registers are abstracted to the
context they belong to, so a snapshot is torn exactly when its entries differ.
An exception of the program restarts it with the flags of its frame.

**Timer** makes real time explicit: the PIT gives an edge every `PERIOD` units
(5 units of 11 ms are the 55 ms of 18.2 Hz), a tick is counted
only when its interrupt is taken, and statements take less than a period
altogether between two edges (`lag` keeps that). The call is a program counter
again, one action per statement. `ticks_elapsed` narrows to `INT_SPAN` and
widens with its sign to `LONG_SPAN`. `audio_play` reads whatever byte the last
port gives, since `inb` ignores its argument: a nondeterministic choice of the
two bits that matter. `outw` of shutdown either turns the machine off (an
emulator) or does nothing.

**BMFS** has the directory, the contents of the blocks (the name of the file a
block was written for) and the write in progress. Sizes are whole blocks, which
is what `create` rounds to (2 MiB). `create` is one action because the directory
is changed in memory and flushed by one `fwrite`; its search is written as the
set of turns of the loop in which the gap is large enough, over every order in
which `qsort` may leave the records (deleted ones compare as greater than
anything, each other included, so any order among them is possible). The
difference is unsigned in the code: a negative one is larger than any request.
`write` is several steps and `Crash` can stop it at any of them.

**Round** is one round as a referee sees it: which players reach which balls
(`touch`), which balls stop and which fall into the hole is chosen freely in every
frame. The order in which a frame looks at strokes, hole and defeat is that of the
loops of `game_start`: `PlayStrokes` is the collision loop, `Settle` what follows it,
with the two places that count a victory. `FailedRound` is the message in the middle
of the collision loop (`game.c:243`), which leaves the rest of the frame undone.

**Match** adds what is around a round. `depth` counts the calls of `game_start`
that have not returned, for the code starts each round from the message of the
previous one; `Return` unwinds them. Two variables are history, to compare the score
with: `announced` counts the rounds whose message names the player the winner, on
either of the two ways to a message, `forfeited` those of them that a seventh stroke
of the other player ended.

**Golf** has the numbers: pixels, tenths, and from **Geometry** the 36 directions,
`cos_table` and truncating division (`Quot`; `\div` of TLA+ rounds down). `Init`
allows every place `rand_range` may give and the `do ... while` loops accept, out of a
few tried; `Frame` is `Controls` (any of the keys up, left and right of each player,
as `game.c:210-232` polls them) followed by `SeventhStroke` or `Play`. `InReach` uses
the new position and `Struck` the new angle, since the loop of the controls comes
first. `R!RoundSpec`, with a ball moving when a component of its velocity is not 0, is
the abstract specification it implements.

**Canvas** maps every pixel to the colour of an object. Its operators are the paint
functions of the game; `Frame` moves the scene freely, the players by steps and turns
in the 36 directions of the tables, and applies the redraw of `game.c:410-432` to the
old picture. Tip of the arrow and step are truncated to whole pixels (`Along`).

**Console** is the video driver as operators on a terminal `[screen, x, y, scale]`, in
pixels; `screen` tells which character each pixel belongs to. `video_putPixel` tests
nothing: a pixel past the right border comes out at the left, one line of pixels
lower, and past the last line it is outside the frame buffer (`PixelAt`). The pitch of
the mode is taken to be its width, as it is where lines are not padded.

**Shell** is a program on that terminal. `out` holds what `printf` or an echo still
has to write, one `PutChar` per character, and no key is taken before it is empty:
`getchar` is called after the output. Commands and texts are short sequences of
glyphs. `ReadRegister` and `Tick` interleave the three reads of `getTime` with the
clock. A game is two steps, start and end; what it does to the console is what
`displayFullScreenMessage` and `clearScreen` leave. An exception prints and starts
userland again, whose initialised variables nobody resets.

**Image** follows bytes from the packer to userland, a cell for a run of bytes:
`buildImage`, the parsing of a size as 64-bit arithmetic (`WIDTH`), each part of
`initialize` with its writes that can fail (`failed` remembers which did), the copy
to memory by the boot loader (what `bmfs_mbr.asm:31` reads, moved by `pure64.asm:587`),
`loadModules` and the clearing of `.bss`.
After a failure `make` stops and is run again (`Again`).

Every definition whose name ends in `_Bug` (or `_NoTest`, `_Strict`, `_Reserve`)
is a plausible mistake in the definition after it. No specification uses it;
replacing the definition by it must break the property `PROJECT.json` names,
which shows that the property says something about the code.

## 3. The runs

| Run | Question | Instance |
|---|---|---|
| `Keyboard_driver` | Is the ring with atomic operations a bounded FIFO (refinement of KeyQueue); does a key or a modifier stay stuck? | buffer 2, both Shifts, both Ctrls, r |
| `InputPath_read` | Is the ring still that FIFO when popped statement by statement; does read return one line? | buffer 2, counts 0 to 2, a and Enter |
| `InputPath_context` | Are registers ever mixed; does the program keep its interrupts; are keys always served; does read return? | 2 registers, 2 contexts, r and Ctrl, fair |
| `Timer_sleep` | Bounds of sleep, speaker off, lost wake-up; do sleep and beep return? | 20 to 150 ms, 8 ticks, fair |
| `BMFS_files` | Overlap, data area, contents, with crashes and formats | 3 names, 3 records, 6 blocks |
| `BMFS_delete` | Names, disappearance, use of gaps, with deletes | 3 names, 4 records, 7 blocks |
| `BMFS_overlap`* | Do files stay apart after a delete? No. | 10 blocks |
| `Match_game` | Do score and level follow the rounds; does a match start clean? | 3 strokes, 3 levels, 4 rounds, 1 and 2 players |
| `Golf_field` | Do frames with numbers implement Round; do players and balls stay on the field; can a ball be played; does it stop? | 1024 x 768, the right part of the field, 2 strokes, fair |
| `Canvas_field` | Does the incremental redraw show the scene? | 14 x 10 pixels, 1 player, 36 directions |
| `Shell_console` | Cursor, line on the screen, scales, time | 4 x 12 pixels, characters of 1 x 2, 8 keys, scales 1 to 3 |
| `Image_boot` | Is success a whole disk; do modules arrive; are sizes exact? | 5 module sets, 9 sizes, every write may fail |

The run with * refutes a statement of the repository (section 5, number 1).

**Bounds.** A buffer of 1 or 2 slots is full, empty and wrapped within a few
keys, and the proofs hold for every size. `PortSize` bounds the bytes under way
from the keyboard: the user waits when it is reached (a real controller with
its 16 bytes full would lose bytes; the model says nothing about that).
`TickLimit` and `TimeLimit` end the counting of ticks and of `elapsed` beyond
what the longest call needs; `INT_SPAN` is beyond `TickLimit`, so the wrap of
`ticks_elapsed` after 2^31 ticks (3.8 years) is modelled but not reached. In
BMFS the number of records is the number of names, or one more where the
directory must not be full: the two cases in which `create` behaves differently.
A 10-block disk is large enough for three files with a hole. `NoOverlap` is
checked without delete, and `NoFileLost` in a directory that is never full,
because the other cases are false (section 5).

Four rounds of three levels pass the last level once; three strokes have a first,
a middle and a last one. In Golf, players, balls and the obstacle are placed so
that a ball driven to the right meets the border, comes back past the other ball
to the obstacle and bounces again; a frame sees any of the three keys of each player,
and the directions are limited to the two (one in pairs) in which that happens, since
36 directions for two players are out of TLC's reach. `BallReachable` is checked with
the obstacle away from borders: between an obstacle and a border closer than a player
a ball can come to rest where nobody gets to it (section 5, number 10). Canvas scales
a radius, a ball, an arrow and a step of 10, 5, 18 and 10 pixels to 2, 1, 5 and 4, in
all 36 directions; the ball's places are over the hole, the arrow, the obstacle's edge
and the player. In Shell the screen is four characters wide, so that those of scale 3
do not divide it, as on 1024 pixels; eight keys are enough for
`font-size` with its answer and another command behind it, or for a line that
wraps, scrolls and is erased again; all names of commands are reachable with four
keys. `LineOnScreen` leaves out TAB, which is one character of the line and several
cells of the screen, and scales whose characters do not divide the width. In Image a K
is 4 and a word has 8 bits, so that two or three digits overflow; module sets
include an image that ends exactly with what the boot loader reads and one beyond.

**Fairness.** `InputPath!FairSpec`: the processor executes kernel statements (WF
of `Kernel`), the PIT keeps waking a hlt (WF of `TimerWake`), and an interrupt
that is pending again and again while the flag is set is recognised (SF of
`Irq01`: the flag goes off and on with every system call, but x86 takes a
pending interrupt at the next instruction boundary with IF set, which is
stronger). Nothing is assumed of the program or of the user. `Timer!FairSpec`:
time passes, kernel statements are executed, a due tick is taken, all weak.
`Golf!FairSpec`: the loop of `game_start` keeps running (WF of `Next`), whatever
keys are held; `BallStops` is for one player only, because with two the other can
keep a ball moving for ever.

## 4. The proofs

Each `*Proofs` module extends the module it is about. Its theorems hold for every
value of the constants that satisfies the named assumptions of that module; TLC
evaluates those on the constants of every run. A theorem with a hypothesis of its
own states it with ASSUME, and the instance of the run satisfies it too, except for
`FirstLevelPlayable`, which is about a level before the one of the run.

**InputPathProofs**, first half, the driver alone (any buffer size, table, keyboard):
`KbdTypesHold`, `EntriesFollowKeys`, `FlagsFollowKeys` and the refinement
`RingImplementsQueue`. That `key_states` and the flags follow the keys is not
inductive, because bytes travel through the port while keys move. `KbdInv` therefore
speaks of what they *will* be when the driver has handled all that is under way
(`Tracking`); pressing a key adds a byte at the far end, the interrupt takes one from
the near end, and both leave that future alone. For the refinement the queue is read
off the ring as `size` slots from `readIndex` on, and `RingAligned` says that
`writeIndex` is where they end. `KbdSpec` has neither fairness nor hidden state, so
the refinement is the two facts that `KbdInit` implies `QInit` and that a step under
`KbdInv` is a step of the queue or a stutter.

**InputPathProofs**, second half (any buffer size, table with entries below 128, set
of keys, and program): `TypeCorrect`, `RingCorrect`, `RegsCorrect`,
`InterruptibleCorrect`, `LineCorrect` and the refinement `PathImplementsQueue`. None
of the first four is inductive. That `size` stays within `0 .. BUFFER_SIZE` needs that
a pop has found it positive and that nobody changes it between the load and the store;
that in turn needs interrupts to be off wherever a pop or a copy is in progress.
`IInv` adds this: `Exclusion` (where the flag is clear, and what a pop in progress
knows: `size > 0`, and `tmp = size` before the store) and `SnapshotWhole` (the
snapshot is of one context and a copy in progress agrees with it so far). The argument
is the one of the code: `Int80` establishes `Exclusion`, every kernel statement keeps
it, `Hlt` opens interrupts only in sleep, where the ring and the snapshot are not in
use, and `Irq01` is disabled elsewhere. `LineInv` adds that a call that goes on has
stored no newline, and that a pop has room for its character. In the refinement a
character leaves the abstract queue where it is loaded from its slot (`PopTake`); the
three other statements of a pop stutter, which again needs `Exclusion`.

**TimerProofs** (any period, durations, spans of the integers): `TypesHold`,
`SpeakerSilenced`, `RaceBounded`, `SleepLongEnough`. The last two assume `NoWrap`,
that ticks stay below half of what `ticks_elapsed` can return: past 2^31 ticks (3.8
years) the code is wrong, not the proof. `RaceInv` is a table of where the loop is:
with the flag clear the count is at most the target, after the first hlt at most one
tick can come between the test and the next hlt, because statements between two
edges take less than a period (`lag`). `SleepInv` counts real time in edges: since
the call began `elapsed` is at least a period for every edge counted or latched but
the first. `Uncapped` says that `TimeLimit`, which only keeps the model finite, is
beyond the longest duration.

**BMFSProofs** (any disk, directory, set of names, sizes): `DiskTypes`, `NamesUnique`,
`RoomFound` without restriction, `FilesStay` with fewer names than records, and
`FilesApart`, `FilesInside`, `OwnDataRead` for disks on which nothing is deleted: the
restrictions are those of the runs, and section 5 has the counterexamples without
them. The directory ends at its first unused record, so all proofs go through the
set of records before the end, whose prefix property every command keeps.
`FewInv` is why the directory is never full: the records before the end are no more
than the names, since deleted ones are used again first. `FilesApart` needs the
search of `create` in both directions, a turn that is accepted ends before every
file of the later turns and starts behind all those of the earlier ones, for every
order `qsort` may give. `OwnInv` adds the blocks the write under way has copied.

**MatchProofs**, for any number of strokes, levels and rounds (`HitsAssumption`,
`LevelAssumption`): all four properties of `Match_game`, `TypeCorrect`,
`StartsClean`, `ScoreCorrect` and the action property `LevelCorrect`. `IInv` is
`TypeOK`, `PhaseInv` and `ScoreInv`. `PhaseInv` says what each phase knows of depth,
level and `reset_victorias`: a match starts clean because the flag is on again on
every way out and off while rounds are played, and a round that goes on has no
winner, so that nothing is counted in it twice. `ScoreInv` is what makes
`ScoreIsRight` inductive: in pairs a victory counts exactly two
for every round won otherwise than by a seventh stroke
(`victorias[i] = 2 * (announced[i] - forfeited[i])`), from which the ranking follows;
the ranking alone would not be kept by a frame.

**GolfProofs**, for every screen at least 50 by 10 pixels, all places drawn for hole,
obstacles, players and balls, and any strokes: `FieldKept` and the refinement
`GolfImplementsRound`. `FieldInv` is inductive because `Border` puts a ball back on
the field after every move, whatever the velocity. The refinement needs `RoundInv`:
between frames nobody has won and no ball is within the hole, so that a ball found
there has arrived in this frame, as `Round` has it. Each frame gives Round its
witnesses: the strokes (`Reached`), the balls that came to rest (`Stopped`) and those
that fell (`Dropped`). The keys are any subset of the three in every frame.

`ClearFieldPlayable` is `BallReachable` on fields without obstacles, at any level, and
`FirstLevelPlayable` what follows for the first level, which has none. The player stands
on one of the four diagonals of the tables. `WayAlong` takes the axes one by one: the
way that leads away from the hole is free, or it ends at a border, and then the hole,
50 pixels off the borders, is far enough away. `FarEnough` adds up the two axes; at 1366
pixels one axis may be a pixel short, which the other makes up for (`OffTheHole`).
`RestOffHole` is needed for the end of a round, where two balls may be within the hole
and one counts: a ball whose speed ends in a frame is not moved in it (`RestsInPlace`),
so it was off the hole before. The diagonals are too short for the corners of much wider
screens, whose players are larger in proportion to the five pixels of a ball: hence the
bound of 1400 pixels. The modes Pure64 prefers (`sysvar.asm:73`) are 1024 and 1366 wide.

**ShellProofs**, for every screen whose height is a multiple of six lines of scale 1 and
at least three characters wide, every set of keys and texts and every session
(`ScreenAssumption`, `TabAssumption`): `CursorCorrect` and `FontsCorrect`, the
invariants `CursorOnScreen` and `FontsAgree`.
One lemma per operation of the driver shows that it keeps the cursor on a line of
the current scale that fits on the screen; `NewLineOnScreen` does so even for a
cursor past the right border, which is where `video_putChar` and `video_tab` leave
it. That the cursor is also at a multiple of the width of a character (`Placed`) makes
the last character of a line the only one that can be cut: `CoveredOnScreen` takes the
pixels of a character to the places `video_putPixel` writes, and if the width is a
multiple of the character's none is past the border. Width and height of a character
are opaque to the prover; a few lemmas on multiples (`Products`, `Quotient`,
`OneLess`) carry the arithmetic.
A change of scale alone does not: the cursor may end between two lines of the
new scale. Both callers clear the screen after it, and the proof of `Command` and of
`GameEnds` needs that. `TimeCorrect` is about any clock with two hours or more
(`ClockAssumption`) and assumes that the three reads together take no more than a
minute of it, as the bound `MAX_TICKS` of the run does. `ReadInv` says what the
registers read so far owe to the time since the first: the minute is the one of the
start, or the next one if the clock has got there.

`LineCorrect` is `LineOnScreen` for all keys and questions that hold no control
character (`Plain`), with glyphs that are any values (`TextAssumption`). What is on the
screen after an unbounded history of wraps and scrolls would need an induction over
the history; the proof looks at what is still to be written instead. `Reading` says:
either the question has not been begun; or the screen shows (`Shows`) a text which,
with the characters in `out` behind it, makes up question and line; or one of the
three stages of erasing a character is reached, with one character more on the screen
or not. `PutCharShows` and `BackSpaceShows` are the two facts on the driver: a glyph
makes the text on the screen one longer, a backspace one shorter, across the end of
a row and when the screen scrolls; a cell that scrolls out is before the whole
grid and nothing is claimed of it. They need `Clean`, kept by every character
(`PutCharClean`): nothing stands at the cursor or after it, and the cursor is on the
grid of cells. `BeforeIs` is the arithmetic of that grid.

**CanvasProofs**, for every field, obstacles, hole, radii and places: `PictureCorrect`,
that the screen shows the scene if there is one player. With the types of the scene
`ShowsScene` is inductive, so the proof is about one redraw: a pixel it paints gets
what lies there in the new scene, and one that it leaves alone lay under the same
objects before. The
circles that are erased and drawn give that for disc, ball and hole; the arrow needs
geometry: no pixel of an arrow may lie just outside the disc of its player, before a
step or after it (`ArrowAssumption`, over the 36 directions), for `eraseArrow` takes
such a pixel for the player's and the body does not paint it. `ScreenArrow` shows that
an arrow of 18 and steps of 10 pixels meet the assumption with radii of 10 to 15, that
is, on screens 1000 to 1599 pixels wide. Both hypotheses are needed: without them TLC
finds the ghost pixels of section 5, number 11.

**ImageProofs**, for every layout of the disk, lengths of files, modules, and size of
the copy buffer: `SuccessWhole`, `ModulesArrive` and `SizesExact`. `ImageLayout` says
where in the image the packer puts what, for any number of modules. The prover cannot
use the library's induction theorems; the lemmas on `buildImage` take the least number
of modules for which they would fail instead (`LeastOf`, from the well-foundedness of
`<`), which also gives that the recursive function exists. `DiskInv` is what each part
of `initialize` finds on the disk as long as nothing has failed; `ret` is 0 behind the
copies only if no write has failed, for the stream's error is sticky. The theorem has
the two exceptions of `SuccessIsWhole`: a file that could not be read to its end, and
`fclose`. `MemoryInv` says that while modules are moved the whole image still stands
where it was loaded, because no place lies in it (`PlacesAssumption`: the places are
behind what is loaded, apart from each other and off the `.bss`), and `.bss` is
cleared only when all are moved.

`SizesExact` is about four recursions: the number read so far and the number scaled so
far, as the code computes them, against what the characters denote, without a limit
(`Denoted`, `Times`). `Upto` and `Recursion` give induction over a set of numbers and
that a step which stays in a set has a recursion; each recursion is then a function
with known steps (`ParsedIs`, `ScaledIs`, `DenotedIs`, `TimesIs`). A size without an
error has digits only, up to a unit at its end (`ParsedWellFormed`). What it denotes
grows with every character and every turn, so if the end fits in `Span` every number
on the way does, and no step wraps (`ParsedExact`, `ScaledExact`). `Span` is used only
as a positive number; that it is a power of 2 does not matter.

Only model-checked: `BallReachable` with obstacles (it depends on where they are, and
number 10 of section 5 is a place for which it is false), and all liveness: temporal
proofs with fairness need ENABLED, which is out of the prover's reach.

## 5. Where the code surprises

Refuted by a run:

1. **create after delete overlaps files** (`bmfs.c:681`): deleted records are
   sorted last but still move the position at which room is looked for, while
   `BareMetal File System.md:20` promises a comparison with blocks in use.

Seen while modelling; the modules have what the code does:

2. **create in a full directory** (`bmfs.c:698`): after deleting the first file of
   a full directory, the next create ends the directory behind it. `BMFS_delete`
   keeps a record free for that reason.
3. **The `]` key is dead** (`keyBoardDriver.c:122`). `case ESC` compares a
   scancode with the character 0x1B, which is the scancode of `]`.
4. **Ctrl+R does not record** (`interrupts.asm:115`). It asks for the registers at
   the *next* keyboard interrupt; the game's screen says pressing it takes the
   snapshot.
5. **sleep is shorter than its milliseconds** (`syscalls_kernel.c:76`): it counts
   edges, and the first can be immediate. `SleepLasts` is what does hold: one
   period less than the rounded number of ticks.
6. **inb ignores its port** (`libasm.asm:53`), so `audio_play` decides from a
   counter byte and can leave the speaker off.
7. **Two-player victories count twice** (`game.c:382` and `449`), so the final
   message shows double scores. What is left is the ranking, but only by the rounds
   that were counted: see the next number.
8. **A seventh stroke announces a winner and counts nothing** (`game.c:243-252`): a
   player named the winner of every round in this way ends with a score of 0, and the
   other, who won one round otherwise, is ahead. `ScoreIsRight` leaves these rounds out
   of the ranking. The level stays as well.
9. **Rounds nest** (`game.c:292`, `503`): each is a call of `game_start` from the
   previous one with its obstacles on the stack, which a long match exhausts.
10. **A wedge** (`game.c:346`): an obstacle about ten pixels from a border leaves
    room for a ball but not for a player.
11. **Ghost pixels** (`game_functions.c:313`): `circles_overlap` with radius 1 takes
    the pixel next to a player for the player. With one player the body is drawn
    over it again if the arrow fits (`ArrowAssumption`); with two, TLC finds a pixel of
    the other player left behind. On screens 800 or 1600 pixels wide, whose players have
    a radius of 8 or 16, a pixel of the arrow lies just outside the disc in some
    directions and stays behind in the player's colour even with one player.
    And `eraseBallSmart` takes the hole to have the 15 pixels of level 1
    (`game_functions.c:121`), so at higher levels a ball leaves black around it;
    `ShowsScene` allows for that.
12. **Characters cut by the right border** (`videoDriver.c:88`): at scale 3 the width of
    1024 pixels is not a multiple of a character's 24. The last character of a line has
    8 of its columns at the left of the screen, one pixel lower, and on the last line of
    the screen 8 pixels behind the end of the frame buffer. `CursorOnScreen` says that
    nothing else is drawn outside it.
13. **Names lose their tenth character** (`commands.c:64`): `strncpy` of the library
    copies one less than it is told, the help promises ten.
14. **A torn time is late**: carries between the three reads show a time up to a
    minute or an hour ahead; `TimeNotBehind` is the side that holds.
15. **The wrong stream is asked** (`bmfs.c:522`, `550`): `ferror(disk)` after a
    failed `fread` of the boot loader or the kernel. A short file is a success; so is
    an error in `fclose`. `SuccessIsWhole` excludes both.
16. **Some sizes that overflow are taken** (`bmfs.c:306`): a product that wraps to
    something larger passes the test. `SizeExact` is about sizes that fit.

One flag stands for both Shift keys, so with both held the release of either turns
Shift off (`keyBoardDriver.c:74`); `ModifiersReleased` states the half that holds.

## 6. Not modelled

* **Pure64** (third party) sets up tables in a straight line; only what it reads from
  the disk and moves to where the kernel runs appears, in Image. The naive console
  prints during start-up and nothing reads it. Build scripts have no state of the
  system.
* **Exceptions raised by kernel code**, such as the division by a frequency of 0 in
  `audio_play`: no caller of the repository provokes one.
* **Code without a caller**: `bounce_ball_on_obstacle`, `get_ball_power_factor`,
  `drawTextWithBg`, `fgets`, `scanf`, `toLower`, `printHex64`, the cursor moves of the
  video driver, `seconds_elapsed`.
* **Output only**: shapes of glyphs (`font.h`), text colours, the wording of messages
  and status lines, `printf` and `sprintf` beyond the text they produce, melodies.
* **Read only**: `list` and `read` of BMFS, the dispatch of its `main`; system calls
  that forward a pixel or a key state.
* Within the modelled parts: the controller's own buffer; the pseudo-random sequence
  of `my_rand` (any result is allowed); walking against polling, that is, a key
  pressed and released between two frames (Golf lets any of a player's keys be held in
  any frame); a pitch larger than the width.

What is left to do: two players on Canvas with a property that tells the ghost pixel
from any other; TAB in `LineOnScreen`.
