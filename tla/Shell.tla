------------------------------- MODULE Shell -------------------------------
(***************************************************************************)
(* The shell (shell/shell.c, shell/commands.c) on the console: readLine    *)
(* with its echo, the commands and the prompt.  printf prints one          *)
(* character per write: what is still to be printed waits in out.  Texts   *)
(* and words are abstract sequences of glyphs.  The keys of the user, the  *)
(* clock and the game are the environment.                                 *)
(***************************************************************************)
EXTENDS Console, Sequences, FiniteSetsExt

CONSTANTS Keys,                \* printable keys and TAB
          Texts,               \* the messages: a sequence of glyphs for each
          Words,               \* the names of the commands and of the exceptions
          Lower(_),            \* a key in lower case
          Digit,               \* the value of each digit key
          MAX_LINE_LENGTH, MAX_USER_LENGTH, SIZE_INPUT,  \* buffers: 100, 10, 10
          MAX_ARGS,            \* 3
          HOURS, MINUTES, SECONDS,  \* of the clock: 24, 60, 60
          MAX_KEYS,            \* bound: keys typed in a session
          MAX_TICKS            \* bound: seconds that pass while the clock is read

ASSUME ClockAssumption ==
  HOURS \in Nat /\ HOURS >= 2 /\ MINUTES \in Nat \ {0} /\ SECONDS \in Nat \ {0}

\* Texts are made of glyphs and control characters.
Glyphs == STRING
Messages == {"TP-ARQUI-", ":~$ ", "usuario", "welcome", "help", "regs", "exit", "time", "usage",
             "exception", "registers", "not found", "set-user", "font-size", "user set", "size set",
             "bad size"}

ASSUME TextAssumption ==
  /\ Keys \subseteq Glyphs /\ {BLANK, NL, BS, TAB} \subseteq Glyphs
  /\ \A name \in Messages : Texts[name] \in Seq(Glyphs)
ASSUME LengthAssumption == MAX_USER_LENGTH \in Nat

VARIABLES term,                \* the console
          out,                 \* characters still to be written
          mode,                \* what the shell is doing
          buf,                 \* the line readLine has so far
          shellUser, current_font_scale,
          clock,               \* of the RTC
          reading,             \* the registers timeCmd has read, and since when
          typed                \* keys typed so far

vars == <<term, out, mode, buf, shellUser, current_font_scale, clock, reading, typed>>

Reads == {"line", "user", "size"}
Midnight == [h |-> 0, m |-> 0, s |-> 0]
NotReading == [start |-> Midnight, read |-> Midnight, n |-> 0, ticks |-> 0]

-----------------------------------------------------------------------------
(* The library: words of a line, numbers, bounded copies.                  *)

IsWord(line, i) == line[i] # " "
Starts(line) == {i \in 1 .. Len(line) : IsWord(line, i) /\ (i = 1 \/ ~IsWord(line, i - 1))}
argc(line) == Min({MAX_ARGS, Cardinality(Starts(line))})

\* The k-th argument ends at the next blank; the loop of fillCommandAndArgs
\* stops at the last one it has room for and leaves the rest of the line in it.
argv(line, k) ==
  LET from == CHOOSE i \in Starts(line) : Cardinality({j \in Starts(line) : j < i}) = k - 1
      blanks == {j \in from .. Len(line) : ~IsWord(line, j)}
  IN  SubSeq(line, from, IF blanks = {} \/ k = MAX_ARGS THEN Len(line) ELSE Min(blanks) - 1)

\* How many characters of s from the i-th on are in S.
Run(s, i, S) ==
  CHOOSE n \in 0 .. (Len(s) - i + 1) :
    (\A j \in 0 .. (n - 1) : s[i + j] \in S) /\ (i + n <= Len(s) => s[i + n] \notin S)

atoi(s) ==
  LET sign == Run(s, 1, {" ", TAB, NL}) + 1
      signed == sign <= Len(s) /\ s[sign] \in {"-", "+"}
      first == IF signed THEN sign + 1 ELSE sign
      digits == SubSeq(s, first, first + Run(s, first, DOMAIN Digit) - 1)
      value[n \in 0 .. Len(digits)] == IF n = 0 THEN 0 ELSE 10 * value[n - 1] + Digit[digits[n]]
  IN  IF signed /\ s[sign] = "-" THEN -value[Len(digits)] ELSE value[Len(digits)]

strncpy(src, n) == SubSeq(src, 1, Min({Len(src), n - 1}))

Prompt == Texts["TP-ARQUI-"] \o shellUser \o Texts[":~$ "]

-----------------------------------------------------------------------------
(* Writing and reading.                                                    *)

\* The next character of printf, or of the exception handler's output.
PutChar ==
  /\ out # <<>>
  /\ term' = video_putChar(term, Head(out)) /\ out' = Tail(out)
  /\ UNCHANGED <<mode, buf, shellUser, current_font_scale, clock, reading, typed>>

Waiting == mode \in Reads /\ out = <<>>
Pressed == Waiting /\ typed < MAX_KEYS /\ typed' = typed + 1
maxLen == CASE mode = "line" -> MAX_LINE_LENGTH
            [] mode = "user" -> MAX_USER_LENGTH + 1
            [] OTHER -> SIZE_INPUT

\* readLine keeps a character while there is room for the final 0.
Type(c) ==
  /\ Pressed /\ Len(buf) < maxLen - 1
  /\ buf' = Append(buf, c) /\ out' = <<c>>
  /\ UNCHANGED <<term, mode, shellUser, current_font_scale, clock, reading>>

Erase_Bug ==                           \* erases the prompt when the line is empty
  /\ Pressed
  /\ buf' = SubSeq(buf, 1, Len(buf) - 1) /\ out' = <<BS, " ", BS>>
  /\ UNCHANGED <<term, mode, shellUser, current_font_scale, clock, reading>>

\* On an empty line there is a beep instead.
Erase ==
  /\ Pressed /\ buf # <<>>
  /\ buf' = SubSeq(buf, 1, Len(buf) - 1) /\ out' = <<BS, " ", BS>>
  /\ UNCHANGED <<term, mode, shellUser, current_font_scale, clock, reading>>

-----------------------------------------------------------------------------
(* Commands: Enter ends the line, echoes a newline and runs the command,   *)
(* whose texts follow, and the prompt after them.                          *)

line == [i \in 1 .. Len(buf) |-> Lower(buf[i])]

Enter(in) ==
  /\ Pressed /\ mode = in
  /\ buf' = <<>> /\ UNCHANGED reading

Is(name) == mode = "line" /\ argc(line) > 0 /\ argv(line, 1) = Words[name]

\* Commands that only print.
Prints(text) == out' = <<NL>> \o text \o Prompt /\ UNCHANGED <<term, mode>>

EmptyLine == Enter("line") /\ buf = <<>> /\ Prints(<<>>)
             /\ UNCHANGED <<shellUser, current_font_scale, clock>>

NotFound ==
  /\ Enter("line") /\ buf # <<>>
  /\ \A name \in {"help", "exit", "set-user", "clear", "time", "font-size", "exceptions",
                  "jugar", "regs"} : ~Is(name)
  /\ Prints(Texts["not found"])
  /\ UNCHANGED <<shellUser, current_font_scale, clock>>

PrintCmd(name) ==
  /\ Enter("line") /\ Is(name) /\ name \in {"help", "regs"}
  /\ Prints(Texts[name])
  /\ UNCHANGED <<shellUser, current_font_scale, clock>>

\* set-user and font-size ask for a line of their own.
AskCmd(name, in) ==
  /\ Enter("line") /\ Is(name) /\ <<name, in>> \in {<<"set-user", "user">>, <<"font-size", "size">>}
  /\ mode' = in /\ out' = <<NL>> \o Texts[name]
  /\ UNCHANGED <<term, shellUser, current_font_scale, clock>>

setUserCmd ==
  /\ Enter("user")
  /\ shellUser' = strncpy(buf, MAX_USER_LENGTH)
  /\ mode' = "line"
  /\ out' = <<NL>> \o Texts["user set"] \o shellUser' \o <<NL>> \o Prompt'
  /\ UNCHANGED <<term, current_font_scale, clock>>

\* A size in 1 .. 3 clears the screen, and the echo of the newline with it.
fontSizeCmd ==
  /\ Enter("size")
  /\ mode' = "line"
  /\ IF atoi(buf) \in 1 .. 3
     THEN /\ current_font_scale' = atoi(buf)
          /\ term' = video_clearScreen(syscall_setFontScale(term, atoi(buf)))
          /\ out' = Texts["size set"] \o Prompt
     ELSE /\ out' = <<NL>> \o Texts["bad size"] \o Prompt
          /\ UNCHANGED <<current_font_scale, term>>
  /\ UNCHANGED <<shellUser, clock>>

clearCmd ==
  /\ Enter("line") /\ Is("clear")
  /\ term' = video_clearScreen(term) /\ out' = Prompt
  /\ UNCHANGED <<mode, shellUser, current_font_scale, clock>>

exitCmd ==
  /\ Enter("line") /\ Is("exit")
  /\ term' = video_clearScreen(term) /\ out' = Texts["exit"] /\ mode' = "off"
  /\ UNCHANGED <<shellUser, current_font_scale, clock>>

Fault == argc(line) = 2 /\ argv(line, 2) \in {Words["zero"], Words["invalidopcode"]}

\* The wrong arguments print a message; the right ones run into the handler of
\* the exception, which prints and starts userland again.
exceptionCmd_Misused ==
  /\ Enter("line") /\ Is("exceptions") /\ ~Fault
  /\ Prints(Texts["usage"])
  /\ UNCHANGED <<shellUser, current_font_scale, clock>>

exceptionCmd_Bug ==                    \* the restart resets the library's variable
  /\ Enter("line") /\ Is("exceptions") /\ Fault
  /\ Prints(Texts["exception"] \o Texts["registers"] \o Texts["welcome"])
  /\ current_font_scale' = 1
  /\ UNCHANGED <<shellUser, clock>>

exceptionCmd ==
  /\ Enter("line") /\ Is("exceptions") /\ Fault
  /\ Prints(Texts["exception"] \o Texts["registers"] \o Texts["welcome"])
  /\ UNCHANGED <<shellUser, current_font_scale, clock>>

gameCmd ==
  /\ Enter("line") /\ Is("jugar")
  /\ mode' = "game" /\ out' = <<NL>>
  /\ UNCHANGED <<term, shellUser, current_font_scale, clock>>

\* The game shows its messages at scale 1, restores the scale and clears.
GameEnds ==
  /\ mode = "game" /\ out = <<>>
  /\ term' = video_clearScreen(
               syscall_setFontScale(syscall_setFontScale(term, 1), current_font_scale))
  /\ mode' = "line" /\ out' = Prompt
  /\ UNCHANGED <<buf, shellUser, current_font_scale, clock, reading, typed>>

timeCmd ==
  /\ Enter("line") /\ Is("time")
  /\ mode' = "time" /\ out' = <<NL>>
  /\ UNCHANGED <<term, shellUser, current_font_scale, clock>>

-----------------------------------------------------------------------------
(* time: three registers, read one after the other while the clock runs.   *)

Clocks == [h : 0 .. (HOURS - 1), m : 0 .. (MINUTES - 1), s : 0 .. (SECONDS - 1)]
Total(t) == (t.h * MINUTES + t.m) * SECONDS + t.s
Day == HOURS * MINUTES * SECONDS

getTime_Order_Bug == <<"h", "m", "s">>
getTime_Order == <<"s", "m", "h">>

\* The clock matters only while it is read: it shows any time when that starts.
ReadRegister ==
  /\ mode = "time" /\ out = <<>> /\ reading.n < 3
  /\ IF reading.n > 0 THEN UNCHANGED clock ELSE clock' \in Clocks
  /\ LET field == getTime_Order[reading.n + 1]
     IN  reading' = [reading EXCEPT !.n = @ + 1,
                                    !.start = IF reading.n = 0 THEN clock' ELSE @,
                                    !.read = [@ EXCEPT ![field] = clock'[field]]]
  /\ UNCHANGED <<term, out, mode, buf, shellUser, current_font_scale, typed>>

Tick ==
  /\ mode = "time" /\ reading.n \in 1 .. 2 /\ reading.ticks < MAX_TICKS
  /\ clock' \in Clocks /\ Total(clock') = (Total(clock) + 1) % Day
  /\ reading' = [reading EXCEPT !.ticks = @ + 1]
  /\ UNCHANGED <<term, out, mode, buf, shellUser, current_font_scale, typed>>

PrintTime ==
  /\ mode = "time" /\ reading.n = 3
  /\ mode' = "line" /\ out' = Texts["time"] \o Prompt
  /\ clock' = Midnight /\ reading' = NotReading
  /\ UNCHANGED <<term, buf, shellUser, current_font_scale, typed>>

-----------------------------------------------------------------------------

Init ==
  /\ term = Booted /\ mode = "line" /\ buf = <<>>
  /\ shellUser = Texts["usuario"] /\ current_font_scale = 1
  /\ out = Texts["welcome"] \o Prompt
  /\ clock = Midnight /\ reading = NotReading /\ typed = 0

Command ==
  \/ EmptyLine \/ NotFound \/ PrintCmd("help") \/ PrintCmd("regs")
  \/ AskCmd("set-user", "user") \/ AskCmd("font-size", "size")
  \/ setUserCmd \/ fontSizeCmd \/ clearCmd \/ exitCmd
  \/ exceptionCmd_Misused \/ exceptionCmd \/ gameCmd \/ timeCmd

Next ==
  \/ PutChar \/ \E c \in Keys : Type(c)
  \/ Erase \/ Command \/ GameEnds
  \/ ReadRegister \/ Tick \/ PrintTime

Spec == Init /\ [][Next]_vars

-----------------------------------------------------------------------------
(* Properties.                                                             *)

\* The cursor stays on a line of the current scale that ends on the screen,
\* through scrolling, backspaces, tabs, font changes and restarts.  So what is
\* drawn at it stays inside the frame buffer, which video_putPixel
\* (videoDriver.c:52) does not test, with one exception: where the characters do
\* not divide the width (scale 3 on 1024 pixels), the last one of a line is cut
\* by the right border, and on the last line of the screen its bottom pixels fall
\* behind the end of the buffer, fewer of them than it is wide.
CursorOnScreen ==
  /\ term.scale \in 1 .. 3
  /\ term.x \in 0 .. (WIDTH - 1)
  /\ term.y >= 0 /\ term.y + CharHeight(term) <= HEIGHT
  /\ term.y % CharHeight(term) = 0
  /\ \A p \in Covered(term) \ Pixels :
       WIDTH % CharWidth(term) # 0 /\ p[2] = HEIGHT /\ p[1] < CharWidth(term) - 1

\* The library remembers the scale the driver has (lib.c:405): the game saves
\* and restores it, and an exception restarts the one and not the other.
FontsAgree == current_font_scale = term.scale

\* The glyphs before the cursor: the n-th cell back, at the current scale.
PerRow == WIDTH \div CharWidth(term)
Cell == (term.y \div CharHeight(term)) * PerRow + (term.x \div CharWidth(term))
CellBack(n) ==
  <<((Cell - n) % PerRow) * CharWidth(term), ((Cell - n) \div PerRow) * CharHeight(term)>>
Asked == CASE mode = "line" -> Prompt
           [] mode = "user" -> Texts["set-user"]
           [] OTHER -> Texts["font-size"]
Behind ==
  {p \in Pixels : p[2] > term.y + CharHeight(term) - 1 \/ (p[2] >= term.y /\ p[1] >= term.x)}

\* What the user sees is what readLine has: before the cursor stand the prompt
\* and the line typed so far, after corrections across the ends of lines and
\* scrolling, and nothing of what was erased is left behind them (readLine,
\* shell.c:37-61, against video_backSpace).  For keys without TAB, which is one
\* character of the line and several cells of the screen, and at scales whose
\* characters divide the width of the screen (1 and 2 on 1024 pixels).
LineOnScreen ==
  LET shown == Asked \o buf
  IN  Waiting /\ WIDTH % CharWidth(term) = 0 =>
        /\ \A n \in 1 .. Min({Cell, Len(shown)}) :
             term.screen[CellBack(n)] = shown[Len(shown) + 1 - n]
        /\ \A p \in Behind : term.screen[p] = BLANK

\* The time shown is never one that had passed before the command was given,
\* although the clock runs between the three reads of getTime (lib.c:392-396):
\* seconds are read first, so a carry in between makes it late, not early.
TimeNotBehind ==
  mode = "time" /\ reading.n = 3 =>
    (Total(reading.read) - Total(reading.start)) % Day <= Day \div 2
=============================================================================
