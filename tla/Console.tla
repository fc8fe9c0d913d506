------------------------------ MODULE Console ------------------------------
(***************************************************************************)
(* The text side of the video driver (Kernel/drivers/videoDriver.c): a     *)
(* cursor in pixels, a font scale and, for every pixel of the frame        *)
(* buffer, the character it belongs to.  Every operator takes a terminal   *)
(* and returns the next one.                                               *)
(***************************************************************************)
EXTENDS Integers

CONSTANTS WIDTH, HEIGHT,              \* of the screen in pixels (1024 x 768)
          FONT_WIDTH, FONT_HEIGHT,    \* of a character at scale 1 (8 x 16)
          TAB_CELLS                   \* characters between tab stops (8)

\* A whole number of lines of every scale fills the screen (768 = 8 * 6 * 16);
\* the width need not be a multiple of anything.
ASSUME ScreenAssumption ==
  /\ FONT_WIDTH \in Nat \ {0} /\ FONT_HEIGHT \in Nat \ {0}
  /\ WIDTH \in Nat /\ WIDTH >= 3 * FONT_WIDTH
  /\ HEIGHT \in Nat \ {0} /\ HEIGHT % (6 * FONT_HEIGHT) = 0
ASSUME TabAssumption == TAB_CELLS \in Nat \ {0}

BLANK == " "
NL == "NL"
BS == "BS"
TAB == "TAB"

Pixels == (0 .. (WIDTH - 1)) \X (0 .. (HEIGHT - 1))
NoText == [p \in Pixels |-> BLANK]
Booted == [screen |-> NoText, x |-> 0, y |-> 0, scale |-> 1]

CharWidth(t) == FONT_WIDTH * t.scale
CharHeight(t) == FONT_HEIGHT * t.scale

\* Where video_putPixel writes: its offset into the frame buffer is x + y * pitch,
\* so past the right border it is in the pixel line below, and below the last one
\* outside the frame buffer.
PixelAt(x, y) == IF x < WIDTH THEN <<x, y>> ELSE <<x - WIDTH, y + 1>>

\* What a character drawn at the cursor covers.
Covered(t) ==
  {PixelAt(t.x + i, t.y + j) : i \in 0 .. (CharWidth(t) - 1), j \in 0 .. (CharHeight(t) - 1)}

Drawn(t, c) == [t EXCEPT !.screen = [p \in Pixels |-> IF p \in Covered(t) THEN c ELSE @[p]]]

video_scrollUp(t) ==
  [t EXCEPT !.screen = [p \in Pixels |->
     IF p[2] + CharHeight(t) < HEIGHT THEN @[<<p[1], p[2] + CharHeight(t)>>] ELSE BLANK]]

newLine_Bug(t) ==                      \* a line too many before it scrolls
  IF t.y + CharHeight(t) <= HEIGHT THEN [t EXCEPT !.x = 0, !.y = @ + CharHeight(t)]
  ELSE [video_scrollUp(t) EXCEPT !.x = 0, !.y = HEIGHT - CharHeight(t)]

video_newLine(t) ==
  IF t.y + CharHeight(t) < HEIGHT THEN [t EXCEPT !.x = 0, !.y = @ + CharHeight(t)]
  ELSE [video_scrollUp(t) EXCEPT !.x = 0, !.y = HEIGHT - CharHeight(t)]

WrapLine(t) == IF t.x >= WIDTH THEN video_newLine(t) ELSE t

video_backSpace(t) ==
  IF t.x >= CharWidth(t) THEN Drawn([t EXCEPT !.x = @ - CharWidth(t)], BLANK)
  ELSE IF t.y >= CharHeight(t)
  THEN Drawn([t EXCEPT !.x = WIDTH - CharWidth(t), !.y = @ - CharHeight(t)], BLANK)
  ELSE t

video_tab(t) ==
  LET step == CharWidth(t) * TAB_CELLS
  IN  WrapLine([t EXCEPT !.x = ((t.x \div step) + 1) * step])

video_putChar(t, c) ==
  CASE c = NL -> video_newLine(t)
    [] c = BS -> video_backSpace(t)
    [] c = TAB -> video_tab(t)
    [] OTHER -> WrapLine([Drawn(t, c) EXCEPT !.x = @ + CharWidth(t)])

video_clearScreen(t) == [t EXCEPT !.screen = NoText, !.x = 0, !.y = 0]

setFontScale(t, scale) ==
  LET new == [t EXCEPT !.scale = IF scale < 1 THEN 1 ELSE scale]
      wide == IF new.x < WIDTH THEN new ELSE [new EXCEPT !.x = 0, !.y = @ + CharHeight(new)]
  IN  IF wide.y < HEIGHT THEN wide
      ELSE [video_scrollUp(wide) EXCEPT !.y = HEIGHT - CharHeight(new)]

\* syscall_setFontScale refuses what the driver would take.
syscall_setFontScale(t, scale) == IF scale \in 1 .. 5 THEN setFontScale(t, scale) ELSE t
=============================================================================
