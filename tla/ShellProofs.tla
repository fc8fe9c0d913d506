----------------------------- MODULE ShellProofs -----------------------------
(***************************************************************************)
(* Proofs about Shell, for every screen, font, key set and text.  The      *)
(* cursor stays on the screen because every operation of the video driver  *)
(* keeps it on a line of the current scale, except a change of scale,      *)
(* which may leave it between two lines: every caller clears the screen    *)
(* after one.                                                              *)
(* The time shown is proved from what the registers read so far say of the *)
(* time since the first was.  The line on the screen is proved from what   *)
(* of its echo is still to be written: the screen shows the rest.          *)
(***************************************************************************)
EXTENDS Shell, SequenceTheorems, TLAPS

IsTerminal(t) == t = [screen |-> t.screen, x |-> t.x, y |-> t.y, scale |-> t.scale]

\* The characters of the scale divide the width of the screen.
Fits(t) == WIDTH % CharWidth(t) = 0

\* The cursor of a terminal is on a line of its scale that fits on the screen,
\* and at the start of a character where the characters divide the width.
OnScreen(t) ==
  /\ IsTerminal(t)
  /\ t.scale \in 1 .. 3 /\ t.x \in 0 .. (WIDTH - 1)
  /\ t.y \in Nat /\ t.y + CharHeight(t) <= HEIGHT /\ t.y % CharHeight(t) = 0
  /\ Fits(t) => t.x % CharWidth(t) = 0

IInv == OnScreen(term) /\ FontsAgree

-----------------------------------------------------------------------------
(* Multiples.                                                              *)

\* Multiples of w are as far apart as their factors say.
LEMMA Products ==
  ASSUME NEW w \in Nat \ {0}, NEW a \in Nat, NEW b \in Nat
  PROVE  /\ a * w \in Nat /\ (a + 1) * w = a * w + w
         /\ a < b <=> a * w < b * w
         /\ a < b <=> a * w + w <= b * w
         /\ a = b <=> a * w = b * w
<1>1. a * w \in Nat /\ b * w \in Nat /\ (a + 1) * w = a * w + w
  BY Z3
<1>2. a < b => a * w + w <= b * w
  <2> SUFFICES ASSUME a < b PROVE a * w + w <= b * w
    OBVIOUS
  <2>1. b * w = (b - a) * w + a * w
    BY Z3
  <2>2. (b - a) * w >= w
    BY Z3
  <2> QED BY <1>1, <2>1, <2>2
<1>3. b < a => b * w + w <= a * w
  <2> SUFFICES ASSUME b < a PROVE b * w + w <= a * w
    OBVIOUS
  <2>1. a * w = (a - b) * w + b * w
    BY Z3
  <2>2. (a - b) * w >= w
    BY Z3
  <2> QED BY <1>1, <2>1, <2>2
<1>4. a = b => a * w = b * w
  OBVIOUS
<1> DEFINE p == a * w
           q == b * w
<1>5. (a < b <=> p < q) /\ (a < b <=> p + w <= q) /\ (a = b <=> p = q)
  <2> HIDE DEF p, q
  <2>1. p \in Nat /\ q \in Nat
    BY <1>1 DEF p, q
  <2>2. (a < b => p + w <= q) /\ (b < a => q + w <= p) /\ (a = b => p = q)
    BY <1>2, <1>3, <1>4 DEF p, q
  <2> QED BY <2>1, <2>2
<1> QED BY <1>1, <1>5

\* The multiple before a * w.
LEMMA OneLess ==
  ASSUME NEW w \in Nat \ {0}, NEW a \in Nat
  PROVE  /\ a * w \in Nat /\ (a * w >= w <=> a >= 1)
         /\ a >= 1 => a * w - w = (a - 1) * w
<1>1. a * w \in Nat
  BY Products
<1>2. CASE a = 0
  <2>1. 0 * w = 0
    BY Z3
  <2> QED BY <1>2, <2>1
<1>3. CASE a # 0
  <2> DEFINE b == a - 1
  <2>1. b \in Nat /\ b + 1 = a
    BY <1>3
  <2> HIDE DEF b
  <2>2. (b + 1) * w = b * w + w /\ b * w \in Nat
    BY <2>1, Products
  <2> DEFINE p == a * w
             q == b * w
  <2>3. p = q + w /\ q \in Nat
    BY <2>1, <2>2
  <2> HIDE DEF p, q
  <2>4. p >= w /\ p - w = q /\ a >= 1
    BY <1>3, <2>3
  <2> QED BY <1>1, <2>4 DEF p, q, b
<1> QED BY <1>2, <1>3

\* Quotient and remainder, and what they are of a multiple.
LEMMA Quotient ==
  ASSUME NEW w \in Nat \ {0}, NEW x \in Nat
  PROVE  /\ x \div w \in Nat /\ x % w \in 0 .. (w - 1)
         /\ x = (x \div w) * w + (x % w)
<1>1. x \div w \in Nat /\ x % w \in 0 .. (w - 1)
  BY Z3
<1>2. x = (x \div w) * w + (x % w)
  BY Z3
<1> QED BY <1>1, <1>2

LEMMA Multiple ==
  ASSUME NEW w \in Nat \ {0}, NEW a \in Nat
  PROVE  (a * w) \div w = a /\ (a * w) % w = 0
<1> DEFINE x == a * w
           q == x \div w
           r == x % w
           p == q * w
<1>1. x \in Nat
  BY Products
<1> HIDE DEF x
<1>2. q \in Nat /\ r \in 0 .. (w - 1) /\ x = p + r
  BY <1>1, Quotient
<1> HIDE DEF q, r
<1>3. p \in Nat /\ (a < q => x + w <= p) /\ (q < a => p + w <= x) /\ (a = q => x = p)
  BY <1>2, Products DEF x
<1> HIDE DEF p
<1>4. a = q
  BY <1>1, <1>2, <1>3
<1> QED BY <1>1, <1>2, <1>3, <1>4 DEF x, q, r

\* The multiples next to a multiple.
LEMMA Multiples ==
  ASSUME NEW w \in Nat \ {0}, NEW x \in Nat, x % w = 0
  PROVE  /\ (x + w) % w = 0
         /\ x >= w => x - w \in Nat /\ (x - w) % w = 0
         /\ \A y \in Nat : y % w = 0 /\ x < y => x + w <= y
<1> DEFINE a == x \div w
<1>1. a \in Nat /\ x = a * w
  BY Quotient
<1> HIDE DEF a
<1>2. x + w = (a + 1) * w
  BY <1>1, Products
<1>3. (x + w) % w = 0
  BY <1>1, <1>2, Multiple
<1>4. ASSUME x >= w PROVE x - w \in Nat /\ (x - w) % w = 0
  <2>1. a # 0
    BY <1>1, <1>4
  <2>2. a - 1 \in Nat
    BY <1>1, <2>1
  <2>3. x = (a - 1) * w + w /\ (a - 1) * w \in Nat
    <3> DEFINE b == a - 1
    <3>1. b + 1 = a
      BY <1>1
    <3> HIDE DEF b
    <3>2. (b + 1) * w = b * w + w /\ b * w \in Nat
      BY <2>2, Products DEF b
    <3> QED BY <1>1, <3>1, <3>2 DEF b
  <2> DEFINE p == (a - 1) * w
  <2>4. p % w = 0
    BY <2>2, Multiple
  <2>5. p \in Nat /\ x = p + w
    BY <2>3
  <2> HIDE DEF p
  <2>6. x - w = p
    BY <2>5
  <2> QED BY <2>4, <2>5, <2>6
<1>5. ASSUME NEW y \in Nat, y % w = 0, x < y PROVE x + w <= y
  <2> DEFINE b == y \div w
  <2>1. b \in Nat /\ y = b * w
    BY <1>5, Quotient
  <2> HIDE DEF b
  <2> QED BY <1>1, <1>5, <2>1, Products
<1> QED BY <1>3, <1>4, <1>5

LEMMA Divides ==
  ASSUME NEW w \in Nat \ {0}, NEW x \in Nat, x % w = 0
  PROVE  x \div w \in Nat /\ x = (x \div w) * w
<1> DEFINE p == (x \div w) * w
<1>1. x \div w \in Nat /\ x = p + (x % w)
  BY Quotient
<1>2. p \in Nat
  BY <1>1, Products
<1> HIDE DEF p
<1>3. x = p
  BY <1>1, <1>2
<1> QED BY <1>1, <1>3 DEF p

LEMMA Zero == ASSUME NEW w \in Nat \ {0} PROVE 0 % w = 0
<1>1. 0 * w = 0
  BY Z3
<1> QED BY <1>1, Multiple

-----------------------------------------------------------------------------
(* The operations of the driver.                                           *)

\* A character fits on the screen, and a whole number of lines does.
LEMMA CharSize ==
  ASSUME NEW t, t.scale \in 1 .. 3
  PROVE  /\ CharWidth(t) \in Nat \ {0} /\ CharWidth(t) <= WIDTH
         /\ CharHeight(t) \in Nat \ {0} /\ CharHeight(t) <= HEIGHT
         /\ HEIGHT % CharHeight(t) = 0
<1> DEFINE s == t.scale
           h == FONT_HEIGHT * s
           k == HEIGHT \div (6 * FONT_HEIGHT)
<1>0. /\ FONT_WIDTH \in Nat \ {0} /\ FONT_HEIGHT \in Nat \ {0} /\ WIDTH \in Nat
      /\ WIDTH >= 3 * FONT_WIDTH /\ HEIGHT \in Nat \ {0} /\ HEIGHT % (6 * FONT_HEIGHT) = 0
  BY ScreenAssumption
<1>1. k \in Nat /\ HEIGHT = k * (6 * FONT_HEIGHT)
  <2> DEFINE d == 6 * FONT_HEIGHT
  <2>1. d \in Nat \ {0} /\ HEIGHT \in Nat /\ HEIGHT % d = 0
    BY <1>0
  <2> HIDE DEF d
  <2>2. HEIGHT \div d \in Nat /\ HEIGHT = (HEIGHT \div d) * d
    BY <2>1, Quotient
  <2> QED BY <2>2 DEF d
<1> HIDE DEF k
<1>2. /\ FONT_WIDTH * s \in Nat \ {0} /\ FONT_WIDTH * s <= WIDTH /\ h \in Nat \ {0}
      /\ \E n \in Nat : HEIGHT = n * h
  <2>1. CASE s = 1
    <3>1. HEIGHT = (6 * k) * (FONT_HEIGHT * 1) /\ 6 * k \in Nat
      BY <1>0, <1>1, Z3
    <3> QED BY <1>0, <2>1, <3>1
  <2>2. CASE s = 2
    <3>1. HEIGHT = (3 * k) * (FONT_HEIGHT * 2) /\ 3 * k \in Nat
      BY <1>0, <1>1, Z3
    <3> QED BY <1>0, <2>2, <3>1
  <2>3. CASE s = 3
    <3>1. HEIGHT = (2 * k) * (FONT_HEIGHT * 3) /\ 2 * k \in Nat
      BY <1>0, <1>1, Z3
    <3> QED BY <1>0, <2>3, <3>1
  <2> QED BY <2>1, <2>2, <2>3
<1> HIDE DEF h
<1>3. HEIGHT % h = 0
  BY <1>2, Multiple
<1>4. h <= HEIGHT
  <2>1. 0 % h = 0
    BY <1>2, Zero
  <2> QED BY <1>0, <1>2, <1>3, <2>1, Multiples
<1> QED BY <1>2, <1>3, <1>4 DEF CharWidth, CharHeight, h

\* A character depends on the scale alone.
LEMMA SameSize ==
  ASSUME NEW t, NEW u, u.scale = t.scale
  PROVE  CharWidth(u) = CharWidth(t) /\ CharHeight(u) = CharHeight(t) /\ (Fits(u) <=> Fits(t))
BY Zenon DEF CharWidth, CharHeight, Fits

\* The next line starts where the line ends, and is the last one only if it
\* ends with the screen.
LEMMA LineBelow ==
  ASSUME NEW t, t.scale \in 1 .. 3, NEW y \in Nat, y % CharHeight(t) = 0,
         y + CharHeight(t) < HEIGHT
  PROVE  y + CharHeight(t) + CharHeight(t) <= HEIGHT /\ (y + CharHeight(t)) % CharHeight(t) = 0
<1> DEFINE h == CharHeight(t)
           z == y + h
<1>1. h \in Nat \ {0} /\ HEIGHT \in Nat /\ HEIGHT % h = 0
  BY CharSize, ScreenAssumption
<1> HIDE DEF h
<1>2. z \in Nat /\ z % h = 0
  BY <1>1, Multiples DEF h
<1>3. z < HEIGHT
  BY DEF h
<1> HIDE DEF z
<1>4. z + h <= HEIGHT
  BY <1>1, <1>2, <1>3, Multiples
<1> QED BY <1>2, <1>4 DEF z, h

LEMMA LineAbove ==
  ASSUME NEW t, t.scale \in 1 .. 3, NEW y \in Nat, y % CharHeight(t) = 0, y >= CharHeight(t)
  PROVE  y - CharHeight(t) \in Nat /\ (y - CharHeight(t)) % CharHeight(t) = 0
BY CharSize, Multiples

LEMMA LastLine ==
  ASSUME NEW t, t.scale \in 1 .. 3
  PROVE  HEIGHT - CharHeight(t) \in Nat /\ (HEIGHT - CharHeight(t)) % CharHeight(t) = 0
BY CharSize, LineAbove, ScreenAssumption

\* What an operation that only draws, or only moves the cursor, leaves alone.
LEMMA ScreenSet ==
  ASSUME NEW t, IsTerminal(t), NEW s
  PROVE  LET u == [t EXCEPT !.screen = s]
         IN  IsTerminal(u) /\ u.x = t.x /\ u.y = t.y /\ u.scale = t.scale
BY DEF IsTerminal

At(t, x, y) == [t EXCEPT !.x = x, !.y = y]

LEMMA CursorSet ==
  ASSUME NEW t, IsTerminal(t), NEW x, NEW y
  PROVE  /\ IsTerminal(At(t, x, y)) /\ At(t, x, y).x = x /\ At(t, x, y).y = y
         /\ At(t, x, y).scale = t.scale
<1> DEFINE v == [t EXCEPT !.x = x]
<1>1. IsTerminal(v) /\ v.x = x /\ v.y = t.y /\ v.scale = t.scale
  BY DEF IsTerminal
<1>2. At(t, x, y) = [v EXCEPT !.y = y]
  BY Zenon DEF v, At
<1> HIDE DEF v
<1>3. LET u == [v EXCEPT !.y = y]
      IN  IsTerminal(u) /\ u.x = v.x /\ u.y = y /\ u.scale = v.scale
  BY <1>1 DEF IsTerminal
<1> QED BY <1>1, <1>2, <1>3

LEMMA DrawnKeeps ==
  ASSUME NEW t, IsTerminal(t), NEW c
  PROVE  /\ IsTerminal(Drawn(t, c)) /\ Drawn(t, c).scale = t.scale
         /\ Drawn(t, c).x = t.x /\ Drawn(t, c).y = t.y
BY ScreenSet, Zenon DEF Drawn

LEMMA ScrollKeeps ==
  ASSUME NEW t, IsTerminal(t)
  PROVE  /\ IsTerminal(video_scrollUp(t)) /\ video_scrollUp(t).scale = t.scale
         /\ video_scrollUp(t).x = t.x /\ video_scrollUp(t).y = t.y
BY ScreenSet, Zenon DEF video_scrollUp

\* A terminal with the scale of t and its cursor where OnScreen wants it.
LEMMA Placed ==
  ASSUME NEW t, t.scale \in 1 .. 3, NEW u, IsTerminal(u), u.scale = t.scale,
         u.x \in 0 .. (WIDTH - 1), Fits(t) => u.x % CharWidth(t) = 0,
         u.y \in Nat, u.y + CharHeight(t) <= HEIGHT, u.y % CharHeight(t) = 0
  PROVE  OnScreen(u)
BY SameSize, Zenon DEF OnScreen

\* A new line begins on the screen wherever in its line the cursor was, even
\* past the right border.
LEMMA NewLineOnScreen ==
  ASSUME NEW t, IsTerminal(t), t.scale \in 1 .. 3,
         t.y \in Nat, t.y + CharHeight(t) <= HEIGHT, t.y % CharHeight(t) = 0
  PROVE  OnScreen(video_newLine(t)) /\ video_newLine(t).scale = t.scale
<1> DEFINE h == CharHeight(t)
           n == video_newLine(t)
<1>0. WIDTH \in Nat /\ HEIGHT \in Nat /\ 0 \in 0 .. (WIDTH - 1) /\ h \in Nat
      /\ 0 % CharWidth(t) = 0
  BY ScreenAssumption, CharSize, Zero
<1>1. CASE t.y + h < HEIGHT
  <2> DEFINE y == t.y + h
  <2>1. n = At(t, 0, y)
    BY <1>1, Zenon DEF video_newLine, At
  <2>2. y \in Nat /\ y + h <= HEIGHT /\ y % h = 0
    BY <1>0, <1>1, LineBelow
  <2> HIDE DEF n, y
  <2>3. IsTerminal(n) /\ n.scale = t.scale /\ n.x = 0 /\ n.y = y
    BY <2>1, CursorSet
  <2> QED BY <1>0, <2>2, <2>3, Placed DEF n
<1>2. CASE ~(t.y + h < HEIGHT)
  <2> DEFINE w == video_scrollUp(t)
             y == HEIGHT - h
  <2>1. n = At(w, 0, y)
    BY <1>2, Zenon DEF video_newLine, At
  <2>2. IsTerminal(w) /\ w.scale = t.scale
    BY ScrollKeeps
  <2>3. y \in Nat /\ y + h <= HEIGHT /\ y % h = 0
    BY <1>0, LastLine
  <2> HIDE DEF n, w, y
  <2>4. IsTerminal(n) /\ n.scale = t.scale /\ n.x = 0 /\ n.y = y
    BY <2>1, <2>2, CursorSet
  <2> QED BY <1>0, <2>3, <2>4, Placed DEF n
<1> QED BY <1>1, <1>2

\* A cursor advanced along its line, perhaps past the border, is wrapped.
LEMMA WrapOnScreen ==
  ASSUME NEW t, OnScreen(t), NEW x \in Nat, Fits(t) => x % CharWidth(t) = 0
  PROVE  /\ OnScreen(WrapLine([t EXCEPT !.x = x]))
         /\ WrapLine([t EXCEPT !.x = x]).scale = t.scale
<1> DEFINE u == [t EXCEPT !.x = x]
<1>1. IsTerminal(u) /\ u.x = x /\ u.y = t.y /\ u.scale = t.scale
  BY DEF OnScreen, IsTerminal
<1>2. WrapLine(u) = IF u.x >= WIDTH THEN video_newLine(u) ELSE u
  BY Zenon DEF WrapLine
<1> HIDE DEF u
<1>3. CASE x >= WIDTH
  <2>1. u.y \in Nat /\ u.y + CharHeight(u) <= HEIGHT /\ u.y % CharHeight(u) = 0
    BY <1>1, SameSize DEF OnScreen
  <2>2. OnScreen(video_newLine(u)) /\ video_newLine(u).scale = t.scale
    BY <1>1, <2>1, NewLineOnScreen DEF OnScreen
  <2> QED BY <1>1, <1>2, <1>3, <2>2 DEF u
<1>4. CASE ~(x >= WIDTH)
  <2>1. OnScreen(u)
    BY <1>1, <1>4, Placed, ScreenAssumption DEF OnScreen
  <2> QED BY <1>1, <1>2, <1>4, <2>1 DEF u
<1> QED BY <1>3, <1>4

LEMMA DrawnOnScreen ==
  ASSUME NEW t, OnScreen(t), NEW c
  PROVE  OnScreen(Drawn(t, c)) /\ Drawn(t, c).scale = t.scale /\ Drawn(t, c).x = t.x
<1>1. /\ IsTerminal(Drawn(t, c)) /\ Drawn(t, c).scale = t.scale
      /\ Drawn(t, c).x = t.x /\ Drawn(t, c).y = t.y
  BY DrawnKeeps DEF OnScreen
<1> QED BY <1>1, Placed DEF OnScreen

LEMMA BackSpaceOnScreen ==
  ASSUME NEW t, OnScreen(t)
  PROVE  OnScreen(video_backSpace(t)) /\ video_backSpace(t).scale = t.scale
<1> DEFINE w == CharWidth(t)
           h == CharHeight(t)
<1>0. /\ WIDTH \in Nat /\ HEIGHT \in Nat /\ w \in Nat \ {0} /\ w <= WIDTH /\ h \in Nat \ {0}
      /\ IsTerminal(t) /\ t.scale \in 1 .. 3 /\ t.x \in 0 .. (WIDTH - 1) /\ t.x \in Nat
      /\ t.y \in Nat /\ t.y + h <= HEIGHT /\ t.y % h = 0 /\ (Fits(t) => t.x % w = 0)
  BY ScreenAssumption, CharSize DEF OnScreen
<1>1. CASE t.x >= w
  <2> DEFINE x == t.x - w
             u == At(t, x, t.y)
  <2>1. video_backSpace(t) = Drawn(u, BLANK)
    <3>1. video_backSpace(t) = Drawn([t EXCEPT !.x = x], BLANK)
      BY <1>1, Zenon DEF video_backSpace
    <3>2. [t EXCEPT !.x = x] = u
      BY <1>0 DEF At, IsTerminal
    <3> QED BY <3>1, <3>2
  <2>2. x \in 0 .. (WIDTH - 1)
    BY <1>0, <1>1
  <2>3. Fits(t) => x % w = 0
    BY <1>0, <1>1, Multiples
  <2> HIDE DEF x
  <2>4. IsTerminal(u) /\ u.x = x /\ u.y = t.y /\ u.scale = t.scale
    BY <1>0, CursorSet
  <2> HIDE DEF u, w, h
  <2>5. OnScreen(u)
    BY <1>0, <2>2, <2>3, <2>4, Placed DEF w, h
  <2> QED BY <2>1, <2>4, <2>5, DrawnOnScreen
<1>2. CASE ~(t.x >= w) /\ t.y >= h
  <2> DEFINE x == WIDTH - w
             y == t.y - h
             u == At(t, x, y)
  <2>1. video_backSpace(t) = Drawn(u, BLANK)
    BY <1>2, Zenon DEF video_backSpace, At
  <2>2. x \in 0 .. (WIDTH - 1) /\ y + h <= HEIGHT
    BY <1>0, <1>2
  <2>3. Fits(t) => x % w = 0
    BY <1>0, Multiples DEF Fits
  <2>4. y \in Nat /\ y % h = 0
    BY <1>0, <1>2, LineAbove
  <2> HIDE DEF x, y
  <2>5. IsTerminal(u) /\ u.x = x /\ u.y = y /\ u.scale = t.scale
    BY <1>0, CursorSet
  <2> HIDE DEF u, w, h
  <2>6. OnScreen(u)
    BY <1>0, <2>2, <2>3, <2>4, <2>5, Placed DEF w, h
  <2> QED BY <2>1, <2>5, <2>6, DrawnOnScreen
<1>3. CASE ~(t.x >= w) /\ ~(t.y >= h)
  <2>1. video_backSpace(t) = t
    BY <1>3 DEF video_backSpace
  <2> QED BY <2>1
<1> QED BY <1>1, <1>2, <1>3

\* video_putChar keeps the cursor on the screen and the scale as it is.
LEMMA PutCharOnScreen ==
  ASSUME NEW t, OnScreen(t), NEW c
  PROVE  OnScreen(video_putChar(t, c)) /\ video_putChar(t, c).scale = t.scale
<1> DEFINE w == CharWidth(t)
<1>0. w \in Nat \ {0} /\ t.x \in Nat /\ (Fits(t) => t.x % w = 0)
  BY ScreenAssumption, CharSize DEF OnScreen
<1>1. CASE c = NL
  <2>1. video_putChar(t, c) = video_newLine(t)
    BY <1>1 DEF video_putChar, NL, BS, TAB
  <2> QED BY <2>1, NewLineOnScreen DEF OnScreen
<1>2. CASE c = BS
  <2>1. video_putChar(t, c) = video_backSpace(t)
    BY <1>2 DEF video_putChar, NL, BS, TAB
  <2> QED BY <2>1, BackSpaceOnScreen
<1>3. CASE c = TAB
  <2> DEFINE step == w * TAB_CELLS
             q == t.x \div step
             x == (q + 1) * step
  <2>1. video_putChar(t, c) = WrapLine([t EXCEPT !.x = x])
    <3>1. video_putChar(t, c) = video_tab(t)
      BY <1>3 DEF video_putChar, BS, NL, TAB
    <3> QED BY <3>1, Zenon DEF video_tab
  <2>2. TAB_CELLS \in Nat \ {0}
    BY TabAssumption
  <2> HIDE DEF w
  <2>3. step \in Nat \ {0}
    BY <1>0, <2>2, Z3
  <2>4. q \in Nat
    <3> HIDE DEF step
    <3> QED BY <1>0, <2>3, Quotient
  <2> HIDE DEF q
  <2>5. x = ((q + 1) * TAB_CELLS) * w /\ (q + 1) * TAB_CELLS \in Nat
    BY <1>0, <2>2, <2>4, Z3
  <2> HIDE DEF x
  <2>6. x \in Nat /\ x % w = 0
    BY <1>0, <2>5, Products, Multiple
  <2> QED BY <2>1, <2>6, WrapOnScreen DEF w
<1>4. CASE c \notin {NL, BS, TAB}
  <2> DEFINE d == Drawn(t, c)
             x == d.x + w
  <2>1. OnScreen(d) /\ d.scale = t.scale /\ d.x = t.x
    BY DrawnOnScreen
  <2>2. video_putChar(t, c) = WrapLine([d EXCEPT !.x = x])
    <3>1. video_putChar(t, c) = WrapLine([d EXCEPT !.x = @ + w])
      BY <1>4 DEF video_putChar
    <3> QED BY <3>1, Zenon
  <2>3. x \in Nat /\ (Fits(t) => x % w = 0)
    <3> HIDE DEF d, w
    <3> QED BY <1>0, <2>1, Multiples
  <2>4. CharWidth(d) = w /\ (Fits(d) <=> Fits(t))
    BY <2>1, SameSize
  <2> HIDE DEF x, d, w
  <2> QED BY <2>1, <2>2, <2>3, <2>4, WrapOnScreen
<1> QED BY <1>1, <1>2, <1>3, <1>4

\* A cleared screen has its cursor in the corner.
LEMMA ClearOnScreen ==
  ASSUME NEW t, IsTerminal(t), t.scale \in 1 .. 3
  PROVE  OnScreen(video_clearScreen(t)) /\ video_clearScreen(t).scale = t.scale
<1> DEFINE e == video_clearScreen(t)
<1>1. IsTerminal(e) /\ e.scale = t.scale /\ e.x = 0 /\ e.y = 0
  <2> DEFINE v == [t EXCEPT !.screen = NoText]
  <2>1. IsTerminal(v) /\ v.scale = t.scale
    BY ScreenSet
  <2>2. e = At(v, 0, 0)
    BY Zenon DEF video_clearScreen, At
  <2> HIDE DEF v, e
  <2> QED BY <2>1, <2>2, CursorSet
<1> HIDE DEF e
<1>2. 0 % CharWidth(t) = 0 /\ 0 % CharHeight(t) = 0
  BY CharSize, Zero
<1>3. 0 + CharHeight(t) <= HEIGHT /\ 0 \in 0 .. (WIDTH - 1)
  BY CharSize, ScreenAssumption
<1> QED BY <1>1, <1>2, <1>3, Placed DEF e

\* A scale of the shell is accepted by the system call and set.
LEMMA ScaleSet ==
  ASSUME NEW t, IsTerminal(t), NEW s \in 1 .. 3
  PROVE  IsTerminal(syscall_setFontScale(t, s)) /\ syscall_setFontScale(t, s).scale = s
<1> DEFINE new == [t EXCEPT !.scale = IF s < 1 THEN 1 ELSE s]
           low == new.y + CharHeight(new)
           wide == IF new.x < WIDTH THEN new ELSE At(new, 0, low)
           end == HEIGHT - CharHeight(new)
           last == [video_scrollUp(wide) EXCEPT !.y = end]
<1>0. syscall_setFontScale(t, s) = IF wide.y < HEIGHT THEN wide ELSE last
  <2>1. syscall_setFontScale(t, s) = setFontScale(t, s)
    BY DEF syscall_setFontScale
  <2>2. setFontScale(t, s) = IF wide.y < HEIGHT THEN wide ELSE last
    BY Zenon DEF setFontScale, At
  <2> QED BY <2>1, <2>2
<1>1. IsTerminal(new) /\ new.scale = s
  BY DEF IsTerminal
<1> HIDE DEF new, low, end
<1>2. IsTerminal(wide) /\ wide.scale = s
  BY <1>1, CursorSet
<1> HIDE DEF wide
<1>3. IsTerminal(last) /\ last.scale = s
  <2> DEFINE up == video_scrollUp(wide)
  <2>1. IsTerminal(up) /\ up.scale = s
    BY <1>2, ScrollKeeps
  <2> HIDE DEF up
  <2>2. LET u == [up EXCEPT !.y = end] IN IsTerminal(u) /\ u.scale = up.scale
    BY <2>1 DEF IsTerminal
  <2> QED BY <2>1, <2>2 DEF up
<1> HIDE DEF last
<1> QED BY <1>0, <1>2, <1>3

-----------------------------------------------------------------------------
(* The shell.                                                              *)

LEMMA InitInv == Init => IInv
<1> SUFFICES ASSUME Init PROVE IInv
  OBVIOUS
<1>1. IsTerminal(term) /\ term.x = 0 /\ term.y = 0 /\ term.scale = 1
  BY DEF Init, Booted, IsTerminal
<1>2. 0 % CharWidth(term) = 0 /\ 0 % CharHeight(term) = 0
  BY <1>1, CharSize, Zero
<1>3. 0 + CharHeight(term) <= HEIGHT /\ 0 \in 0 .. (WIDTH - 1)
  BY <1>1, CharSize, ScreenAssumption
<1> QED BY <1>1, <1>2, <1>3 DEF Init, IInv, OnScreen, FontsAgree

\* Commands that write and nothing else leave the console to the characters
\* that follow.
LEMMA SilentStep ==
  ASSUME IInv, UNCHANGED <<term, current_font_scale>>
  PROVE  IInv'
BY DEF IInv, OnScreen, IsTerminal, FontsAgree

LEMMA CommandInv ==
  ASSUME IInv, Command
  PROVE  IInv'
<1>1. CASE EmptyLine \/ NotFound \/ PrintCmd("help") \/ PrintCmd("regs") \/ exceptionCmd_Misused
           \/ exceptionCmd
  BY <1>1, SilentStep DEF EmptyLine, NotFound, PrintCmd, exceptionCmd_Misused, exceptionCmd, Prints
<1>2. CASE AskCmd("set-user", "user") \/ AskCmd("font-size", "size") \/ setUserCmd \/ gameCmd \/ timeCmd
  BY <1>2, SilentStep DEF AskCmd, setUserCmd, gameCmd, timeCmd
<1>3. CASE fontSizeCmd
  <2>1. CASE atoi(buf) \in 1 .. 3
    <3> DEFINE n == atoi(buf)
    <3>1. current_font_scale' = n /\ term' = video_clearScreen(syscall_setFontScale(term, n))
      BY <1>3, <2>1 DEF fontSizeCmd
    <3> HIDE DEF n
    <3>2. OnScreen(term') /\ term'.scale = n
      BY <2>1, <3>1, ScaleSet, ClearOnScreen DEF IInv, OnScreen, n
    <3> QED BY <3>1, <3>2 DEF IInv, FontsAgree, OnScreen, IsTerminal
  <2>2. CASE atoi(buf) \notin 1 .. 3
    BY <1>3, <2>2, SilentStep DEF fontSizeCmd
  <2> QED BY <2>1, <2>2
<1>4. CASE clearCmd \/ exitCmd
  <2>1. term' = video_clearScreen(term) /\ current_font_scale' = current_font_scale
    BY <1>4 DEF clearCmd, exitCmd
  <2>2. OnScreen(term') /\ term'.scale = term.scale
    BY <2>1, ClearOnScreen DEF IInv, OnScreen
  <2> QED BY <2>1, <2>2 DEF IInv, FontsAgree, OnScreen, IsTerminal
<1> QED BY <1>1, <1>2, <1>3, <1>4 DEF Command

LEMMA StepInv == IInv /\ [Next]_vars => IInv'
<1> SUFFICES ASSUME IInv, [Next]_vars PROVE IInv'
  OBVIOUS
<1>1. CASE PutChar
  <2>1. term' = video_putChar(term, Head(out)) /\ current_font_scale' = current_font_scale
    BY <1>1 DEF PutChar
  <2>2. OnScreen(term') /\ term'.scale = term.scale
    BY <2>1, PutCharOnScreen DEF IInv
  <2> QED BY <2>1, <2>2 DEF IInv, FontsAgree, OnScreen, IsTerminal
<1>2. CASE (\E c \in Keys : Type(c)) \/ Erase
  BY <1>2, SilentStep DEF Type, Erase
<1>3. CASE Command
  BY <1>3, CommandInv
<1>4. CASE GameEnds
  <2> DEFINE small == syscall_setFontScale(term, 1)
             back == syscall_setFontScale(small, current_font_scale)
  <2>1. term' = video_clearScreen(back) /\ current_font_scale' = current_font_scale
    BY <1>4 DEF GameEnds
  <2>2. IsTerminal(small)
    BY ScaleSet DEF IInv, OnScreen
  <2>3. current_font_scale \in 1 .. 3
    BY DEF IInv, OnScreen, FontsAgree
  <2> HIDE DEF small
  <2>4. IsTerminal(back) /\ back.scale = current_font_scale
    BY <2>2, <2>3, ScaleSet
  <2> HIDE DEF back
  <2>5. OnScreen(term') /\ term'.scale = current_font_scale
    BY <2>1, <2>3, <2>4, ClearOnScreen
  <2> QED BY <2>1, <2>5 DEF IInv, FontsAgree, OnScreen, IsTerminal
<1>5. CASE ReadRegister \/ Tick \/ PrintTime
  BY <1>5, SilentStep DEF ReadRegister, Tick, PrintTime
<1>6. CASE UNCHANGED vars
  BY <1>6, SilentStep DEF vars
<1> QED BY <1>1, <1>2, <1>3, <1>4, <1>5, <1>6 DEF Next

\* The inductive invariant of shell and console.
THEOREM Invariance == Spec => []IInv
BY InitInv, StepInv, PTL DEF Spec

\* What is drawn at a cursor on the screen is cut by the right border only
\* where the characters do not divide the width, and reaches past the end of
\* the frame buffer only from the last pixel line.
LEMMA CoveredOnScreen ==
  ASSUME NEW t, OnScreen(t), NEW p \in Covered(t) \ Pixels
  PROVE  ~Fits(t) /\ p[2] = HEIGHT /\ p[1] < CharWidth(t) - 1
<1> DEFINE w == CharWidth(t)
           h == CharHeight(t)
<1>0. /\ WIDTH \in Nat /\ HEIGHT \in Nat /\ w \in Nat \ {0} /\ w <= WIDTH /\ h \in Nat \ {0}
      /\ t.x \in Nat /\ t.x < WIDTH /\ t.y \in Nat /\ t.y + h <= HEIGHT
  BY ScreenAssumption, CharSize DEF OnScreen
<1>1. PICK i \in 0 .. (w - 1), j \in 0 .. (h - 1) : p = PixelAt(t.x + i, t.y + j)
  BY DEF Covered
<1> HIDE DEF w, h
<1>2. ~(t.x + i < WIDTH)
  <2> SUFFICES ASSUME t.x + i < WIDTH PROVE FALSE
    OBVIOUS
  <2>1. p = <<t.x + i, t.y + j>>
    BY <1>1 DEF PixelAt
  <2>2. t.x + i \in 0 .. (WIDTH - 1) /\ t.y + j \in 0 .. (HEIGHT - 1)
    BY <1>0
  <2> QED BY <2>1, <2>2 DEF Pixels
<1> DEFINE x == (t.x + i) - WIDTH
           y == t.y + j + 1
<1>3. p = <<x, y>>
  BY <1>1, <1>2 DEF PixelAt
<1>4. x \in 0 .. (WIDTH - 1) /\ x < w - 1
  BY <1>0, <1>2
<1>5. y \in 0 .. HEIGHT
  BY <1>0
<1> HIDE DEF x, y
<1>6. y = HEIGHT
  <2>1. y \notin 0 .. (HEIGHT - 1)
    BY <1>3, <1>4 DEF Pixels
  <2> QED BY <1>0, <1>5, <2>1
<1>7. ~Fits(t)
  <2> SUFFICES ASSUME Fits(t) PROVE FALSE
    OBVIOUS
  <2>1. t.x % w = 0 /\ WIDTH % w = 0
    BY DEF OnScreen, Fits, w
  <2>2. t.x + w <= WIDTH
    BY <1>0, <2>1, Multiples
  <2> QED BY <1>0, <1>2, <2>2
<1> QED BY <1>3, <1>4, <1>6, <1>7 DEF w

\* The cursor stays on a line of its scale on the screen, and nothing is drawn
\* outside the frame buffer (video_putPixel, videoDriver.c:52, does not test) but
\* the end of a character that the right border cuts on the last pixel line: on
\* any screen whose height every scale divides, for any text and any keys.
THEOREM CursorCorrect == Spec => []CursorOnScreen
<1>1. IInv => CursorOnScreen
  <2> SUFFICES ASSUME IInv PROVE CursorOnScreen
    OBVIOUS
  <2>1. OnScreen(term)
    BY DEF IInv
  <2>2. \A p \in Covered(term) \ Pixels :
          WIDTH % CharWidth(term) # 0 /\ p[2] = HEIGHT /\ p[1] < CharWidth(term) - 1
    BY <2>1, CoveredOnScreen DEF Fits
  <2> QED BY <2>1, <2>2 DEF OnScreen, CursorOnScreen
<1> QED BY <1>1, Invariance, PTL

\* The scale the library remembers is the one the driver has, through font
\* changes, games and restarts after exceptions.
THEOREM FontsCorrect == Spec => []FontsAgree
<1>1. IInv => FontsAgree
  BY DEF IInv
<1> QED BY <1>1, Invariance, PTL

-----------------------------------------------------------------------------
(* The clock.                                                              *)

\* A number has one quotient and one remainder.
LEMMA Digits ==
  ASSUME NEW S \in Nat \ {0}, NEW p \in Int, NEW q \in Int,
         NEW r \in 0 .. (S - 1), NEW t \in 0 .. (S - 1), p * S + r = q * S + t
  PROVE  p = q /\ r = t
<1>1. (p - q) * S = t - r
  BY Z3
<1>2. ASSUME p - q >= 1 PROVE FALSE
  <2>1. (p - q) * S >= S
    BY <1>2, Z3
  <2> QED BY <1>1, <2>1
<1>3. ASSUME q - p >= 1 PROVE FALSE
  <2>1. (q - p) * S >= S
    BY <1>3, Z3
  <2>2. (q - p) * S = r - t
    BY <1>1, Z3
  <2> QED BY <2>1, <2>2
<1>4. p = q
  BY <1>2, <1>3
<1> QED BY <1>1, <1>4

\* The times of a day are as many as its seconds.
LEMMA TotalInjective ==
  ASSUME NEW a \in Clocks, NEW b \in Clocks, Total(a) = Total(b)
  PROVE  a.h = b.h /\ a.m = b.m /\ a.s = b.s
<1>0. /\ a.h \in Int /\ b.h \in Int
      /\ a.m \in 0 .. (MINUTES - 1) /\ b.m \in 0 .. (MINUTES - 1)
      /\ a.s \in 0 .. (SECONDS - 1) /\ b.s \in 0 .. (SECONDS - 1)
      /\ MINUTES \in Nat \ {0} /\ SECONDS \in Nat \ {0}
  BY ClockAssumption DEF Clocks
<1> DEFINE p == a.h * MINUTES + a.m
           q == b.h * MINUTES + b.m
<1>1. p \in Int /\ q \in Int
  BY <1>0
<1>2. p * SECONDS + a.s = q * SECONDS + b.s
  BY DEF Total
<1>3. p = q /\ a.s = b.s
  <2> HIDE DEF p, q
  <2> DEFINE S == SECONDS
             r == a.s
             t == b.s
  <2>1. /\ S \in Nat \ {0} /\ r \in 0 .. (S - 1) /\ t \in 0 .. (S - 1)
        /\ p * S + r = q * S + t
    BY <1>0, <1>2
  <2> HIDE DEF S, r, t
  <2>2. p = q /\ r = t
    BY <1>1, <2>1, Digits
  <2> QED BY <2>2 DEF r, t
<1>4. a.h = b.h /\ a.m = b.m
  <2> DEFINE S == MINUTES
             c == a.h
             d == b.h
             r == a.m
             t == b.m
  <2>1. /\ S \in Nat \ {0} /\ r \in 0 .. (S - 1) /\ t \in 0 .. (S - 1)
        /\ c \in Int /\ d \in Int /\ c * S + r = d * S + t
    BY <1>0, <1>3
  <2> HIDE DEF S, c, d, r, t
  <2>2. c = d /\ r = t
    BY <2>1, Digits
  <2> QED BY <2>2 DEF c, d, r, t
<1> QED BY <1>3, <1>4

\* b is in the minute after the minute of a.
NextMinute(a, b) ==
  \/ b.m = a.m + 1 /\ b.h = a.h
  \/ a.m = MINUTES - 1 /\ b.m = 0 /\ b.h = a.h + 1
  \/ a.m = MINUTES - 1 /\ b.m = 0 /\ a.h = HOURS - 1 /\ b.h = 0

At24(h, m, s) == [h |-> h, m |-> m, s |-> s]

LEMMA TotalBelowDay ==
  ASSUME NEW a \in Clocks
  PROVE  /\ Total(a) \in 0 .. (Day - 1) /\ Day \in Nat /\ HOURS * MINUTES \in Nat
         /\ a.h * MINUTES + a.m \in 0 .. (HOURS * MINUTES - 1)
<1>0. /\ a.h \in 0 .. (HOURS - 1) /\ a.m \in 0 .. (MINUTES - 1) /\ a.s \in 0 .. (SECONDS - 1)
      /\ HOURS \in Nat /\ MINUTES \in Nat \ {0} /\ SECONDS \in Nat \ {0}
  BY ClockAssumption DEF Clocks
<1>1. \A q \in Nat, u \in Nat, k \in Nat : q <= u - 1 => q * k <= (u - 1) * k /\ q * k \in Nat
  BY Z3
<1> DEFINE M == HOURS * MINUTES
           p == a.h * MINUTES + a.m
<1>2. M \in Nat /\ (HOURS - 1) * MINUTES = M - MINUTES
  BY <1>0, Z3
<1>3. a.h * MINUTES <= M - MINUTES /\ a.h * MINUTES \in Nat
  BY <1>0, <1>1, <1>2
<1>4. p \in 0 .. (M - 1)
  BY <1>0, <1>2, <1>3
<1> HIDE DEF p, M
<1>5. p * SECONDS <= (M - 1) * SECONDS /\ p * SECONDS \in Nat
  BY <1>0, <1>1, <1>2, <1>4
<1>6. (M - 1) * SECONDS = M * SECONDS - SECONDS /\ M * SECONDS \in Nat
  BY <1>0, <1>2, Z3
<1>7. p * SECONDS + a.s \in 0 .. (M * SECONDS - 1)
  BY <1>0, <1>5, <1>6
<1> QED BY <1>2, <1>4, <1>6, <1>7 DEF p, M, Total, Day

\* A second passes within a minute, or takes the clock to the next one.
LEMMA TickIs ==
  ASSUME NEW a \in Clocks, NEW b \in Clocks, Total(b) = (Total(a) + 1) % Day
  PROVE  \/ b.h = a.h /\ b.m = a.m /\ b.s = a.s + 1
         \/ NextMinute(a, b) /\ a.s = SECONDS - 1 /\ b.s = 0
<1>0. /\ a.h \in 0 .. (HOURS - 1) /\ a.m \in 0 .. (MINUTES - 1) /\ a.s \in 0 .. (SECONDS - 1)
      /\ HOURS \in Nat \ {0} /\ MINUTES \in Nat \ {0} /\ SECONDS \in Nat \ {0}
  BY ClockAssumption DEF Clocks
<1>1. /\ Total(a) \in 0 .. (Day - 1) /\ Day \in Nat
      /\ Total(b) \in 0 .. (Day - 1)
  BY TotalBelowDay
<1>2. Total(a) + 1 < Day => Total(b) = Total(a) + 1
  BY <1>1
<1>3. Total(a) + 1 = Day => Total(b) = 0
  BY <1>1
<1>4. \A x \in Clocks : Total(x) = Total(b) => b.h = x.h /\ b.m = x.m /\ b.s = x.s
  BY TotalInjective
<1>5. CASE a.s < SECONDS - 1
  <2> DEFINE x == At24(a.h, a.m, a.s + 1)
  <2>1. x \in Clocks /\ x.h = a.h /\ x.m = a.m /\ x.s = a.s + 1
    BY <1>0, <1>5 DEF At24, Clocks
  <2>2. Total(x) = Total(a) + 1
    <3>1. (a.h * MINUTES + a.m) * SECONDS \in Int
      BY <1>0
    <3> QED BY <1>0, <2>1, <3>1 DEF Total
  <2>3. Total(x) \in 0 .. (Day - 1)
    BY <2>1, TotalBelowDay
  <2> HIDE DEF x
  <2> QED BY <1>1, <1>2, <1>4, <2>1, <2>2, <2>3
<1>6. CASE a.s = SECONDS - 1 /\ a.m < MINUTES - 1
  <2> DEFINE x == At24(a.h, a.m + 1, 0)
  <2>1. x \in Clocks /\ x.h = a.h /\ x.m = a.m + 1 /\ x.s = 0
    BY <1>0, <1>6 DEF At24, Clocks
  <2>2. Total(x) = Total(a) + 1
    <3> DEFINE q == a.h * MINUTES + a.m
    <3>1. q \in Int /\ a.h * MINUTES \in Int
      BY <1>0
    <3>2. (q + 1) * SECONDS = q * SECONDS + SECONDS /\ q * SECONDS \in Int
      <4> HIDE DEF q
      <4> QED BY <1>0, <3>1, Z3
    <3>3. a.h * MINUTES + (a.m + 1) = q + 1
      BY <1>0, <3>1
    <3>4. Total(a) = q * SECONDS + a.s /\ Total(x) = (q + 1) * SECONDS + 0
      BY <2>1, <3>3 DEF Total
    <3> HIDE DEF q, x
    <3> QED BY <1>0, <1>6, <3>1, <3>2, <3>4
  <2>3. Total(x) \in 0 .. (Day - 1)
    BY <2>1, TotalBelowDay
  <2> HIDE DEF x
  <2> QED BY <1>1, <1>2, <1>4, <1>6, <2>1, <2>2, <2>3 DEF NextMinute
<1>7. CASE a.s = SECONDS - 1 /\ a.m = MINUTES - 1
  <2> DEFINE k == a.h + 1
             q == k * MINUTES
  <2>1. /\ k \in Nat /\ q \in Int /\ a.h * MINUTES + a.m = q - 1
    BY <1>0, <1>7, Z3
  <2>2. (q - 1) * SECONDS + a.s = q * SECONDS - 1 /\ q * SECONDS \in Int
    <3> HIDE DEF q
    <3>1. (q - 1) * SECONDS = q * SECONDS - SECONDS /\ q * SECONDS \in Int
      BY <1>0, <2>1, Z3
    <3> QED BY <1>0, <1>7, <3>1
  <2>3. Total(a) + 1 = q * SECONDS
    BY <2>1, <2>2 DEF Total
  <2>4. CASE a.h < HOURS - 1
    <3> DEFINE x == At24(k, 0, 0)
    <3>1. x \in Clocks /\ x.h = k /\ x.m = 0 /\ x.s = 0
      BY <1>0, <2>4 DEF At24, Clocks
    <3>2. Total(x) = q * SECONDS
      BY <2>1, <2>2, <3>1 DEF Total
    <3>3. Total(x) \in 0 .. (Day - 1)
      BY <3>1, TotalBelowDay
    <3> HIDE DEF x, q
    <3> QED BY <1>1, <1>2, <1>4, <1>7, <2>3, <3>1, <3>2, <3>3 DEF NextMinute
  <2>5. CASE a.h = HOURS - 1
    <3> DEFINE x == At24(0, 0, 0)
    <3>1. x \in Clocks /\ x.h = 0 /\ x.m = 0 /\ x.s = 0
      BY <1>0 DEF At24, Clocks
    <3>2. Total(x) = 0
      BY <1>0, <3>1 DEF Total
    <3>3. Total(a) + 1 = Day
      <4>1. k = HOURS
        BY <1>0, <2>5
      <4> QED BY <2>3, <4>1 DEF Day
    <3> HIDE DEF x, q, k
    <3> QED BY <1>3, <1>4, <1>7, <2>5, <3>1, <3>2, <3>3 DEF NextMinute
  <2> QED BY <1>0, <2>4, <2>5
<1> QED BY <1>0, <1>5, <1>6, <1>7

\* The clock shows the minute of start, or the one after, ticks seconds later.
Elapsed(start, c, ticks) ==
  \/ c.h = start.h /\ c.m = start.m /\ c.s = start.s + ticks
  \/ NextMinute(start, c) /\ c.s = start.s + ticks - SECONDS

\* The time read, when all of it has been: that of start, that of the minute
\* after it, or, with the carry between the reads of minutes and hours, that of
\* the hour after it.
Shown(start, read) ==
  /\ read.s = start.s
  /\ \/ read.h = start.h /\ read.m = start.m
     \/ NextMinute(start, read)
     \/ /\ start.m = MINUTES - 1 /\ read.m = start.m
        /\ read.h = start.h + 1 \/ (start.h = HOURS - 1 /\ read.h = 0)

Readings == [start : Clocks, read : Clocks, n : 1 .. 3, ticks : 0 .. MAX_TICKS]

\* What the registers read say of the time since the first was.
ReadInv ==
  \/ reading = NotReading
  \/ /\ mode = "time" /\ reading \in Readings
     /\ reading.read.s = reading.start.s
     /\ reading.n < 3 => clock \in Clocks /\ Elapsed(reading.start, clock, reading.ticks)
     /\ reading.n = 2 => \/ reading.read.m = reading.start.m
                         \/ NextMinute(reading.start, clock) /\ reading.read.m = clock.m
     /\ reading.n = 3 => Shown(reading.start, reading.read)

LEMMA TickReads ==
  ASSUME MAX_TICKS \in Nat, MAX_TICKS <= SECONDS, ReadInv, Tick
  PROVE  ReadInv'
<1> DEFINE start == reading.start
           read == reading.read
           n == reading.n
           ticks == reading.ticks
<1>0. /\ SECONDS \in Nat \ {0} /\ MINUTES \in Nat \ {0}
  BY ClockAssumption
<1>1. /\ mode = "time" /\ n \in 1 .. 2 /\ ticks < MAX_TICKS
      /\ clock' \in Clocks /\ Total(clock') = (Total(clock) + 1) % Day
      /\ reading' = [reading EXCEPT !.ticks = ticks + 1] /\ mode' = mode
  BY DEF Tick
<1>2. reading \in Readings
  BY <1>1 DEF ReadInv, NotReading
<1>3. /\ start \in Clocks /\ read \in Clocks /\ ticks \in 0 .. MAX_TICKS
      /\ reading = [start |-> start, read |-> read, n |-> n, ticks |-> ticks]
  BY <1>2 DEF Readings
<1>4. reading' = [start |-> start, read |-> read, n |-> n, ticks |-> ticks + 1]
  BY <1>1, <1>3
<1>5. /\ read.s = start.s /\ clock \in Clocks /\ Elapsed(start, clock, ticks)
      /\ n = 2 => \/ read.m = start.m
                  \/ NextMinute(start, clock) /\ read.m = clock.m
  BY <1>1 DEF ReadInv, NotReading
<1>6. \/ clock'.h = clock.h /\ clock'.m = clock.m /\ clock'.s = clock.s + 1
      \/ NextMinute(clock, clock') /\ clock.s = SECONDS - 1 /\ clock'.s = 0
  BY <1>1, <1>5, TickIs
<1>7. start.s \in 0 .. (SECONDS - 1) /\ clock.s \in Int /\ ticks \in Int /\ ticks + 1 \in 0 .. MAX_TICKS
  BY <1>1, <1>3, <1>5 DEF Clocks
<1> HIDE DEF start, read, n, ticks
<1>8. Elapsed(start, clock', ticks + 1)
  <2>1. CASE clock.h = start.h /\ clock.m = start.m /\ clock.s = start.s + ticks
    BY <1>0, <1>6, <1>7, <2>1 DEF Elapsed, NextMinute
  <2>2. CASE NextMinute(start, clock) /\ clock.s = start.s + ticks - SECONDS
    <3>1. clock.s # SECONDS - 1
      BY <1>0, <1>1, <1>7, <2>2
    <3>2. clock'.h = clock.h /\ clock'.m = clock.m /\ clock'.s = clock.s + 1
      BY <1>6, <3>1
    <3> QED BY <1>0, <1>7, <2>2, <3>2 DEF Elapsed, NextMinute
  <2>3. \/ clock.h = start.h /\ clock.m = start.m /\ clock.s = start.s + ticks
        \/ NextMinute(start, clock) /\ clock.s = start.s + ticks - SECONDS
    BY <1>5 DEF Elapsed
  <2> QED BY <2>1, <2>2, <2>3
<1>9. NextMinute(start, clock) => clock'.h = clock.h /\ clock'.m = clock.m
  <2> SUFFICES ASSUME NextMinute(start, clock) PROVE clock'.h = clock.h /\ clock'.m = clock.m
    OBVIOUS
  <2>1. ~(clock.h = start.h /\ clock.m = start.m)
    <3>1. start.h \in Int /\ start.m \in Int /\ HOURS \in Nat /\ HOURS >= 2
      BY <1>3, ClockAssumption DEF Clocks
    <3> QED BY <3>1 DEF NextMinute
  <2>2. clock.s = start.s + ticks - SECONDS
    BY <1>5, <2>1 DEF Elapsed
  <2>3. clock.s # SECONDS - 1
    BY <1>0, <1>1, <1>7, <2>2
  <2> QED BY <1>6, <2>3
<1>10. /\ reading'.start = start /\ reading'.read = read /\ reading'.n = n
       /\ reading'.ticks = ticks + 1 /\ reading' \in Readings
  BY <1>1, <1>3, <1>4, <1>7 DEF Readings
<1>11. n = 2 => \/ read.m = start.m
                \/ NextMinute(start, clock') /\ read.m = clock'.m
  BY <1>5, <1>9 DEF NextMinute
<1> QED BY <1>1, <1>5, <1>8, <1>10, <1>11 DEF ReadInv

\* The three reads: seconds, minutes, hours.
LEMMA RegisterReads ==
  ASSUME MAX_TICKS \in Nat, ReadInv, ReadRegister
  PROVE  ReadInv'
<1> DEFINE start == reading.start
           read == reading.read
           n == reading.n
           ticks == reading.ticks
           field == getTime_Order[n + 1]
           next == [read EXCEPT ![field] = clock'[field]]
           from == IF n = 0 THEN clock' ELSE start
           m == n + 1
<1>0. /\ mode = "time" /\ mode' = mode /\ n < 3
      /\ IF n > 0 THEN UNCHANGED clock ELSE clock' \in Clocks
  BY DEF ReadRegister
<1>r. reading' = [reading EXCEPT !.n = m, !.start = from, !.read = next]
  BY Zenon DEF ReadRegister
<1>1. getTime_Order[1] = "s" /\ getTime_Order[2] = "m" /\ getTime_Order[3] = "h"
  BY DEF getTime_Order
<1>2. CASE reading = NotReading
  <2>1. /\ n = 0 /\ ticks = 0 /\ read = Midnight
        /\ reading = [start |-> start, read |-> read, n |-> n, ticks |-> ticks]
    BY <1>2 DEF NotReading
  <2>2. clock' \in Clocks
    BY <1>0, <2>1
  <2> DEFINE r == [h |-> 0, m |-> 0, s |-> clock'.s]
  <2>3. next = r /\ from = clock' /\ m = 1
    BY <1>1, <2>1 DEF Midnight
  <2>4. r \in Clocks /\ r.s = clock'.s
    BY <2>2, ClockAssumption DEF Clocks
  <2> HIDE DEF r, start, read, n, ticks, next, from, m
  <2>x. reading' = [reading EXCEPT !.n = 1, !.start = clock', !.read = r]
    BY Zenon, <1>r, <2>3
  <2>5. reading' = [start |-> clock', read |-> r, n |-> 1, ticks |-> 0]
    BY <2>1, <2>x
  <2>6. /\ reading'.start = clock' /\ reading'.read = r /\ reading'.n = 1 /\ reading'.ticks = 0
        /\ reading' \in Readings
    BY <2>2, <2>4, <2>5 DEF Readings
  <2>7. Elapsed(clock', clock', 0)
    BY <2>2 DEF Elapsed, Clocks
  <2> QED BY <1>0, <2>2, <2>4, <2>6, <2>7 DEF ReadInv
<1>3. CASE reading # NotReading
  <2>1. reading \in Readings /\ n \in {1, 2} /\ clock \in Clocks /\ clock' = clock
    BY <1>0, <1>3 DEF ReadInv, Readings
  <2>2. /\ start \in Clocks /\ read \in Clocks /\ ticks \in 0 .. MAX_TICKS
        /\ reading = [start |-> start, read |-> read, n |-> n, ticks |-> ticks]
        /\ read = [h |-> read.h, m |-> read.m, s |-> read.s]
    BY <2>1 DEF Readings, Clocks
  <2>3. /\ read.s = start.s /\ Elapsed(start, clock, ticks)
        /\ n = 2 => \/ read.m = start.m
                    \/ NextMinute(start, clock) /\ read.m = clock.m
    BY <1>0, <1>3 DEF ReadInv
  <2>4. CASE n = 1
    <3> DEFINE r == [h |-> read.h, m |-> clock.m, s |-> read.s]
    <3>1. next = r /\ from = start /\ m = 2
      BY <1>1, <2>1, <2>2, <2>4
    <3>2. r \in Clocks /\ r.s = read.s /\ r.m = clock.m
      BY <2>1, <2>2 DEF Clocks
    <3> HIDE DEF r, start, read, n, ticks, next, from, m
    <3>x. reading' = [reading EXCEPT !.n = 2, !.start = start, !.read = r]
      BY Zenon, <1>r, <3>1
    <3>3. reading' = [start |-> start, read |-> r, n |-> 2, ticks |-> ticks]
      BY <2>2, <3>x
    <3>4. /\ reading'.start = start /\ reading'.read = r /\ reading'.n = 2
          /\ reading'.ticks = ticks /\ reading' \in Readings
      BY <2>2, <3>2, <3>3 DEF Readings
    <3>5. clock.m = start.m \/ NextMinute(start, clock)
      BY <2>3 DEF Elapsed
    <3> QED BY <1>0, <2>1, <2>3, <3>2, <3>4, <3>5 DEF ReadInv
  <2>5. CASE n = 2
    <3> DEFINE r == [h |-> clock.h, m |-> read.m, s |-> read.s]
    <3>1. next = r /\ from = start /\ m = 3
      BY <1>1, <2>1, <2>2, <2>5
    <3>2. r \in Clocks /\ r.s = read.s /\ r.m = read.m /\ r.h = clock.h
      BY <2>1, <2>2 DEF Clocks
    <3> HIDE DEF r, start, read, n, ticks, next, from, m
    <3>x. reading' = [reading EXCEPT !.n = 3, !.start = start, !.read = r]
      BY Zenon, <1>r, <3>1
    <3>3. reading' = [start |-> start, read |-> r, n |-> 3, ticks |-> ticks]
      BY <2>2, <3>x
    <3>4. /\ reading'.start = start /\ reading'.read = r /\ reading'.n = 3
          /\ reading'.ticks = ticks /\ reading' \in Readings
      BY <2>2, <3>2, <3>3 DEF Readings
    <3>5. Shown(start, r)
      BY <2>3, <2>5, <3>2 DEF Shown, Elapsed, NextMinute
    <3>6. r.s = start.s
      BY <2>3, <3>2
    <3> QED BY <1>0, <2>1, <3>4, <3>5, <3>6 DEF ReadInv
  <2> QED BY <2>1, <2>4, <2>5
<1> QED BY <1>2, <1>3

\* Every other step leaves the registers alone, or is taken when none is read.
LEMMA ReadStep ==
  MAX_TICKS \in Nat /\ MAX_TICKS <= SECONDS /\ ReadInv /\ [Next]_vars => ReadInv'
<1> SUFFICES ASSUME MAX_TICKS \in Nat, MAX_TICKS <= SECONDS, ReadInv, [Next]_vars
             PROVE  ReadInv'
  OBVIOUS
<1>1. CASE Tick
  BY <1>1, TickReads
<1>2. CASE ReadRegister
  BY <1>2, RegisterReads
<1>3. CASE PrintTime
  BY <1>3 DEF PrintTime, ReadInv, NotReading, Midnight
<1>4. CASE UNCHANGED <<mode, clock, reading>>
  BY <1>4 DEF ReadInv, NotReading, Midnight
<1>5. CASE mode # "time" /\ UNCHANGED reading
  <2>1. reading = NotReading
    BY <1>5 DEF ReadInv
  <2>2. reading' = NotReading
    BY <1>5, <2>1
  <2>3. NotReading' = NotReading
    BY DEF NotReading, Midnight
  <2> QED BY <2>2, <2>3 DEF ReadInv
<1>6. CASE PutChar \/ UNCHANGED vars
  <2>1. UNCHANGED <<mode, clock, reading>>
    BY <1>6 DEF PutChar, vars
  <2> QED BY <1>4, <2>1
<1>7. CASE (\E c \in Keys : Type(c)) \/ Erase \/ GameEnds
  <2>1. mode # "time" /\ UNCHANGED reading
    BY <1>7 DEF Type, Erase, GameEnds, Pressed, Waiting, Reads
  <2> QED BY <1>5, <2>1
<1>8. CASE Command
  <2>1. \A in : Enter(in) => mode # "time" /\ UNCHANGED reading
    BY DEF Enter, Pressed, Waiting, Reads
  <2>2. \E in : Enter(in)
    BY <1>8 DEF Command, EmptyLine, NotFound, PrintCmd, AskCmd, setUserCmd, fontSizeCmd, clearCmd,
                exitCmd, exceptionCmd_Misused, exceptionCmd, gameCmd, timeCmd
  <2> QED BY <1>5, <2>1, <2>2
<1> QED BY <1>1, <1>2, <1>3, <1>6, <1>7, <1>8 DEF Next

\* What has been read is start, or a minute or an hour later: of a day of two
\* hours or more, that is no more than half.
LEMMA ShownNotBehind ==
  ASSUME NEW a \in Clocks, NEW b \in Clocks, Shown(a, b)
  PROVE  (Total(b) - Total(a)) % Day <= Day \div 2
<1> DEFINE hour == MINUTES * SECONDS
           k == a.h * MINUTES
           q == k + a.m
<1>0. /\ a.h \in 0 .. (HOURS - 1) /\ a.m \in 0 .. (MINUTES - 1) /\ a.s \in Int /\ b.s = a.s
      /\ b.h \in 0 .. (HOURS - 1) /\ b.m \in 0 .. (MINUTES - 1)
      /\ HOURS \in Nat /\ HOURS >= 2 /\ MINUTES \in Nat \ {0} /\ SECONDS \in Nat \ {0}
  BY ClockAssumption DEF Clocks, Shown
<1>1. hour \in Nat /\ SECONDS <= hour
  <2>1. MINUTES * SECONDS >= SECONDS
    BY <1>0, Z3
  <2> QED BY <1>0, <2>1
<1>2. Day \in Nat /\ Day = HOURS * hour /\ Day >= 2 * hour /\ Day > 0
  <2>1. Day = HOURS * hour
    BY <1>0, Z3 DEF Day
  <2> HIDE DEF hour
  <2>2. HOURS * hour >= 2 * hour /\ HOURS * hour \in Nat
    BY <1>0, <1>1, Z3
  <2> QED BY <1>0, <1>1, <2>1, <2>2
<1>3. \A d \in 0 .. hour : d % Day <= Day \div 2 /\ (d - Day) % Day <= Day \div 2
  <2> HIDE DEF hour
  <2> SUFFICES ASSUME NEW d \in 0 .. hour
               PROVE  d % Day <= Day \div 2 /\ (d - Day) % Day <= Day \div 2
    OBVIOUS
  <2>1. d <= Day \div 2
    BY <1>1, <1>2
  <2>2. d % Day = d /\ (d - Day) % Day = d
    BY <1>1, <1>2
  <2> QED BY <2>1, <2>2
<1>4. k \in Int /\ q \in Int /\ q * SECONDS \in Int /\ Total(a) = q * SECONDS + a.s
  BY <1>0 DEF Total
<1>5. (a.h + 1) * MINUTES = k + MINUTES
  BY <1>0
<1>6. a.h = HOURS - 1 => k * SECONDS = Day - hour /\ k * SECONDS \in Int
  BY <1>0, <1>1, <1>2, Z3 DEF Day
<1>7. \A u, v \in Int : (u + v) * SECONDS = u * SECONDS + v * SECONDS
                          /\ u * SECONDS \in Int /\ v * SECONDS \in Int
  BY <1>0, Z3
<1>8. CASE b.h = a.h /\ b.m = a.m
  <2>1. Total(b) - Total(a) = 0
    BY <1>0, <1>4, <1>8 DEF Total
  <2> QED BY <1>1, <1>3, <2>1
<1>9. CASE NextMinute(a, b)
  <2>1. CASE b.m = a.m + 1 /\ b.h = a.h
    <3>1. Total(b) = (q + 1) * SECONDS + a.s
      BY <1>0, <1>4, <2>1 DEF Total
    <3> HIDE DEF q, hour
    <3>2. Total(b) - Total(a) = SECONDS
      BY <1>0, <1>4, <1>7, <3>1
    <3> QED BY <1>0, <1>1, <1>3, <3>2
  <2>2. CASE a.m = MINUTES - 1 /\ b.m = 0 /\ b.h = a.h + 1
    <3>1. Total(b) = (q + 1) * SECONDS + a.s
      BY <1>0, <1>4, <1>5, <2>2 DEF Total
    <3> HIDE DEF q, hour
    <3>2. Total(b) - Total(a) = SECONDS
      BY <1>0, <1>4, <1>7, <3>1
    <3> QED BY <1>0, <1>1, <1>3, <3>2
  <2>3. CASE a.m = MINUTES - 1 /\ b.m = 0 /\ a.h = HOURS - 1 /\ b.h = 0
    <3>1. Total(b) = a.s
      BY <1>0, <2>3 DEF Total
    <3>2. q = k + (MINUTES - 1)
      BY <2>3
    <3>3. (MINUTES - 1) * SECONDS = hour - SECONDS
      BY <1>0, Z3
    <3> HIDE DEF k, q, hour
    <3>4. q * SECONDS = Day - SECONDS
      <4>1. q * SECONDS = k * SECONDS + (MINUTES - 1) * SECONDS
        BY <1>0, <1>4, <1>7, <3>2
      <4> QED BY <1>0, <1>1, <1>2, <1>6, <2>3, <3>3, <4>1
    <3>5. Total(b) - Total(a) = SECONDS - Day
      BY <1>0, <1>2, <1>4, <3>1, <3>4
    <3> QED BY <1>0, <1>1, <1>3, <3>5
  <2> QED BY <1>9, <2>1, <2>2, <2>3 DEF NextMinute
<1>10. CASE a.m = MINUTES - 1 /\ b.m = a.m /\ b.h = a.h + 1
  <2>1. Total(b) = (q + MINUTES) * SECONDS + a.s
    BY <1>0, <1>4, <1>5, <1>10 DEF Total
  <2> HIDE DEF q
  <2>2. (q + MINUTES) * SECONDS = q * SECONDS + hour
    BY <1>0, <1>4, <1>7
  <2> HIDE DEF hour
  <2>3. Total(b) - Total(a) = hour
    BY <1>0, <1>1, <1>4, <2>1, <2>2
  <2> QED BY <1>1, <1>3, <2>3
<1>11. CASE a.m = MINUTES - 1 /\ b.m = a.m /\ a.h = HOURS - 1 /\ b.h = 0
  <2>1. Total(b) = a.m * SECONDS + a.s /\ a.m * SECONDS \in Int
    BY <1>0, <1>11 DEF Total
  <2>2. q * SECONDS = k * SECONDS + a.m * SECONDS
    <3> HIDE DEF k
    <3> QED BY <1>0, <1>4, <1>7
  <2> HIDE DEF q, k, hour
  <2>3. Total(b) - Total(a) = hour - Day
    BY <1>0, <1>1, <1>2, <1>4, <1>6, <1>11, <2>1, <2>2
  <2> QED BY <1>1, <1>3, <2>3
<1> QED BY <1>8, <1>9, <1>10, <1>11 DEF Shown

\* The time shown had not passed before the command was given (lib.c:392-396),
\* for a clock of any minutes and hours, as long as the three reads take no
\* longer than a minute of it.
THEOREM TimeCorrect ==
  ASSUME MAX_TICKS \in Nat, MAX_TICKS <= SECONDS
  PROVE  Spec => []TimeNotBehind
<1>1. Init => ReadInv
  BY DEF Init, ReadInv
<1>2. ReadInv /\ [Next]_vars => ReadInv'
  BY ReadStep
<1>3. ReadInv => TimeNotBehind
  <2> SUFFICES ASSUME ReadInv, mode = "time", reading.n = 3
               PROVE  (Total(reading.read) - Total(reading.start)) % Day <= Day \div 2
    BY DEF TimeNotBehind
  <2>1. reading \in Readings /\ Shown(reading.start, reading.read)
    BY DEF ReadInv, NotReading
  <2>2. reading.start \in Clocks /\ reading.read \in Clocks
    BY <2>1 DEF Readings
  <2> QED BY <2>1, <2>2, ShownNotBehind
<1> QED BY <1>1, <1>2, <1>3, PTL DEF Spec

-----------------------------------------------------------------------------
(* The line on the screen.                                                 *)

\* Where the characters, of w by h pixels, divide the width the screen is a grid
\* of cells: the cursor is at column col of row row, or past its last column.
Cursor(t, w, h, W, col, row) ==
  /\ IsTerminal(t) /\ t.scale \in 1 .. 3 /\ CharWidth(t) = w /\ CharHeight(t) = h
  /\ W \in Nat \ {0} /\ WIDTH = W * w
  /\ col \in Nat /\ t.x = col * w
  /\ row \in Nat /\ t.y = row * h /\ row * h + h <= HEIGHT

\* How many cells the cell at column i of row j is before column col of row row.
Before(W, col, row, i, j) == (row * W + col) - (j * W + i)

\* The last of text stands before the cursor.
Stands(t, w, h, W, col, row, text) ==
  \A i \in 0 .. (W - 1), j \in Nat :
    Before(W, col, row, i, j) \in 1 .. Len(text) =>
      t.screen[<<i * w, j * h>>] = text[Len(text) + 1 - Before(W, col, row, i, j)]

\* Nothing stands at the cursor or after it.
BlankAfter(t) ==
  \A u \in Pixels :
    u[2] > t.y + CharHeight(t) - 1 \/ (u[2] >= t.y /\ u[1] >= t.x) => t.screen[u] = BLANK

Clean(t) == Fits(t) => BlankAfter(t)
Shows(t, text) ==
  Fits(t) => Stands(t, CharWidth(t), CharHeight(t), WIDTH \div CharWidth(t),
                    t.x \div CharWidth(t), t.y \div CharHeight(t), text)

LEMMA CursorExists ==
  ASSUME NEW t, OnScreen(t), Fits(t)
  PROVE  LET w == CharWidth(t)
             h == CharHeight(t)
             W == WIDTH \div w
         IN  Cursor(t, w, h, W, t.x \div w, t.y \div h) /\ t.x \div w < W
<1> DEFINE w == CharWidth(t)
           h == CharHeight(t)
           W == WIDTH \div w
           col == t.x \div w
           row == t.y \div h
<1>0. /\ WIDTH \in Nat /\ HEIGHT \in Nat /\ t.scale \in 1 .. 3 /\ IsTerminal(t)
      /\ w \in Nat \ {0} /\ w <= WIDTH /\ h \in Nat \ {0}
      /\ t.x \in Nat /\ t.x < WIDTH /\ t.y \in Nat /\ t.y + h <= HEIGHT
      /\ t.y % h = 0 /\ WIDTH % w = 0 /\ t.x % w = 0
  BY ScreenAssumption, CharSize DEF OnScreen, Fits
<1> SUFFICES Cursor(t, w, h, W, col, row) /\ col < W
  OBVIOUS
<1> HIDE DEF w, h
<1>1. /\ W \in Nat /\ WIDTH = W * w /\ col \in Nat /\ t.x = col * w
      /\ row \in Nat /\ t.y = row * h
  BY <1>0, Divides
<1> HIDE DEF W, col, row
<1>2. col < W
  BY <1>0, <1>1, Products
<1> QED BY <1>0, <1>1, <1>2 DEF Cursor, w, h

\* What a cursor in the grid says in pixels.
LEMMA CursorFacts ==
  ASSUME NEW t, NEW w, NEW h, NEW W, NEW col, NEW row, Cursor(t, w, h, W, col, row)
  PROVE  /\ IsTerminal(t) /\ t.scale \in 1 .. 3 /\ CharWidth(t) = w /\ CharHeight(t) = h
         /\ w \in Nat \ {0} /\ h \in Nat \ {0} /\ W \in Nat \ {0} /\ col \in Nat /\ row \in Nat
         /\ WIDTH \in Nat /\ HEIGHT \in Nat /\ WIDTH = W * w /\ HEIGHT % h = 0
         /\ t.x = col * w /\ t.x \in Nat /\ t.y = row * h /\ t.y \in Nat /\ t.y + h <= HEIGHT
         /\ (row + 1) * h = t.y + h
         /\ col < W <=> t.x < WIDTH
         /\ col < W => t.x + w <= WIDTH
<1>1. /\ IsTerminal(t) /\ t.scale \in 1 .. 3 /\ CharWidth(t) = w /\ CharHeight(t) = h
      /\ W \in Nat \ {0} /\ col \in Nat /\ row \in Nat
      /\ WIDTH \in Nat /\ HEIGHT \in Nat /\ WIDTH = W * w
      /\ t.x = col * w /\ t.y = row * h /\ t.y + h <= HEIGHT
  BY ScreenAssumption DEF Cursor
<1>2. w \in Nat \ {0} /\ h \in Nat \ {0} /\ HEIGHT % h = 0
  BY <1>1, CharSize
<1>3. t.x \in Nat /\ (col < W <=> t.x < WIDTH) /\ (col < W => t.x + w <= WIDTH)
  BY <1>1, <1>2, Products
<1>4. t.y \in Nat /\ (row + 1) * h = t.y + h
  BY <1>1, <1>2, Products
<1> QED BY <1>1, <1>2, <1>3, <1>4

\* The column and the row of a cursor are what the quotients say.
LEMMA CursorIs ==
  ASSUME NEW t, NEW w, NEW h, NEW W, NEW col, NEW row, Cursor(t, w, h, W, col, row)
  PROVE  /\ Fits(t) /\ CharWidth(t) = w /\ CharHeight(t) = h
         /\ W = WIDTH \div w /\ col = t.x \div w /\ row = t.y \div h
<1>0. /\ CharWidth(t) = w /\ CharHeight(t) = h
      /\ w \in Nat \ {0} /\ h \in Nat \ {0} /\ W \in Nat /\ WIDTH = W * w
      /\ col \in Nat /\ t.x = col * w /\ row \in Nat /\ t.y = row * h
  BY CursorFacts
<1>1. W = WIDTH \div w /\ WIDTH % w = 0 /\ col = t.x \div w /\ row = t.y \div h
  BY <1>0, Multiple
<1> QED BY <1>0, <1>1 DEF Fits

LEMMA ShowsIs ==
  ASSUME NEW t, NEW w, NEW h, NEW W, NEW col, NEW row, Cursor(t, w, h, W, col, row), NEW text
  PROVE  Shows(t, text) <=> Stands(t, w, h, W, col, row, text)
BY CursorIs, Zenon DEF Shows

\* A cell is before another one when it is in an earlier row or further left.
LEMMA BeforeIs ==
  ASSUME NEW W \in Nat \ {0}, NEW col \in 0 .. W, NEW row \in Nat,
         NEW i \in 0 .. (W - 1), NEW j \in Nat
  PROVE  /\ Before(W, col, row, i, j) \in Int
         /\ Before(W, col, row, i, j) >= 1 => j < row \/ (j = row /\ i < col)
         /\ col < W /\ Before(W, col, row, i, j) = 0 => j = row /\ i = col
<1> DEFINE a == row * W
           b == j * W
<1>1. a \in Int /\ b \in Int
  BY Products
<1>2. (j > row => a + W <= b) /\ (row > j => b + W <= a) /\ (j = row => a = b)
  BY Products
<1>3. Before(W, col, row, i, j) = (a + col) - (b + i)
  BY DEF Before
<1> HIDE DEF a, b
<1> QED BY <1>1, <1>2, <1>3

LEMMA PixelPair ==
  ASSUME NEW u \in Pixels
  PROVE  u = <<u[1], u[2]>> /\ u[1] \in 0 .. (WIDTH - 1) /\ u[2] \in 0 .. (HEIGHT - 1)
BY DEF Pixels

\* A character drawn in the grid covers its cell and nothing else.
LEMMA DrawnIs ==
  ASSUME NEW t, NEW w, NEW h, NEW W, NEW col, NEW row, Cursor(t, w, h, W, col, row), col < W,
         NEW c, NEW u \in Pixels
  PROVE  Drawn(t, c).screen[u] =
           IF u[1] \in t.x .. (t.x + w - 1) /\ u[2] \in t.y .. (t.y + h - 1)
           THEN c ELSE t.screen[u]
<1>0. /\ w \in Nat \ {0} /\ h \in Nat \ {0} /\ CharWidth(t) = w /\ CharHeight(t) = h
      /\ WIDTH \in Nat /\ HEIGHT \in Nat /\ t.x \in Nat /\ t.x + w <= WIDTH /\ t.y \in Nat
  BY CursorFacts
<1>1. Drawn(t, c).screen = [v \in Pixels |-> IF v \in Covered(t) THEN c ELSE t.screen[v]]
  BY DEF Drawn, Cursor, IsTerminal
<1>2. u = <<u[1], u[2]>> /\ u[1] \in 0 .. (WIDTH - 1) /\ u[2] \in 0 .. (HEIGHT - 1)
  BY PixelPair
<1>3. \A a \in 0 .. (w - 1) : \A b : PixelAt(t.x + a, t.y + b) = <<t.x + a, t.y + b>>
  <2> SUFFICES ASSUME NEW a \in 0 .. (w - 1) PROVE t.x + a < WIDTH
    BY DEF PixelAt
  <2> QED BY <1>0
<1>4. ASSUME u \in Covered(t)
      PROVE  u[1] \in t.x .. (t.x + w - 1) /\ u[2] \in t.y .. (t.y + h - 1)
  <2>1. PICK a \in 0 .. (w - 1), b \in 0 .. (h - 1) : u = PixelAt(t.x + a, t.y + b)
    BY <1>0, <1>4 DEF Covered
  <2>2. u[1] = t.x + a /\ u[2] = t.y + b
    BY <1>3, <2>1
  <2> QED BY <1>0, <2>2
<1>5. ASSUME u[1] \in t.x .. (t.x + w - 1), u[2] \in t.y .. (t.y + h - 1)
      PROVE  u \in Covered(t)
  <2>1. u[1] - t.x \in 0 .. (w - 1) /\ u[2] - t.y \in 0 .. (h - 1)
    BY <1>0, <1>2, <1>5
  <2>2. t.x + (u[1] - t.x) = u[1] /\ t.y + (u[2] - t.y) = u[2]
    BY <1>0, <1>2
  <2>3. u = PixelAt(t.x + (u[1] - t.x), t.y + (u[2] - t.y))
    BY <1>2, <1>3, <2>1, <2>2
  <2> HIDE DEF Covered
  <2>4. \A a \in 0 .. (w - 1), b \in 0 .. (h - 1) : PixelAt(t.x + a, t.y + b) \in Covered(t)
    BY <1>0 DEF Covered
  <2> QED BY <2>1, <2>3, <2>4
<1> HIDE DEF Covered
<1> QED BY <1>1, <1>4, <1>5

\* The pixel that stands for a cell: its top left one.
LEMMA CellPixel ==
  ASSUME NEW t, NEW w, NEW h, NEW W, NEW col, NEW row, Cursor(t, w, h, W, col, row),
         NEW i \in 0 .. (W - 1), NEW j \in Nat, j * h < HEIGHT
  PROVE  /\ <<i * w, j * h>> \in Pixels
         /\ i * w \in t.x .. (t.x + w - 1) <=> i = col
         /\ j * h \in t.y .. (t.y + h - 1) <=> j = row
<1>0. /\ w \in Nat \ {0} /\ h \in Nat \ {0} /\ W \in Nat \ {0} /\ WIDTH = W * w
      /\ col \in Nat /\ row \in Nat /\ t.x = col * w /\ t.y = row * h
      /\ HEIGHT \in Nat /\ WIDTH \in Nat
  BY CursorFacts
<1>1. i * w \in Nat /\ i * w < WIDTH /\ j * h \in Nat
  <2>1. i \in Nat /\ i < W
    BY <1>0
  <2> QED BY <1>0, <2>1, Products
<1>2. <<i * w, j * h>> \in Pixels
  BY <1>0, <1>1 DEF Pixels
<1>3. ASSUME NEW v \in Nat \ {0}, NEW a \in Nat, NEW k \in Nat
      PROVE  a * v \in (k * v) .. (k * v + v - 1) <=> a = k
  <2> DEFINE p == a * v
             q == k * v
  <2>1. p \in Nat /\ q \in Nat /\ (a < k => p + v <= q) /\ (k < a => q + v <= p)
        /\ (a = k => p = q)
    BY Products
  <2> HIDE DEF p, q
  <2>2. p \in q .. (q + v - 1) <=> a = k
    BY <2>1
  <2> QED BY <2>2 DEF p, q
<1>4. i \in Nat
  BY <1>0
<1> QED BY <1>0, <1>2, <1>3, <1>4

\* So are the cells before the cursor, and drawing at the cursor leaves them.
LEMMA CellsBefore ==
  ASSUME NEW t, NEW w, NEW h, NEW W, NEW col, NEW row, Cursor(t, w, h, W, col, row), col <= W,
         NEW i \in 0 .. (W - 1), NEW j \in Nat, Before(W, col, row, i, j) >= 1
  PROVE  /\ j < row \/ (j = row /\ i < col)
         /\ <<i * w, j * h>> \in Pixels
         /\ col < W => \A c : Drawn(t, c).screen[<<i * w, j * h>>] = t.screen[<<i * w, j * h>>]
<1> DEFINE u == <<i * w, j * h>>
<1>0. /\ w \in Nat \ {0} /\ h \in Nat \ {0} /\ W \in Nat \ {0} /\ WIDTH = W * w
      /\ col \in 0 .. W /\ col \in Nat /\ row \in Nat
      /\ t.x = col * w /\ t.y = row * h /\ t.y + h <= HEIGHT /\ t.y \in Nat /\ HEIGHT \in Nat
  BY CursorFacts
<1>1. j < row \/ (j = row /\ i < col)
  BY <1>0, BeforeIs
<1>2. j * h < HEIGHT
  <2>1. j < row \/ j = row
    BY <1>1
  <2>2. j * h \in Nat /\ (j < row => j * h + h <= t.y) /\ (j = row => j * h = t.y)
    BY <1>0, Products
  <2> QED BY <1>0, <2>1, <2>2
<1>3. /\ u \in Pixels
      /\ i * w \in t.x .. (t.x + w - 1) <=> i = col
      /\ j * h \in t.y .. (t.y + h - 1) <=> j = row
  BY <1>2, CellPixel
<1>4. ASSUME col < W, NEW c PROVE Drawn(t, c).screen[u] = t.screen[u]
  <2>1. ~(u[1] \in t.x .. (t.x + w - 1) /\ u[2] \in t.y .. (t.y + h - 1))
    BY <1>0, <1>1, <1>3
  <2> QED BY <1>3, <1>4, <2>1, DrawnIs
<1> QED BY <1>1, <1>3, <1>4

LEMMA FieldSet ==
  ASSUME NEW t, IsTerminal(t), NEW x
  PROVE  /\ [t EXCEPT !.x = x].screen = t.screen
         /\ [t EXCEPT !.y = x].screen = t.screen
BY DEF IsTerminal

LEMMA MovedIs ==
  ASSUME NEW t, IsTerminal(t), NEW x, NEW y
  PROVE  At(t, x, y).screen = t.screen /\ At(t, x, y).x = x /\ At(t, x, y).y = y
<1> DEFINE v == [t EXCEPT !.x = x]
<1>1. IsTerminal(v) /\ v.screen = t.screen
  BY DEF IsTerminal
<1>2. At(t, x, y) = [v EXCEPT !.y = y]
  BY Zenon DEF v, At
<1> HIDE DEF v
<1>3. [v EXCEPT !.y = y].screen = v.screen
  BY <1>1, FieldSet, Zenon
<1>4. At(t, x, y).screen = t.screen
  BY <1>1, <1>2, <1>3, Zenon
<1> QED BY <1>4, CursorSet

\* A new line, taken from anywhere in a row and even past its last column.
LEMMA NewLineIs ==
  ASSUME NEW t, IsTerminal(t)
  PROVE  LET n == video_newLine(t)
             h == CharHeight(t)
         IN  IF t.y + h < HEIGHT
             THEN n.screen = t.screen /\ n.x = 0 /\ n.y = t.y + h
             ELSE /\ n.x = 0 /\ n.y = HEIGHT - h
                  /\ n.screen = video_scrollUp(t).screen
<1> DEFINE h == CharHeight(t)
<1>1. CASE t.y + h < HEIGHT
  <2> DEFINE y == t.y + h
  <2>1. video_newLine(t) = At(t, 0, y)
    BY <1>1, Zenon DEF video_newLine, At
  <2> HIDE DEF y
  <2>2. At(t, 0, y).screen = t.screen /\ At(t, 0, y).x = 0 /\ At(t, 0, y).y = y
    BY MovedIs
  <2> QED BY <1>1, <2>1, <2>2 DEF y
<1>2. CASE ~(t.y + h < HEIGHT)
  <2> DEFINE w == video_scrollUp(t)
             r == HEIGHT - h
  <2>1. video_newLine(t) = At(w, 0, r)
    BY <1>2, Zenon DEF video_newLine, At
  <2>2. IsTerminal(w)
    BY ScrollKeeps
  <2> HIDE DEF w, r
  <2>3. At(w, 0, r).screen = w.screen /\ At(w, 0, r).x = 0 /\ At(w, 0, r).y = r
    BY <2>2, MovedIs
  <2> QED BY <1>2, <2>1, <2>3 DEF w, r
<1> QED BY <1>1, <1>2

LEMMA ScrollIs ==
  ASSUME NEW t, IsTerminal(t), NEW u \in Pixels
  PROVE  video_scrollUp(t).screen[u] =
           IF u[2] + CharHeight(t) < HEIGHT THEN t.screen[<<u[1], u[2] + CharHeight(t)>>]
           ELSE BLANK
<1>1. video_scrollUp(t).screen =
        [v \in Pixels |-> IF v[2] + CharHeight(t) < HEIGHT
                          THEN t.screen[<<v[1], v[2] + CharHeight(t)>>] ELSE BLANK]
  BY DEF video_scrollUp, IsTerminal
<1> QED BY <1>1

\* The row below the last one is the last one, and what is seen moves up.
LEMMA NewLineCursor ==
  ASSUME NEW t, NEW w, NEW h, NEW W, NEW col, NEW row, Cursor(t, w, h, W, col, row)
  PROVE  LET n == video_newLine(t)
         IN  IF t.y + h + h <= HEIGHT
             THEN Cursor(n, w, h, W, 0, row + 1) /\ n.screen = t.screen
             ELSE Cursor(n, w, h, W, 0, row) /\ n.screen = video_scrollUp(t).screen
                  /\ t.y + h = HEIGHT
<1> DEFINE n == video_newLine(t)
<1>0. /\ IsTerminal(t) /\ t.scale \in 1 .. 3 /\ CharWidth(t) = w /\ CharHeight(t) = h
      /\ w \in Nat \ {0} /\ h \in Nat \ {0} /\ W \in Nat \ {0} /\ WIDTH = W * w
      /\ t.y = row * h /\ row \in Nat /\ row + 1 \in Nat /\ (row + 1) * h = t.y + h
      /\ t.y \in Nat /\ t.y + h <= HEIGHT /\ HEIGHT \in Nat /\ HEIGHT % h = 0
  BY CursorFacts
<1>1. 0 * w = 0 /\ t.y % h = 0
  BY <1>0, Multiple, Z3
<1>2. t.y + h < HEIGHT => t.y + h + h <= HEIGHT
  BY <1>0, <1>1, LineBelow
<1>3. IsTerminal(n) /\ n.scale = t.scale
  BY <1>0, <1>1, NewLineOnScreen DEF OnScreen
<1>4. IF t.y + h < HEIGHT
      THEN n.screen = t.screen /\ n.x = 0 /\ n.y = t.y + h
      ELSE n.x = 0 /\ n.y = HEIGHT - h /\ n.screen = video_scrollUp(t).screen
  BY <1>0, NewLineIs
<1> HIDE DEF n
<1>5. n.scale \in 1 .. 3 /\ CharWidth(n) = w /\ CharHeight(n) = h
  BY <1>0, <1>3, SameSize
<1>6. CASE t.y + h < HEIGHT
  <2>1. n.screen = t.screen /\ n.x = 0 /\ n.y = t.y + h
    BY <1>4, <1>6
  <2>2. (row + 1) * h + h <= HEIGHT
    BY <1>0, <1>2, <1>6
  <2>3. Cursor(n, w, h, W, 0, row + 1)
    BY <1>0, <1>1, <1>3, <1>5, <2>1, <2>2, Zenon DEF Cursor
  <2> QED BY <1>2, <1>6, <2>1, <2>3 DEF n
<1>7. CASE ~(t.y + h < HEIGHT)
  <2>1. t.y + h = HEIGHT /\ ~(t.y + h + h <= HEIGHT)
    BY <1>0, <1>7
  <2>2. n.screen = video_scrollUp(t).screen /\ n.x = 0 /\ n.y = t.y
    BY <1>0, <1>4, <1>7, <2>1
  <2>3. Cursor(n, w, h, W, 0, row)
    BY <1>0, <1>1, <1>3, <1>5, <2>2, Zenon DEF Cursor
  <2> QED BY <2>1, <2>2, <2>3 DEF n
<1> QED BY <1>6, <1>7

LEMMA NewLineBlank ==
  ASSUME NEW t, NEW w, NEW h, NEW W, NEW col, NEW row, Cursor(t, w, h, W, col, row), BlankAfter(t)
  PROVE  BlankAfter(video_newLine(t))
<1> DEFINE n == video_newLine(t)
<1>0. /\ IsTerminal(t) /\ CharHeight(t) = h /\ h \in Nat \ {0} /\ HEIGHT \in Nat
      /\ t.y \in Nat /\ (row + 1) * h = t.y + h /\ t.y = row * h
  BY CursorFacts
<1>1. IF t.y + h + h <= HEIGHT
      THEN Cursor(n, w, h, W, 0, row + 1) /\ n.screen = t.screen
      ELSE Cursor(n, w, h, W, 0, row) /\ n.screen = video_scrollUp(t).screen
           /\ t.y + h = HEIGHT
  BY NewLineCursor
<1>2. CharHeight(n) = h
  BY <1>1 DEF Cursor
<1> SUFFICES ASSUME NEW u \in Pixels, u[2] > n.y + h - 1 \/ (u[2] >= n.y /\ u[1] >= n.x)
             PROVE  n.screen[u] = BLANK
  BY <1>2 DEF BlankAfter
<1>3. u[2] \in Nat
  BY PixelPair
<1> HIDE DEF n
<1>4. CASE t.y + h + h <= HEIGHT
  <2>1. n.y = t.y + h /\ n.screen = t.screen
    BY <1>0, <1>1, <1>4 DEF Cursor
  <2>2. u[2] > t.y + CharHeight(t) - 1
    BY <1>0, <1>3, <2>1
  <2> QED BY <2>1, <2>2 DEF BlankAfter
<1>5. CASE ~(t.y + h + h <= HEIGHT)
  <2>1. n.y = t.y /\ n.screen = video_scrollUp(t).screen /\ t.y + h = HEIGHT
    BY <1>0, <1>1, <1>5 DEF Cursor
  <2>2. ~(u[2] + CharHeight(t) < HEIGHT)
    BY <1>0, <1>3, <2>1
  <2> QED BY <1>0, <2>1, <2>2, ScrollIs
<1> QED BY <1>4, <1>5

\* At the end of a row, the text goes on in the next one.
LEMMA NewLineStands ==
  ASSUME NEW t, NEW w, NEW h, NEW W, NEW row, Cursor(t, w, h, W, W, row),
         NEW text \in Seq(Glyphs), Stands(t, w, h, W, W, row, text)
  PROVE  Shows(video_newLine(t), text)
<1> DEFINE n == video_newLine(t)
<1>0. /\ W \in Nat \ {0} /\ row \in Nat /\ row * W \in Nat /\ (row + 1) * W = row * W + W
      /\ IsTerminal(t) /\ CharHeight(t) = h /\ h \in Nat \ {0} /\ HEIGHT \in Nat /\ t.y \in Nat
      /\ t.y = row * h
  <2>1. /\ W \in Nat \ {0} /\ row \in Nat /\ IsTerminal(t) /\ CharHeight(t) = h
        /\ h \in Nat \ {0} /\ HEIGHT \in Nat /\ t.y \in Nat /\ t.y = row * h
    BY CursorFacts
  <2>2. row * W \in Nat /\ (row + 1) * W = row * W + W
    BY <2>1, Products
  <2> QED BY <2>1, <2>2
<1>1. IF t.y + h + h <= HEIGHT
      THEN Cursor(n, w, h, W, 0, row + 1) /\ n.screen = t.screen
      ELSE Cursor(n, w, h, W, 0, row) /\ n.screen = video_scrollUp(t).screen
           /\ t.y + h = HEIGHT
  BY NewLineCursor
<1> HIDE DEF n
<1>2. CASE t.y + h + h <= HEIGHT
  <2>1. \A i \in 0 .. (W - 1), j \in Nat : Before(W, 0, row + 1, i, j) = Before(W, W, row, i, j)
    <3> SUFFICES ASSUME NEW i \in 0 .. (W - 1), NEW j \in Nat
                 PROVE  Before(W, 0, row + 1, i, j) = Before(W, W, row, i, j)
      OBVIOUS
    <3>1. (row + 1) * W + 0 = row * W + W
      BY <1>0
    <3> QED BY <3>1 DEF Before
  <2>2. Stands(n, w, h, W, 0, row + 1, text)
    BY <1>1, <1>2, <2>1 DEF Stands
  <2> QED BY <1>1, <1>2, <2>2, ShowsIs DEF n
<1>3. CASE ~(t.y + h + h <= HEIGHT)
  <2> SUFFICES Stands(n, w, h, W, 0, row, text)
    BY <1>1, <1>3, ShowsIs DEF n
  <2> SUFFICES ASSUME NEW i \in 0 .. (W - 1), NEW j \in Nat,
                      Before(W, 0, row, i, j) \in 1 .. Len(text)
               PROVE  n.screen[<<i * w, j * h>>] = text[Len(text) + 1 - Before(W, 0, row, i, j)]
    BY DEF Stands
  <2>1. Before(W, W, row, i, j + 1) = Before(W, 0, row, i, j)
    <3>1. (j + 1) * W = j * W + W /\ j * W \in Int
      BY <1>0, Products
    <3> DEFINE a == row * W
               b == j * W
    <3>2. (a + W) - ((b + W) + i) = (a + 0) - (b + i)
      <4> HIDE DEF a, b
      <4>1. a \in Int /\ b \in Int
        BY <1>0, <3>1 DEF a, b
      <4> QED BY <1>0, <4>1
    <3> QED BY <3>1, <3>2 DEF Before
  <2>2. t.screen[<<i * w, (j + 1) * h>>] = text[Len(text) + 1 - Before(W, 0, row, i, j)]
    BY <2>1 DEF Stands
  <2>3. Before(W, 0, row, i, j) >= 1
    OBVIOUS
  <2>4. Cursor(n, w, h, W, 0, row) /\ n.screen = video_scrollUp(t).screen /\ t.y + h = HEIGHT
    BY <1>1, <1>3
  <2>5. <<i * w, j * h>> \in Pixels /\ j < row
    <3>0. 0 <= W
      BY <1>0
    <3>1. <<i * w, j * h>> \in Pixels /\ (j < row \/ (j = row /\ i < 0))
      BY <2>3, <2>4, <3>0, CellsBefore
    <3> QED BY <1>0, <3>1
  <2>6. (j + 1) * h = j * h + h /\ j * h + h < HEIGHT
    <3>1. (j + 1) * h = j * h + h /\ j * h \in Nat
      BY <1>0, Products
    <3>2. j * h + h <= row * h
      BY <1>0, <2>5, Products
    <3> DEFINE p == j * h
    <3>3. p \in Nat /\ p + h <= t.y /\ t.y + h = HEIGHT /\ t.y \in Nat /\ h \in Nat \ {0}
      BY <1>0, <2>4, <3>1, <3>2
    <3> HIDE DEF p
    <3>4. p + h < HEIGHT
      BY <3>3
    <3> QED BY <3>1, <3>4 DEF p
  <2> DEFINE u == <<i * w, j * h>>
  <2>7. u \in Pixels /\ u[1] = i * w /\ u[2] = j * h
    BY <2>5
  <2> HIDE DEF u
  <2>8. video_scrollUp(t).screen[u] = t.screen[<<i * w, j * h + h>>]
    BY <1>0, <2>6, <2>7, ScrollIs
  <2> QED BY <2>2, <2>4, <2>6, <2>8 DEF u
<1> QED BY <1>2, <1>3

\* Moving the cursor along its row.
Moved(t, x) == [t EXCEPT !.x = x]

LEMMA MovedCursor ==
  ASSUME NEW t, NEW w, NEW h, NEW W, NEW col, NEW row, Cursor(t, w, h, W, col, row),
         NEW x, NEW k \in Nat, x = k * w
  PROVE  LET m == Moved(t, x)
         IN  Cursor(m, w, h, W, k, row) /\ m.screen = t.screen /\ m.x = x /\ m.y = t.y
<1> DEFINE m == Moved(t, x)
<1>1. IsTerminal(m) /\ m.screen = t.screen /\ m.x = x /\ m.y = t.y /\ m.scale = t.scale
  BY DEF Cursor, IsTerminal, Moved
<1> HIDE DEF m
<1>2. CharWidth(m) = CharWidth(t) /\ CharHeight(m) = CharHeight(t)
  BY <1>1, SameSize
<1>3. Cursor(m, w, h, W, k, row)
  BY <1>1, <1>2 DEF Cursor
<1> QED BY <1>1, <1>3 DEF m

LEMMA DrawnCursor ==
  ASSUME NEW t, NEW w, NEW h, NEW W, NEW col, NEW row, Cursor(t, w, h, W, col, row), NEW c
  PROVE  Cursor(Drawn(t, c), w, h, W, col, row)
<1> DEFINE d == Drawn(t, c)
<1>1. IsTerminal(d) /\ d.scale = t.scale /\ d.x = t.x /\ d.y = t.y
  BY DrawnKeeps DEF Cursor
<1> HIDE DEF d
<1>2. CharWidth(d) = CharWidth(t) /\ CharHeight(d) = CharHeight(t)
  BY <1>1, SameSize
<1>3. Cursor(d, w, h, W, col, row)
  BY <1>1, <1>2 DEF Cursor
<1> QED BY <1>3 DEF d

\* A glyph: it is drawn, the cursor moves on, and the row may be full.
LEMMA GlyphIs ==
  ASSUME NEW t, NEW w, NEW h, NEW W, NEW col, NEW row, Cursor(t, w, h, W, col, row), col < W,
         NEW c, c \notin {NL, BS, TAB}
  PROVE  \E m : /\ Cursor(m, w, h, W, col + 1, row) /\ m.screen = Drawn(t, c).screen
                /\ m.x = t.x + w /\ m.y = t.y
                /\ col + 1 < W => video_putChar(t, c) = m
                /\ col + 1 = W => video_putChar(t, c) = video_newLine(m)
<1> DEFINE d == Drawn(t, c)
           x == d.x + w
           m == Moved(d, x)
<1>0. /\ CharWidth(t) = w /\ w \in Nat \ {0} /\ col \in Nat /\ W \in Nat \ {0}
      /\ WIDTH = W * w /\ t.x = col * w /\ t.x \in Nat
  BY CursorFacts
<1>1. Cursor(d, w, h, W, col, row) /\ d.x = t.x /\ d.y = t.y
  BY DrawnCursor, DrawnKeeps DEF Cursor
<1>2. video_putChar(t, c) = WrapLine(m)
  <2>1. video_putChar(t, c) = WrapLine([d EXCEPT !.x = @ + CharWidth(t)])
    BY DEF video_putChar
  <2> QED BY <1>0, <2>1, Zenon DEF Moved
<1> HIDE DEF d
<1>3. x = (col + 1) * w /\ x = t.x + w /\ col + 1 \in Nat
      /\ (x >= WIDTH <=> col + 1 >= W)
  <2>1. (col + 1) * w = t.x + w /\ col + 1 \in Nat
    BY <1>0, Products
  <2>2. col + 1 < W <=> (col + 1) * w < W * w
    BY <1>0, <2>1, Products
  <2>3. (col + 1) * w \in Int /\ WIDTH \in Int
    BY <1>0, <2>1, ScreenAssumption
  <2> QED BY <1>0, <1>1, <2>1, <2>2, <2>3
<1>4. Cursor(m, w, h, W, col + 1, row) /\ m.screen = d.screen /\ m.x = x /\ m.y = d.y
  <2> HIDE DEF x
  <2> QED BY <1>1, <1>3, MovedCursor
<1>5. WrapLine(m) = IF m.x >= WIDTH THEN video_newLine(m) ELSE m
  BY Zenon DEF WrapLine
<1> HIDE DEF m, x
<1>6. /\ col + 1 < W => video_putChar(t, c) = m
      /\ col + 1 = W => video_putChar(t, c) = video_newLine(m)
  BY <1>0, <1>2, <1>3, <1>4, <1>5
<1> QED BY <1>1, <1>3, <1>4, <1>6 DEF d

LEMMA GlyphBlank ==
  ASSUME NEW t, NEW w, NEW h, NEW W, NEW col, NEW row, Cursor(t, w, h, W, col, row), col < W,
         BlankAfter(t), NEW c, NEW m, Cursor(m, w, h, W, col + 1, row),
         m.screen = Drawn(t, c).screen, m.x = t.x + w, m.y = t.y
  PROVE  BlankAfter(m)
<1>0. /\ w \in Nat \ {0} /\ h \in Nat \ {0} /\ CharHeight(t) = h /\ CharHeight(m) = h
      /\ t.x \in Int /\ t.y \in Int
  BY CursorFacts
<1> SUFFICES ASSUME NEW u \in Pixels, u[2] > m.y + h - 1 \/ (u[2] >= m.y /\ u[1] >= m.x)
             PROVE  m.screen[u] = BLANK
  BY <1>0 DEF BlankAfter
<1>1. u[1] \in Int /\ u[2] \in Int
  BY PixelPair, ScreenAssumption
<1>2. /\ ~(u[1] \in t.x .. (t.x + w - 1) /\ u[2] \in t.y .. (t.y + h - 1))
      /\ u[2] > t.y + CharHeight(t) - 1 \/ (u[2] >= t.y /\ u[1] >= t.x)
  BY <1>0, <1>1
<1>3. t.screen[u] = BLANK
  BY <1>2 DEF BlankAfter
<1> QED BY <1>2, <1>3, DrawnIs

\* The text grows by the glyph.
LEMMA GlyphStands ==
  ASSUME NEW t, NEW w, NEW h, NEW W, NEW col, NEW row, Cursor(t, w, h, W, col, row), col < W,
         NEW text \in Seq(Glyphs), NEW c \in Glyphs, Stands(t, w, h, W, col, row, text),
         NEW m, m.screen = Drawn(t, c).screen
  PROVE  Stands(m, w, h, W, col + 1, row, text \o <<c>>)
<1> DEFINE n == Len(text)
           next == text \o <<c>>
<1>0. n \in Nat /\ W \in Nat \ {0} /\ col \in Nat /\ row \in Nat
  BY LenProperties, CursorFacts
<1>1. /\ Len(next) = n + 1 /\ next[n + 1] = c
      /\ \A k \in 1 .. n : next[k] = text[k]
  <2>1. <<c>> \in Seq(Glyphs) /\ Len(<<c>>) = 1 /\ <<c>>[1] = c
    OBVIOUS
  <2>2. /\ Len(next) = Len(text) + Len(<<c>>)
        /\ \A k \in 1 .. Len(text) + Len(<<c>>) :
             next[k] = IF k <= Len(text) THEN text[k] ELSE <<c>>[k - Len(text)]
    BY <2>1, ConcatProperties
  <2> HIDE DEF next
  <2> QED BY <1>0, <2>1, <2>2
<1> HIDE DEF next
<1> SUFFICES ASSUME NEW i \in 0 .. (W - 1), NEW j \in Nat,
                    Before(W, col + 1, row, i, j) \in 1 .. Len(next)
             PROVE  m.screen[<<i * w, j * h>>] = next[Len(next) + 1 - Before(W, col + 1, row, i, j)]
  BY DEF Stands, next
<1> DEFINE b == Before(W, col, row, i, j)
<1>2. Before(W, col + 1, row, i, j) = b + 1 /\ b \in Int
  <2> DEFINE p == row * W
             q == j * W
  <2>1. p \in Int /\ q \in Int
    BY <1>0, Products
  <2>2. Before(W, col + 1, row, i, j) = (p + (col + 1)) - (q + i) /\ b = (p + col) - (q + i)
    BY DEF Before
  <2> HIDE DEF p, q, b
  <2> QED BY <1>0, <2>1, <2>2
<1>3. CASE b = 0
  <2>1. j = row /\ i = col
    BY <1>0, <1>3, BeforeIs
  <2>2. /\ <<i * w, j * h>> \in Pixels
        /\ i * w \in t.x .. (t.x + w - 1) /\ j * h \in t.y .. (t.y + h - 1)
    <3>1. j * h < HEIGHT
      <4>1. /\ t.y = row * h /\ t.y \in Nat /\ h \in Nat \ {0} /\ t.y + h <= HEIGHT
            /\ HEIGHT \in Nat
        BY CursorFacts
      <4>2. j * h = t.y
        BY <2>1, <4>1
      <4> QED BY <4>1, <4>2
    <3> QED BY <2>1, <3>1, CellPixel
  <2> DEFINE u == <<i * w, j * h>>
  <2>3. u \in Pixels /\ u[1] \in t.x .. (t.x + w - 1) /\ u[2] \in t.y .. (t.y + h - 1)
    BY <2>2
  <2> HIDE DEF u
  <2>4. Drawn(t, c).screen[u] = c
    BY <2>3, DrawnIs
  <2>5. Len(next) + 1 - Before(W, col + 1, row, i, j) = n + 1
    BY <1>0, <1>1, <1>2, <1>3
  <2> QED BY <1>1, <2>4, <2>5 DEF u
<1>4. CASE b >= 1
  <2>1. b \in 1 .. n
    BY <1>0, <1>1, <1>2, <1>4
  <2>2. t.screen[<<i * w, j * h>>] = text[n + 1 - b]
    BY <2>1 DEF Stands
  <2>3. Drawn(t, c).screen[<<i * w, j * h>>] = t.screen[<<i * w, j * h>>]
    <3>1. col <= W
      BY <1>0
    <3> QED BY <1>4, <3>1, CellsBefore
  <2>4. Len(next) + 1 - Before(W, col + 1, row, i, j) = n + 1 - b /\ n + 1 - b \in 1 .. n
    BY <1>0, <1>1, <1>2, <2>1
  <2> QED BY <1>1, <2>2, <2>3, <2>4
<1>5. b >= 0
  BY <1>0, <1>1, <1>2
<1> HIDE DEF b
<1> QED BY <1>2, <1>3, <1>4, <1>5

\* A backspace goes to the cell before, in the row above from the first column,
\* and draws a blank there; in the corner of the screen it does nothing.
LEMMA BackIs ==
  ASSUME NEW t, NEW w, NEW h, NEW W, NEW col, NEW row, Cursor(t, w, h, W, col, row), col < W
  PROVE  \/ col = 0 /\ row = 0 /\ video_backSpace(t) = t
         \/ \E p, k, r : /\ Cursor(p, w, h, W, k, r) /\ k < W /\ p.screen = t.screen
                         /\ video_backSpace(t) = Drawn(p, BLANK)
                         /\ \/ col >= 1 /\ k = col - 1 /\ r = row
                            \/ col = 0 /\ k = W - 1 /\ r = row - 1
<1>0. /\ CharWidth(t) = w /\ CharHeight(t) = h /\ w \in Nat \ {0} /\ h \in Nat \ {0}
      /\ col \in Nat /\ row \in Nat /\ W \in Nat \ {0} /\ WIDTH = W * w /\ WIDTH \in Nat
      /\ t.x = col * w /\ t.y = row * h /\ t.y + h <= HEIGHT /\ HEIGHT \in Nat /\ IsTerminal(t)
      /\ t.scale \in 1 .. 3
  BY CursorFacts
<1>1. /\ t.x >= w <=> col >= 1
      /\ t.y >= h <=> row >= 1
      /\ col >= 1 => t.x - w = (col - 1) * w /\ col - 1 \in Nat
      /\ row >= 1 => t.y - h = (row - 1) * h /\ row - 1 \in Nat /\ (row - 1) * h + h <= HEIGHT
      /\ WIDTH - w = (W - 1) * w /\ W - 1 \in Nat
  <2>1. t.x \in Nat /\ (t.x >= w <=> col >= 1) /\ (col >= 1 => t.x - w = (col - 1) * w)
    BY <1>0, OneLess
  <2>2. t.y \in Nat /\ (t.y >= h <=> row >= 1) /\ (row >= 1 => t.y - h = (row - 1) * h)
    BY <1>0, OneLess
  <2>3. WIDTH - w = (W - 1) * w
    <3>1. W \in Nat /\ W >= 1
      BY <1>0
    <3> QED BY <1>0, <3>1, OneLess
  <2>4. row >= 1 => (row - 1) * h + h <= HEIGHT
    <3> DEFINE z == (row - 1) * h
    <3> HIDE DEF z
    <3>1. row >= 1 => t.y - h = z
      BY <2>2 DEF z
    <3>2. row >= 1 => z + h <= HEIGHT
      BY <1>0, <2>2, <3>1
    <3> QED BY <3>2 DEF z
  <2>5. (col >= 1 => col - 1 \in Nat) /\ (row >= 1 => row - 1 \in Nat) /\ W - 1 \in Nat
    BY <1>0
  <2> QED BY <2>1, <2>2, <2>3, <2>4, <2>5
<1>2. CASE col >= 1
  <2> DEFINE x == t.x - w
             p == Moved(t, x)
             k == col - 1
  <2>1. video_backSpace(t) = Drawn(p, BLANK)
    <3>1. video_backSpace(t) = Drawn([t EXCEPT !.x = @ - CharWidth(t)], BLANK)
      BY <1>0, <1>1, <1>2 DEF video_backSpace
    <3> QED BY <1>0, <3>1 DEF Moved
  <2>2. x = k * w /\ k \in Nat /\ k < W
    BY <1>0, <1>1, <1>2
  <2> HIDE DEF x, k
  <2>3. Cursor(p, w, h, W, k, row) /\ p.screen = t.screen /\ p.x = x /\ p.y = t.y
    BY <2>2, MovedCursor
  <2> HIDE DEF p
  <2> QED BY <1>2, <2>1, <2>2, <2>3 DEF k
<1>3. CASE col = 0 /\ row >= 1
  <2> DEFINE x == WIDTH - w
             y == t.y - h
             p == At(t, x, y)
             k == W - 1
             r == row - 1
  <2>1. video_backSpace(t) = Drawn(p, BLANK)
    <3>1. ~(t.x >= CharWidth(t)) /\ t.y >= CharHeight(t)
      BY <1>0, <1>1, <1>3
    <3>2. video_backSpace(t) = Drawn([t EXCEPT !.x = WIDTH - CharWidth(t),
                                               !.y = @ - CharHeight(t)], BLANK)
      BY <3>1 DEF video_backSpace
    <3> QED BY <1>0, <3>2 DEF At
  <2>2. x = k * w /\ k \in Nat /\ k < W /\ y = r * h /\ r \in Nat /\ r * h + h <= HEIGHT
    BY <1>0, <1>1, <1>3
  <2> HIDE DEF x, y, k, r
  <2>3. IsTerminal(p) /\ p.screen = t.screen /\ p.x = x /\ p.y = y /\ p.scale = t.scale
    BY <1>0, CursorSet, MovedIs
  <2> HIDE DEF p
  <2>4. CharWidth(p) = w /\ CharHeight(p) = h /\ p.scale \in 1 .. 3
    BY <1>0, <2>3, SameSize
  <2>5. Cursor(p, w, h, W, k, r)
    BY <1>0, <2>2, <2>3, <2>4 DEF Cursor
  <2> QED BY <1>3, <2>1, <2>2, <2>3, <2>5 DEF k, r
<1>4. CASE col = 0 /\ row = 0
  <2>1. ~(t.x >= CharWidth(t)) /\ ~(t.y >= CharHeight(t))
    BY <1>0, <1>1, <1>4
  <2> QED BY <1>4, <2>1 DEF video_backSpace
<1> QED BY <1>0, <1>2, <1>3, <1>4

LEMMA BackBlank ==
  ASSUME NEW t, NEW w, NEW h, NEW W, NEW col, NEW row, Cursor(t, w, h, W, col, row), BlankAfter(t),
         NEW p, NEW k, NEW r, Cursor(p, w, h, W, k, r), k < W, p.screen = t.screen,
         \/ col >= 1 /\ k = col - 1 /\ r = row
         \/ col = 0 /\ k = W - 1 /\ r = row - 1
  PROVE  BlankAfter(Drawn(p, BLANK))
<1> DEFINE d == Drawn(p, BLANK)
<1>0. /\ w \in Nat \ {0} /\ h \in Nat \ {0} /\ CharHeight(t) = h /\ CharHeight(p) = h
      /\ col \in Nat /\ row \in Nat /\ W \in Nat \ {0} /\ WIDTH = W * w /\ WIDTH \in Nat
      /\ t.x = col * w /\ t.y = row * h /\ p.x = k * w /\ p.y = r * h
      /\ t.x \in Nat /\ t.y \in Nat /\ p.x \in Nat /\ p.y \in Nat /\ k \in Nat /\ r \in Nat
      /\ IsTerminal(p)
  BY CursorFacts
<1>1. \/ p.x = t.x - w /\ p.y = t.y
      \/ t.x = 0 /\ p.x = WIDTH - w /\ p.y = t.y - h
  <2>1. CASE col >= 1 /\ k = col - 1 /\ r = row
    BY <1>0, <2>1, OneLess
  <2>2. CASE col = 0 /\ k = W - 1 /\ r = row - 1
    <3>1. W \in Nat /\ W >= 1 /\ row >= 1
      BY <1>0, <2>2
    <3>2. W * w - w = (W - 1) * w
      BY <1>0, <3>1, OneLess
    <3>3. row * h - h = (row - 1) * h
      BY <1>0, <3>1, OneLess
    <3>4. 0 * w = 0
      BY <1>0, Z3
    <3> QED BY <1>0, <2>2, <3>2, <3>3, <3>4
  <2> QED BY <2>1, <2>2
<1>2. CharHeight(d) = h /\ d.x = p.x /\ d.y = p.y
  BY <1>0, DrawnKeeps, SameSize
<1> HIDE DEF d
<1> SUFFICES ASSUME NEW u \in Pixels, u[2] > d.y + h - 1 \/ (u[2] >= d.y /\ u[1] >= d.x)
             PROVE  d.screen[u] = BLANK
  BY <1>2 DEF BlankAfter, d
<1>3. u[1] \in 0 .. (WIDTH - 1) /\ u[2] \in Int
  BY PixelPair, ScreenAssumption
<1>4. CASE u[1] \in p.x .. (p.x + w - 1) /\ u[2] \in p.y .. (p.y + h - 1)
  BY <1>4, DrawnIs DEF d
<1>5. CASE ~(u[1] \in p.x .. (p.x + w - 1) /\ u[2] \in p.y .. (p.y + h - 1))
  <2>1. u[2] > t.y + CharHeight(t) - 1 \/ (u[2] >= t.y /\ u[1] >= t.x)
    BY <1>0, <1>1, <1>2, <1>3, <1>5
  <2>2. t.screen[u] = BLANK
    BY <2>1 DEF BlankAfter
  <2> QED BY <1>5, <2>2, DrawnIs DEF d
<1> QED BY <1>4, <1>5

\* The text loses its last character.
LEMMA BackStands ==
  ASSUME NEW t, NEW w, NEW h, NEW W, NEW col, NEW row, Cursor(t, w, h, W, col, row), col < W,
         NEW text \in Seq(Glyphs), NEW c \in Glyphs, Stands(t, w, h, W, col, row, text \o <<c>>),
         NEW p, NEW k, NEW r, Cursor(p, w, h, W, k, r), k < W, p.screen = t.screen,
         \/ col >= 1 /\ k = col - 1 /\ r = row
         \/ col = 0 /\ k = W - 1 /\ r = row - 1
  PROVE  Stands(Drawn(p, BLANK), w, h, W, k, r, text)
<1> DEFINE n == Len(text)
           full == text \o <<c>>
           d == Drawn(p, BLANK)
<1>0. /\ n \in Nat /\ W \in Nat \ {0} /\ col \in Nat /\ row \in Nat
      /\ k \in Nat /\ r \in Nat
  BY LenProperties, CursorFacts
<1>1. Len(full) = n + 1 /\ \A q \in 1 .. n : full[q] = text[q]
  <2>1. <<c>> \in Seq(Glyphs) /\ Len(<<c>>) = 1
    OBVIOUS
  <2>2. /\ Len(full) = Len(text) + Len(<<c>>)
        /\ \A q \in 1 .. Len(text) + Len(<<c>>) :
             full[q] = IF q <= Len(text) THEN text[q] ELSE <<c>>[q - Len(text)]
    BY <2>1, ConcatProperties
  <2> HIDE DEF full
  <2> QED BY <1>0, <2>1, <2>2
<1> HIDE DEF full, d
<1> SUFFICES ASSUME NEW i \in 0 .. (W - 1), NEW j \in Nat, Before(W, k, r, i, j) \in 1 .. n
             PROVE  d.screen[<<i * w, j * h>>] = text[n + 1 - Before(W, k, r, i, j)]
  BY DEF Stands, d
<1> DEFINE b == Before(W, k, r, i, j)
<1>2. Before(W, col, row, i, j) = b + 1 /\ b \in Int
  <2> DEFINE a == row * W
             e == r * W
             q == j * W
  <2>1. a \in Int /\ e \in Int /\ q \in Int
    BY <1>0, Products
  <2>2. r = row => e = a
    OBVIOUS
  <2>3. r = row - 1 => e = a - W
    <3> SUFFICES ASSUME r = row - 1 PROVE r * W = row * W - W
      OBVIOUS
    <3>1. row \in Nat /\ row >= 1
      BY <1>0
    <3> QED BY <1>0, <3>1, OneLess
  <2>4. Before(W, col, row, i, j) = (a + col) - (q + i) /\ b = (e + k) - (q + i)
    BY DEF Before
  <2> HIDE DEF a, e, q, b
  <2> QED BY <1>0, <2>1, <2>2, <2>3, <2>4
<1>3. t.screen[<<i * w, j * h>>] = full[Len(full) + 1 - (b + 1)]
  <2>1. Before(W, col, row, i, j) \in 1 .. Len(full)
    BY <1>0, <1>1, <1>2
  <2> QED BY <1>2, <2>1 DEF Stands, full
<1>4. Len(full) + 1 - (b + 1) = n + 1 - b /\ n + 1 - b \in 1 .. n
  BY <1>0, <1>1, <1>2
<1>5. Drawn(p, BLANK).screen[<<i * w, j * h>>] = p.screen[<<i * w, j * h>>]
  <2>1. k <= W /\ Before(W, k, r, i, j) >= 1
    BY <1>0
  <2> QED BY <2>1, CellsBefore
<1> HIDE DEF b
<1> QED BY <1>1, <1>3, <1>4, <1>5 DEF d, b

\* A tab stop is a cell, to the right of the cursor or past the row.
LEMMA TabIs ==
  ASSUME NEW t, NEW w, NEW h, NEW W, NEW col, NEW row, Cursor(t, w, h, W, col, row)
  PROVE  \E m, k : /\ Cursor(m, w, h, W, k, row) /\ m.screen = t.screen
                   /\ m.x >= t.x /\ m.y = t.y /\ m.x \in Nat
                   /\ video_tab(t) = WrapLine(m)
<1> DEFINE step == w * TAB_CELLS
           q == t.x \div step
           k == (q + 1) * TAB_CELLS
           x == (q + 1) * step
           m == Moved(t, x)
<1>0. w \in Nat \ {0} /\ CharWidth(t) = w /\ t.x \in Nat /\ TAB_CELLS \in Nat \ {0}
  BY CursorFacts, TabAssumption
<1>1. step \in Nat \ {0}
  BY <1>0, Z3
<1>2. q \in Nat /\ x \in Nat /\ x >= t.x
  <2> HIDE DEF step
  <2> DEFINE p == q * step
             r == t.x % step
  <2>1. q \in Nat /\ t.x = p + r /\ r \in 0 .. (step - 1)
    BY <1>0, <1>1, Quotient
  <2> HIDE DEF q, r
  <2>2. x = p + step /\ p \in Nat
    BY <1>1, <2>1, Products
  <2> HIDE DEF p
  <2> QED BY <1>0, <1>1, <2>1, <2>2
<1>3. k \in Nat /\ x = k * w
  <2> HIDE DEF q
  <2> QED BY <1>0, <1>2, Z3
<1>4. video_tab(t) = WrapLine(m)
  <2>1. video_tab(t) = WrapLine([t EXCEPT !.x = ((t.x \div (CharWidth(t) * TAB_CELLS)) + 1)
                                                 * (CharWidth(t) * TAB_CELLS)])
    BY Zenon DEF video_tab
  <2> QED BY <1>0, <2>1 DEF Moved
<1> HIDE DEF x, k
<1>5. Cursor(m, w, h, W, k, row) /\ m.screen = t.screen /\ m.x = x /\ m.y = t.y
  BY <1>3, MovedCursor
<1> HIDE DEF m
<1> QED BY <1>2, <1>4, <1>5

\* In the grid, clean is what the operations above keep.
LEMMA CursorClean ==
  ASSUME NEW t, NEW w, NEW h, NEW W, NEW col, NEW row, Cursor(t, w, h, W, col, row), BlankAfter(t)
  PROVE  Clean(t)
BY DEF Clean

LEMMA NewLineClean ==
  ASSUME NEW t, NEW w, NEW h, NEW W, NEW col, NEW row, Cursor(t, w, h, W, col, row), BlankAfter(t)
  PROVE  Clean(video_newLine(t))
<1>1. BlankAfter(video_newLine(t))
  BY NewLineBlank
<1>2. \E k, r : Cursor(video_newLine(t), w, h, W, k, r)
  BY NewLineCursor, Zenon
<1> QED BY <1>1, <1>2, CursorClean

\* Whatever is written, nothing is left at the cursor or after it.
LEMMA PutCharClean ==
  ASSUME NEW t, OnScreen(t), Clean(t), NEW c
  PROVE  Clean(video_putChar(t, c))
<1>1. CASE ~Fits(t)
  <2>1. video_putChar(t, c).scale = t.scale
    BY PutCharOnScreen
  <2> QED BY <1>1, <2>1, SameSize DEF Clean
<1>2. CASE Fits(t)
  <2>1. BlankAfter(t)
    BY <1>2 DEF Clean
  <2>2. PICK w, h, W, col, row : Cursor(t, w, h, W, col, row) /\ col < W
    BY <1>2, CursorExists
  <2>3. CASE c = NL
    <3>1. video_putChar(t, c) = video_newLine(t)
      BY <2>3 DEF video_putChar, NL, BS, TAB
    <3> QED BY <2>1, <2>2, <3>1, NewLineClean
  <2>4. CASE c = BS
    <3>1. video_putChar(t, c) = video_backSpace(t)
      BY <2>4 DEF video_putChar, NL, BS, TAB
    <3>2. CASE video_backSpace(t) = t
      BY <3>1, <3>2
    <3>3. CASE video_backSpace(t) # t
      <4>1. PICK p, k, r : /\ Cursor(p, w, h, W, k, r) /\ k < W /\ p.screen = t.screen
                           /\ video_backSpace(t) = Drawn(p, BLANK)
                           /\ \/ col >= 1 /\ k = col - 1 /\ r = row
                              \/ col = 0 /\ k = W - 1 /\ r = row - 1
        BY <2>2, <3>3, BackIs
      <4>2. BlankAfter(Drawn(p, BLANK))
        BY <2>1, <2>2, <4>1, BackBlank
      <4>3. Cursor(Drawn(p, BLANK), w, h, W, k, r)
        BY <4>1, DrawnCursor
      <4>4. Clean(Drawn(p, BLANK))
        BY <4>2, <4>3, CursorClean
      <4> QED BY <3>1, <4>1, <4>4
    <3> QED BY <3>2, <3>3
  <2>5. CASE c = TAB
    <3>1. video_putChar(t, c) = video_tab(t)
      BY <2>5 DEF video_putChar, NL, BS, TAB
    <3>2. PICK m, k : /\ Cursor(m, w, h, W, k, row) /\ m.screen = t.screen
                      /\ m.x >= t.x /\ m.y = t.y /\ m.x \in Nat
                      /\ video_tab(t) = WrapLine(m)
      BY <2>2, TabIs
    <3>3. BlankAfter(m)
      <4>1. CharHeight(m) = CharHeight(t) /\ t.x \in Int
        BY <2>2, <3>2, CursorFacts
      <4>2. \A u \in Pixels : u[1] \in Int
        BY PixelPair, ScreenAssumption
      <4> QED BY <2>1, <3>2, <4>1, <4>2 DEF BlankAfter
    <3>4. Clean(m) /\ Clean(video_newLine(m))
      BY <3>2, <3>3, CursorClean, NewLineClean
    <3>5. WrapLine(m) = m \/ WrapLine(m) = video_newLine(m)
      BY Zenon DEF WrapLine
    <3> QED BY <3>1, <3>2, <3>4, <3>5
  <2>6. CASE c \notin {NL, BS, TAB}
    <3>1. PICK m : /\ Cursor(m, w, h, W, col + 1, row) /\ m.screen = Drawn(t, c).screen
                   /\ m.x = t.x + w /\ m.y = t.y
                   /\ col + 1 < W => video_putChar(t, c) = m
                   /\ col + 1 = W => video_putChar(t, c) = video_newLine(m)
      BY <2>2, <2>6, GlyphIs
    <3>2. BlankAfter(m)
      BY <2>1, <2>2, <3>1, GlyphBlank
    <3>3. Clean(m) /\ Clean(video_newLine(m))
      BY <3>1, <3>2, CursorClean, NewLineClean
    <3>4. col + 1 < W \/ col + 1 = W
      BY <2>2 DEF Cursor
    <3> QED BY <3>1, <3>3, <3>4
  <2> QED BY <2>3, <2>4, <2>5, <2>6
<1> QED BY <1>1, <1>2

\* A character that is not a control is the next one of the text on the screen.
LEMMA PutCharShows ==
  ASSUME NEW t, OnScreen(t), Clean(t), NEW text \in Seq(Glyphs), Shows(t, text),
         NEW c \in Glyphs, c \notin {NL, BS, TAB}
  PROVE  Shows(video_putChar(t, c), text \o <<c>>)
<1> DEFINE next == text \o <<c>>
<1>0. next \in Seq(Glyphs)
  BY ConcatProperties
<1>1. CASE ~Fits(t)
  <2>1. video_putChar(t, c).scale = t.scale
    BY PutCharOnScreen
  <2> QED BY <1>1, <2>1, SameSize DEF Shows
<1>2. CASE Fits(t)
  <2>2. PICK w, h, W, col, row : Cursor(t, w, h, W, col, row) /\ col < W
    BY <1>2, CursorExists
  <2>3. Stands(t, w, h, W, col, row, text)
    BY <2>2, ShowsIs
  <2>4. PICK m : /\ Cursor(m, w, h, W, col + 1, row) /\ m.screen = Drawn(t, c).screen
                 /\ m.x = t.x + w /\ m.y = t.y
                 /\ col + 1 < W => video_putChar(t, c) = m
                 /\ col + 1 = W => video_putChar(t, c) = video_newLine(m)
    BY <2>2, GlyphIs
  <2>5. Stands(m, w, h, W, col + 1, row, next)
    BY <2>2, <2>3, <2>4, GlyphStands
  <2> HIDE DEF next
  <2>6. CASE col + 1 < W
    BY <2>4, <2>5, <2>6, ShowsIs DEF next
  <2>7. CASE col + 1 = W
    <3>1. Cursor(m, w, h, W, W, row) /\ Stands(m, w, h, W, W, row, next)
      BY <2>4, <2>5, <2>7
    <3>2. Shows(video_newLine(m), next)
      BY <1>0, <3>1, NewLineStands
    <3> QED BY <2>4, <2>7, <3>2 DEF next
  <2>8. col + 1 < W \/ col + 1 = W
    BY <2>2 DEF Cursor
  <2> QED BY <2>6, <2>7, <2>8
<1> QED BY <1>1, <1>2

\* A backspace takes the last character of the text off the screen.
LEMMA BackSpaceShows ==
  ASSUME NEW t, OnScreen(t), Clean(t), NEW text \in Seq(Glyphs), NEW c \in Glyphs,
         Shows(t, text \o <<c>>)
  PROVE  Shows(video_putChar(t, BS), text)
<1> DEFINE full == text \o <<c>>
<1>0. video_putChar(t, BS) = video_backSpace(t)
  BY DEF video_putChar, NL, BS, TAB
<1>1. CASE ~Fits(t)
  <2>1. video_putChar(t, BS).scale = t.scale
    BY PutCharOnScreen
  <2> QED BY <1>1, <2>1, SameSize DEF Shows
<1>2. CASE Fits(t)
  <2>2. PICK w, h, W, col, row : Cursor(t, w, h, W, col, row) /\ col < W
    BY <1>2, CursorExists
  <2> HIDE DEF full
  <2>3. Stands(t, w, h, W, col, row, full)
    BY <2>2, ShowsIs DEF full
  <2>4. CASE col = 0 /\ row = 0 /\ video_backSpace(t) = t
    <3>1. Stands(t, w, h, W, 0, 0, text)
      <4>1. W \in Nat \ {0}
        BY <2>2 DEF Cursor
      <4>2. \A i \in 0 .. (W - 1), j \in Nat : ~(Before(W, 0, 0, i, j) >= 1)
        BY <4>1, BeforeIs
      <4> QED BY <4>2 DEF Stands
    <3> QED BY <1>0, <2>2, <2>4, <3>1, ShowsIs
  <2>5. CASE ~(col = 0 /\ row = 0 /\ video_backSpace(t) = t)
    <3>1. PICK p, k, r : /\ Cursor(p, w, h, W, k, r) /\ k < W /\ p.screen = t.screen
                         /\ video_backSpace(t) = Drawn(p, BLANK)
                         /\ \/ col >= 1 /\ k = col - 1 /\ r = row
                            \/ col = 0 /\ k = W - 1 /\ r = row - 1
      BY <2>2, <2>5, BackIs
    <3>2. Stands(Drawn(p, BLANK), w, h, W, k, r, text)
      BY <2>2, <2>3, <3>1, BackStands DEF full
    <3>3. Cursor(Drawn(p, BLANK), w, h, W, k, r)
      BY <3>1, DrawnCursor
    <3> QED BY <1>0, <3>1, <3>2, <3>3, ShowsIs
  <2> QED BY <2>4, <2>5
<1> QED BY <1>1, <1>2

LEMMA ClearClean ==
  ASSUME NEW t, IsTerminal(t), t.scale \in 1 .. 3
  PROVE  Clean(video_clearScreen(t))
<1> DEFINE v == [t EXCEPT !.screen = NoText]
           e == video_clearScreen(t)
<1>1. IsTerminal(v) /\ v.screen = NoText
  BY DEF IsTerminal
<1>2. e = At(v, 0, 0)
  BY Zenon DEF video_clearScreen, At
<1> HIDE DEF v, e
<1>3. e.screen = NoText
  BY <1>1, <1>2, MovedIs
<1>4. BlankAfter(e)
  BY <1>3 DEF BlankAfter, NoText
<1> QED BY <1>4 DEF Clean, e

-----------------------------------------------------------------------------
(* The line in the shell.                                                  *)

Printable == Glyphs \ {NL, BS, TAB}

\* What readLine has been asked for and what is typed, and what of the echo is
\* still to be written: all of the question and perhaps more, its rest or that
\* of the echo, or what is left of the three characters that erase one.
Reading(asked, typing, o, t) ==
  \/ typing = <<>> /\ \E before \in Seq(Glyphs) : o = before \o asked
  \/ o \in Seq(Printable)
     /\ \E text \in Seq(Printable) : text \o o = asked \o typing /\ Shows(t, text)
  \/ o = <<BS, BLANK, BS>> /\ \E c \in Printable : Shows(t, (asked \o typing) \o <<c>>)
  \/ o = <<BLANK, BS>> /\ Shows(t, asked \o typing)
  \/ o = <<BS>> /\ Shows(t, (asked \o typing) \o <<BLANK>>)

Plain ==
  /\ Keys \subseteq Printable
  /\ \A name \in {"TP-ARQUI-", ":~$ ", "usuario", "set-user", "font-size"} :
       Texts[name] \in Seq(Printable)

LineInv ==
  /\ IInv /\ Clean(term)
  /\ buf \in Seq(Printable) /\ shellUser \in Seq(Printable)
  /\ mode \notin Reads => buf = <<>>
  /\ mode \in Reads => Reading(Asked, buf, out, term)

LEMMA GlyphFacts ==
  /\ BLANK \in Printable /\ Printable \subseteq Glyphs
  /\ \A text \in Seq(Printable) : text \in Seq(Glyphs)
  /\ BLANK \in Glyphs /\ NL \in Glyphs /\ BS \in Glyphs
<1>1. BLANK \in Glyphs /\ NL \in Glyphs /\ BS \in Glyphs
  BY TextAssumption
<1>2. BLANK \notin {NL, BS, TAB}
  BY DEF BLANK, NL, BS, TAB
<1>3. BLANK \in Printable /\ Printable \subseteq Glyphs
  BY <1>1, <1>2 DEF Printable
<1>4. \A text \in Seq(Printable) : text \in Seq(Glyphs)
  BY <1>3, SeqMonotonic
<1> QED BY <1>1, <1>3, <1>4

\* Nothing has to stand on the screen for an empty text.
LEMMA NothingShows == ASSUME NEW t PROVE Shows(t, <<>>)
<1>1. Len(<<>>) = 0
  OBVIOUS
<1> QED BY <1>1 DEF Shows, Stands

LEMMA OneGlyph ==
  ASSUME NEW S, NEW c \in S
  PROVE  <<c>> \in Seq(S) /\ Len(<<c>>) = 1 /\ <<c>>[1] = c
OBVIOUS

LEMMA FirstAndRest ==
  ASSUME NEW S, NEW o \in Seq(S), o # <<>>
  PROVE  Head(o) \in S /\ Tail(o) \in Seq(S) /\ o = <<Head(o)>> \o Tail(o)
<1> DEFINE h == <<Head(o)>>
           r == Tail(o)
<1>1. Head(o) \in S /\ r \in Seq(S) /\ Len(r) = Len(o) - 1
      /\ \A i \in 1 .. Len(r) : r[i] = o[i + 1]
  BY HeadTailProperties
<1>2. h \in Seq(S) /\ Len(h) = 1 /\ h[1] = o[1]
  BY <1>1, OneGlyph
<1>3. Len(o) \in Nat
  BY LenProperties
<1> HIDE DEF h, r
<1>s. h \in Seq(S) /\ r \in Seq(S)
  BY <1>1, <1>2
<1>4. /\ h \o r \in Seq(S) /\ Len(h \o r) = Len(h) + Len(r)
      /\ \A i \in 1 .. Len(h) + Len(r) : (h \o r)[i] = IF i <= Len(h) THEN h[i] ELSE r[i - Len(h)]
  BY <1>s, ConcatProperties, Zenon
<1>5. \A i \in 1 .. Len(o) : (h \o r)[i] = o[i]
  BY <1>1, <1>2, <1>3, <1>4
<1>6. Len(h \o r) = Len(o)
  BY <1>1, <1>2, <1>3, <1>4
<1>7. h \o r = o
  BY <1>4, <1>5, <1>6, SeqEqual
<1> QED BY <1>1, <1>7 DEF h, r

\* Writing the first character of o leaves the rest.
LEMMA RestOf ==
  ASSUME NEW S, NEW c \in S, NEW r \in Seq(S)
  PROVE  Head(<<c>> \o r) = c /\ Tail(<<c>> \o r) = r
<1> DEFINE h == <<c>>
           o == h \o r
<1>1. h \in Seq(S) /\ Len(h) = 1 /\ h[1] = c
  BY OneGlyph
<1>2. Len(r) \in Nat
  BY LenProperties
<1> HIDE DEF h
<1>3. /\ o \in Seq(S) /\ Len(o) = Len(h) + Len(r)
      /\ \A i \in 1 .. Len(h) + Len(r) : o[i] = IF i <= Len(h) THEN h[i] ELSE r[i - Len(h)]
  BY <1>1, ConcatProperties, Zenon
<1> HIDE DEF o
<1>4. o # <<>>
  BY <1>1, <1>2, <1>3
<1>5. Head(o) = o[1] /\ Tail(o) \in Seq(S) /\ Len(Tail(o)) = Len(o) - 1
      /\ \A i \in 1 .. Len(Tail(o)) : Tail(o)[i] = o[i + 1]
  BY <1>3, <1>4, HeadTailProperties
<1>6. Head(o) = c
  BY <1>1, <1>2, <1>3, <1>5
<1>7. Len(Tail(o)) = Len(r) /\ \A i \in 1 .. Len(Tail(o)) : Tail(o)[i] = r[i]
  BY <1>1, <1>2, <1>3, <1>5
<1>8. Tail(o) = r
  BY <1>5, <1>7, SeqEqual
<1> QED BY <1>6, <1>8 DEF o, h

\* The next character of the echo.
LEMMA ReadingPut ==
  ASSUME NEW asked \in Seq(Printable), NEW typing \in Seq(Printable), NEW o, o # <<>>,
         NEW t, OnScreen(t), Clean(t), Reading(asked, typing, o, t)
  PROVE  Reading(asked, typing, Tail(o), video_putChar(t, Head(o)))
<1> DEFINE n == video_putChar(t, Head(o))
           shown == asked \o typing
<1>0. /\ shown \in Seq(Printable) /\ shown \in Seq(Glyphs) /\ asked \in Seq(Glyphs)
      /\ BLANK \in Printable /\ BLANK \in Glyphs /\ BS \in Glyphs
  BY ConcatProperties, GlyphFacts
<1>1. ASSUME o \in Seq(Printable), NEW text \in Seq(Printable), text \o o = shown, Shows(t, text)
      PROVE  Reading(asked, typing, Tail(o), n)
  <2> DEFINE c == Head(o)
             r == Tail(o)
             next == text \o <<c>>
  <2>1. c \in Printable /\ r \in Seq(Printable) /\ o = <<c>> \o r
    BY <1>1, FirstAndRest
  <2> HIDE DEF c, r
  <2>2. <<c>> \in Seq(Printable)
    BY <2>1
  <2>3. next \in Seq(Printable) /\ next \o r = shown
    <3>1. (text \o <<c>>) \o r = text \o (<<c>> \o r)
      BY <2>1, <2>2, ConcatAssociative
    <3>2. text \o <<c>> \in Seq(Printable)
      BY <2>2, ConcatProperties
    <3> QED BY <1>1, <2>1, <3>1, <3>2
  <2>4. Shows(video_putChar(t, c), next)
    <3>1. text \in Seq(Glyphs) /\ c \in Glyphs /\ c \notin {NL, BS, TAB}
      BY <2>1, GlyphFacts DEF Printable
    <3> QED BY <1>1, <3>1, PutCharShows
  <2> HIDE DEF next, shown
  <2> QED BY <2>1, <2>3, <2>4 DEF Reading, c, r, shown
<1>2. CASE typing = <<>> /\ \E before \in Seq(Glyphs) : o = before \o asked
  <2>1. PICK before \in Seq(Glyphs) : o = before \o asked
    BY <1>2
  <2>2. CASE before = <<>>
    <3>1. o = asked /\ o = shown /\ <<>> \o o = shown
      BY <1>0, <1>2, <2>1, <2>2, ConcatEmptySeq
    <3>2. <<>> \in Seq(Printable) /\ o \in Seq(Printable)
      BY <3>1
    <3> QED BY <1>1, <3>1, <3>2, NothingShows
  <2>3. CASE before # <<>>
    <3> DEFINE c == Head(before)
               r == Tail(before)
    <3>1. c \in Glyphs /\ r \in Seq(Glyphs) /\ before = <<c>> \o r
      BY <2>3, FirstAndRest
    <3> HIDE DEF c, r
    <3>2. <<c>> \in Seq(Glyphs) /\ r \o asked \in Seq(Glyphs)
      BY <1>0, <3>1, OneGlyph, ConcatProperties
    <3>3. o = <<c>> \o (r \o asked)
      BY <1>0, <2>1, <3>1, <3>2, ConcatAssociative
    <3>4. Tail(o) = r \o asked
      BY <3>1, <3>2, <3>3, RestOf
    <3> QED BY <1>2, <3>1, <3>4 DEF Reading
  <2> QED BY <2>2, <2>3
<1>3. CASE o = <<BS, BLANK, BS>> /\ \E c \in Printable : Shows(t, shown \o <<c>>)
  <2>1. Head(o) = BS /\ Tail(o) = <<BLANK, BS>>
    BY <1>3
  <2>2. PICK c \in Printable : Shows(t, shown \o <<c>>)
    BY <1>3
  <2> HIDE DEF shown
  <2>3. Shows(video_putChar(t, BS), shown)
    BY <1>0, <2>2, GlyphFacts, BackSpaceShows
  <2> QED BY <2>1, <2>3 DEF Reading, shown
<1>4. CASE o = <<BLANK, BS>> /\ Shows(t, shown)
  <2>1. Head(o) = BLANK /\ Tail(o) = <<BS>>
    BY <1>4
  <2> HIDE DEF shown
  <2>2. Shows(video_putChar(t, BLANK), shown \o <<BLANK>>)
    BY <1>0, <1>4, PutCharShows DEF Printable
  <2> QED BY <2>1, <2>2 DEF Reading, shown
<1>5. CASE o = <<BS>> /\ Shows(t, shown \o <<BLANK>>)
  <2>1. Head(o) = BS /\ Tail(o) = <<>>
    BY <1>5
  <2> HIDE DEF shown
  <2>2. Shows(video_putChar(t, BS), shown)
    BY <1>0, <1>5, BackSpaceShows
  <2>3. <<>> \in Seq(Printable) /\ shown \o <<>> = shown
    BY <1>0, ConcatEmptySeq
  <2> QED BY <1>0, <2>1, <2>2, <2>3 DEF Reading, shown
<1>6. CASE o \in Seq(Printable) /\ \E text \in Seq(Printable) : text \o o = shown /\ Shows(t, text)
  BY <1>1, <1>6
<1> QED BY <1>2, <1>3, <1>4, <1>5, <1>6 DEF Reading

LEMMA CopyPrintable ==
  ASSUME NEW src \in Seq(Printable)
  PROVE  strncpy(src, MAX_USER_LENGTH) \in Seq(Printable)
<1> DEFINE a == Len(src)
           b == MAX_USER_LENGTH - 1
           k == Min({a, b})
<1>1. a \in Nat /\ b \in Int
  BY LengthAssumption, LenProperties
<1> HIDE DEF a, b
<1>2. \E x \in {a, b} : \A y \in {a, b} : x <= y
  BY <1>1
<1>3. k \in {a, b} /\ \A y \in {a, b} : k <= y
  BY <1>2, Zenon DEF Min
<1>4. k \in Int /\ k <= a
  BY <1>1, <1>3
<1> HIDE DEF k
<1>5. \A i \in 1 .. k : src[i] \in Printable
  BY <1>1, <1>4, ElementOfSeq DEF a
<1>6. SubSeq(src, 1, k) \in Seq(Printable)
  BY <1>4, <1>5, SubSeqProperties
<1> QED BY <1>6 DEF strncpy, k, a, b

LEMMA AskedPrintable ==
  ASSUME Plain, shellUser \in Seq(Printable)
  PROVE  /\ Prompt \in Seq(Printable) /\ Asked \in Seq(Printable)
         /\ mode = "line" => Asked = Prompt
         /\ mode = "user" => Asked = Texts["set-user"]
         /\ mode = "size" => Asked = Texts["font-size"]
<1>1. Texts["TP-ARQUI-"] \in Seq(Printable) /\ Texts[":~$ "] \in Seq(Printable)
      /\ Texts["set-user"] \in Seq(Printable) /\ Texts["font-size"] \in Seq(Printable)
  BY DEF Plain
<1>2. Texts["TP-ARQUI-"] \o shellUser \in Seq(Printable)
  BY <1>1, ConcatProperties
<1>3. Prompt \in Seq(Printable)
  BY <1>1, <1>2, ConcatProperties DEF Prompt
<1> QED BY <1>1, <1>3 DEF Asked

\* What is printed before a question.
LEMMA QuestionReading ==
  ASSUME NEW asked, NEW before \in Seq(Glyphs), NEW t
  PROVE  Reading(asked, <<>>, before \o asked, t)
BY DEF Reading

\* readLine waits for a key with the line on the screen.
LEMMA WaitingShows ==
  ASSUME Plain, LineInv, Waiting
  PROVE  Shows(term, Asked \o buf)
<1>1. mode \in Reads /\ out = <<>> /\ Reading(Asked, buf, <<>>, term)
  BY DEF Waiting, LineInv
<1>2. Asked \in Seq(Printable) /\ buf \in Seq(Printable) /\ Asked \in Seq(Glyphs)
  BY AskedPrintable, GlyphFacts DEF LineInv
<1>3. CASE buf = <<>> /\ \E before \in Seq(Glyphs) : <<>> = before \o Asked
  <2>1. Asked = <<>>
    <3>1. PICK before \in Seq(Glyphs) : before \o Asked = <<>>
      BY <1>3
    <3> HIDE DEF Asked
    <3>2. Len(before \o Asked) = Len(before) + Len(Asked) /\ Len(<<>>) = 0
      BY <1>2, ConcatProperties
    <3>3. Len(before) \in Nat /\ Len(Asked) \in Nat
      BY <1>2, LenProperties
    <3>4. Len(Asked) = 0
      BY <3>1, <3>2, <3>3
    <3> QED BY <1>2, <3>4, EmptySeq
  <2>2. Asked \o buf = <<>>
    BY <1>2, <1>3, <2>1, ConcatEmptySeq
  <2> QED BY <2>2, NothingShows
<1>4. CASE \E text \in Seq(Printable) : text \o <<>> = Asked \o buf /\ Shows(term, text)
  BY <1>4, ConcatEmptySeq
<1>5. <<>> # <<BS, BLANK, BS>> /\ <<>> # <<BLANK, BS>> /\ <<>> # <<BS>>
  OBVIOUS
<1> QED BY <1>1, <1>3, <1>4, <1>5 DEF Reading

LEMMA LineInit == Plain /\ Init => LineInv
<1> SUFFICES ASSUME Plain, Init PROVE LineInv
  OBVIOUS
<1>1. IInv
  BY InitInv
<1>2. Clean(term)
  <2>1. term.x = 0 /\ term.scale = 1 /\ term.screen = NoText
    BY DEF Init, Booted
  <2>2. BlankAfter(term)
    BY <2>1 DEF BlankAfter, NoText
  <2> QED BY <2>1, <2>2 DEF Clean
<1>3. buf = <<>> /\ buf \in Seq(Printable) /\ shellUser \in Seq(Printable)
  <2>1. buf = <<>> /\ shellUser = Texts["usuario"]
    BY DEF Init
  <2>2. Texts["usuario"] \in Seq(Printable)
    BY DEF Plain
  <2>3. <<>> \in Seq(Printable)
    OBVIOUS
  <2> QED BY <2>1, <2>2, <2>3
<1>4. mode = "line" /\ Asked = Prompt
  BY <1>3, AskedPrintable DEF Init
<1>5. Texts["welcome"] \in Seq(Glyphs) /\ out = Texts["welcome"] \o Prompt
  BY TextAssumption DEF Init, Messages
<1>6. Reading(Asked, buf, out, term)
  BY <1>3, <1>4, <1>5, QuestionReading
<1> QED BY <1>1, <1>2, <1>3, <1>4, <1>6 DEF LineInv, Reads

\* A command leaves an empty line and a question after what it prints.
LEMMA Asks ==
  ASSUME Plain, LineInv, [Next]_vars, Clean(term)',
         buf' = <<>>, shellUser' \in Seq(Printable),
         mode' \in Reads => \E before \in Seq(Glyphs) : out' = before \o Asked'
  PROVE  LineInv'
<1>1. IInv'
  BY StepInv DEF LineInv
<1>2. buf' \in Seq(Printable)
  OBVIOUS
<1>3. mode' \in Reads => Reading(Asked', buf', out', term')
  BY QuestionReading
<1> QED BY <1>1, <1>2, <1>3 DEF LineInv, Reads

LEMMA SilentClean ==
  ASSUME Clean(term), term' = term
  PROVE  Clean(term)'
BY Zenon

LEMMA ClearTerm ==
  ASSUME LineInv, term' = video_clearScreen(term)
  PROVE  Clean(term)'
<1>1. Clean(video_clearScreen(term))
  BY ClearClean DEF LineInv, IInv, OnScreen
<1> QED BY <1>1

LEMMA AskedNext ==
  ASSUME shellUser' = shellUser
  PROVE  /\ Prompt' = Prompt
         /\ mode' = "line" => Asked' = Prompt
         /\ mode' = "user" => Asked' = Texts["set-user"]
         /\ mode' = "size" => Asked' = Texts["font-size"]
<1>1. Prompt' = Prompt
  BY DEF Prompt
<1> QED BY <1>1 DEF Asked

LEMMA MessageGlyphs == \A name \in Messages : Texts[name] \in Seq(Glyphs)
BY TextAssumption

LEMMA PromptGlyphs ==
  ASSUME Plain, LineInv
  PROVE  Prompt \in Seq(Glyphs) /\ buf \in Seq(Glyphs) /\ shellUser \in Seq(Glyphs)
BY AskedPrintable, GlyphFacts DEF LineInv

\* The newline of the echo, what the command prints and the prompt.
LEMMA PrintsAsks ==
  ASSUME Plain, LineInv, [Next]_vars, NEW text \in Seq(Glyphs), mode = "line", Prints(text),
         buf' = <<>>, shellUser' = shellUser
  PROVE  LineInv'
<1>1. out' = (<<NL>> \o text) \o Prompt /\ term' = term /\ mode' = "line"
  BY DEF Prints
<1>2. <<NL>> \o text \in Seq(Glyphs)
  BY OneGlyph, GlyphFacts, ConcatProperties
<1>3. Asked' = Prompt
  BY <1>1, AskedNext
<1>4. \E before \in Seq(Glyphs) : out' = before \o Asked'
  BY <1>1, <1>2, <1>3
<1>5. Clean(term)'
  BY <1>1, SilentClean DEF LineInv
<1>6. shellUser' \in Seq(Printable)
  BY DEF LineInv
<1> QED BY <1>4, <1>5, <1>6, Asks

\* The commands that ask, and those that end the shell for a while.
LEMMA AskCmdLine ==
  ASSUME Plain, LineInv, [Next]_vars, NEW name, NEW in, AskCmd(name, in)
  PROVE  LineInv'
<1>1. /\ <<name, in>> \in {<<"set-user", "user">>, <<"font-size", "size">>}
      /\ mode' = in /\ out' = <<NL>> \o Texts[name] /\ buf' = <<>> /\ term' = term
      /\ shellUser' = shellUser
  BY DEF AskCmd, Enter
<1>2. Asked' = Texts[name]
  BY <1>1, AskedNext
<1>3. <<NL>> \in Seq(Glyphs)
  BY OneGlyph, GlyphFacts
<1>4. \E before \in Seq(Glyphs) : out' = before \o Asked'
  BY <1>1, <1>2, <1>3
<1>5. Clean(term)' /\ shellUser' \in Seq(Printable)
  BY <1>1, SilentClean DEF LineInv
<1> QED BY <1>1, <1>4, <1>5, Asks

LEMMA setUserLine ==
  ASSUME Plain, LineInv, [Next]_vars, setUserCmd
  PROVE  LineInv'
<1> DEFINE before == ((<<NL>> \o Texts["user set"]) \o shellUser') \o <<NL>>
<1>1. /\ shellUser' = strncpy(buf, MAX_USER_LENGTH) /\ mode' = "line" /\ buf' = <<>> /\ term' = term
      /\ out' = before \o Prompt'
  BY DEF setUserCmd, Enter
<1>2. shellUser' \in Seq(Printable)
  BY <1>1, CopyPrintable DEF LineInv
<1>3. before \in Seq(Glyphs)
  <2>1. <<NL>> \in Seq(Glyphs) /\ Texts["user set"] \in Seq(Glyphs) /\ shellUser' \in Seq(Glyphs)
    BY <1>2, OneGlyph, GlyphFacts, MessageGlyphs DEF Messages
  <2>2. <<NL>> \o Texts["user set"] \in Seq(Glyphs)
    BY <2>1, ConcatProperties
  <2>3. (<<NL>> \o Texts["user set"]) \o shellUser' \in Seq(Glyphs)
    BY <2>1, <2>2, ConcatProperties
  <2> QED BY <2>1, <2>3, ConcatProperties
<1>4. Asked' = Prompt'
  BY <1>1 DEF Asked
<1> HIDE DEF before
<1>5. \E b \in Seq(Glyphs) : out' = b \o Asked'
  BY <1>1, <1>3, <1>4
<1>6. Clean(term)'
  BY <1>1, SilentClean DEF LineInv
<1> QED BY <1>1, <1>2, <1>5, <1>6, Asks

LEMMA fontSizeLine ==
  ASSUME Plain, LineInv, [Next]_vars, fontSizeCmd
  PROVE  LineInv'
<1>0. mode' = "line" /\ buf' = <<>> /\ shellUser' = shellUser
  BY DEF fontSizeCmd, Enter
<1>1. Asked' = Prompt /\ shellUser' \in Seq(Printable)
  BY <1>0, AskedNext DEF LineInv
<1>2. Texts["size set"] \in Seq(Glyphs) /\ <<NL>> \o Texts["bad size"] \in Seq(Glyphs)
  <2>1. Texts["size set"] \in Seq(Glyphs) /\ Texts["bad size"] \in Seq(Glyphs) /\ <<NL>> \in Seq(Glyphs)
    BY OneGlyph, GlyphFacts, MessageGlyphs DEF Messages
  <2> QED BY <2>1, ConcatProperties
<1>3. CASE atoi(buf) \in 1 .. 3
  <2> DEFINE k == atoi(buf)
             wide == syscall_setFontScale(term, k)
  <2>1. term' = video_clearScreen(wide) /\ out' = Texts["size set"] \o Prompt
    BY <1>3 DEF fontSizeCmd
  <2>2. k \in 1 .. 3 /\ IsTerminal(term)
    BY <1>3 DEF LineInv, IInv, OnScreen
  <2> HIDE DEF k
  <2>3. IsTerminal(wide) /\ wide.scale \in 1 .. 3
    BY <2>2, ScaleSet
  <2> HIDE DEF wide
  <2>4. Clean(term)'
    BY <2>1, <2>3, ClearClean
  <2> QED BY <1>0, <1>1, <1>2, <2>1, <2>4, Asks
<1>4. CASE ~(atoi(buf) \in 1 .. 3)
  <2>1. term' = term /\ out' = (<<NL>> \o Texts["bad size"]) \o Prompt
    BY <1>4 DEF fontSizeCmd
  <2>2. Clean(term)'
    BY <2>1, SilentClean DEF LineInv
  <2> QED BY <1>0, <1>1, <1>2, <2>1, <2>2, Asks
<1> QED BY <1>3, <1>4

\* While no line is read there is nothing to show but a clean screen.
LEMMA NoRead ==
  ASSUME Plain, LineInv, [Next]_vars, Clean(term)', buf' = <<>>, shellUser' = shellUser,
         mode' \notin Reads
  PROVE  LineInv'
<1>1. shellUser' \in Seq(Printable)
  BY DEF LineInv
<1> QED BY <1>1, Asks

LEMMA CommandLine ==
  ASSUME Plain, LineInv, [Next]_vars, Command
  PROVE  LineInv'
<1>1. CASE EmptyLine
  <2>1. Prints(<<>>) /\ mode = "line" /\ buf' = <<>> /\ shellUser' = shellUser
    BY <1>1 DEF EmptyLine, Enter
  <2>2. <<>> \in Seq(Glyphs)
    OBVIOUS
  <2> QED BY <2>1, <2>2, PrintsAsks
<1>2. CASE NotFound
  <2>1. Prints(Texts["not found"]) /\ mode = "line" /\ buf' = <<>> /\ shellUser' = shellUser
    BY <1>2 DEF NotFound, Enter
  <2>2. Texts["not found"] \in Seq(Glyphs)
    BY MessageGlyphs DEF Messages
  <2> QED BY <2>1, <2>2, PrintsAsks
<1>3. ASSUME NEW name \in {"help", "regs"}, PrintCmd(name) PROVE LineInv'
  <2>1. Prints(Texts[name]) /\ mode = "line" /\ buf' = <<>> /\ shellUser' = shellUser
    BY <1>3 DEF PrintCmd, Enter
  <2>2. Texts[name] \in Seq(Glyphs)
    BY MessageGlyphs DEF Messages
  <2> QED BY <2>1, <2>2, PrintsAsks
<1>4. CASE exceptionCmd_Misused
  <2>1. Prints(Texts["usage"]) /\ mode = "line" /\ buf' = <<>> /\ shellUser' = shellUser
    BY <1>4 DEF exceptionCmd_Misused, Enter
  <2>2. Texts["usage"] \in Seq(Glyphs)
    BY MessageGlyphs DEF Messages
  <2> QED BY <2>1, <2>2, PrintsAsks
<1>5. CASE exceptionCmd
  <2> DEFINE text == (Texts["exception"] \o Texts["registers"]) \o Texts["welcome"]
  <2>1. Prints(text) /\ mode = "line" /\ buf' = <<>> /\ shellUser' = shellUser
    BY <1>5 DEF exceptionCmd, Enter
  <2>2. /\ Texts["exception"] \in Seq(Glyphs) /\ Texts["registers"] \in Seq(Glyphs)
        /\ Texts["welcome"] \in Seq(Glyphs)
    BY MessageGlyphs DEF Messages
  <2>3. Texts["exception"] \o Texts["registers"] \in Seq(Glyphs)
    BY <2>2, ConcatProperties
  <2>4. text \in Seq(Glyphs)
    BY <2>2, <2>3, ConcatProperties
  <2> HIDE DEF text
  <2> QED BY <2>1, <2>4, PrintsAsks
<1>6. CASE gameCmd \/ timeCmd
  <2>1. mode' \in {"game", "time"} /\ buf' = <<>> /\ shellUser' = shellUser /\ term' = term
    BY <1>6 DEF gameCmd, timeCmd, Enter
  <2>2. Clean(term)'
    BY <2>1, SilentClean DEF LineInv
  <2> QED BY <2>1, <2>2, NoRead DEF Reads
<1>7. CASE clearCmd
  <2>1. /\ term' = video_clearScreen(term) /\ out' = Prompt /\ mode' = "line" /\ buf' = <<>>
        /\ shellUser' = shellUser
    BY <1>7 DEF clearCmd, Enter
  <2>2. Asked' = Prompt /\ shellUser' \in Seq(Printable)
    BY <2>1, AskedNext DEF LineInv
  <2>3. <<>> \in Seq(Glyphs) /\ out' = <<>> \o Asked'
    BY <2>1, <2>2, PromptGlyphs, ConcatEmptySeq
  <2>4. Clean(term)'
    BY <2>1, ClearTerm
  <2> QED BY <2>1, <2>2, <2>3, <2>4, Asks
<1>8. CASE exitCmd
  <2>1. /\ term' = video_clearScreen(term) /\ mode' = "off" /\ buf' = <<>> /\ shellUser' = shellUser
    BY <1>8 DEF exitCmd, Enter
  <2> QED BY <2>1, ClearTerm, NoRead DEF Reads
<1> QED BY <1>1, <1>2, <1>3, <1>4, <1>5, <1>6, <1>7, <1>8, AskCmdLine, setUserLine, fontSizeLine
        DEF Command

\* The game leaves the scale as it found it and a clean screen.
LEMMA GameLine ==
  ASSUME Plain, LineInv, [Next]_vars, GameEnds
  PROVE  LineInv'
<1> DEFINE small == syscall_setFontScale(term, 1)
           back == syscall_setFontScale(small, current_font_scale)
<1>1. /\ term' = video_clearScreen(back) /\ mode = "game" /\ mode' = "line" /\ out' = Prompt
      /\ buf' = buf /\ shellUser' = shellUser
  BY DEF GameEnds
<1>2. buf' = <<>>
  BY <1>1 DEF LineInv, Reads
<1>3. current_font_scale \in 1 .. 3 /\ IsTerminal(term)
  BY DEF LineInv, IInv, OnScreen, FontsAgree
<1>4. IsTerminal(small)
  BY <1>3, ScaleSet
<1> HIDE DEF small
<1>5. IsTerminal(back) /\ back.scale \in 1 .. 3
  BY <1>3, <1>4, ScaleSet
<1> HIDE DEF back
<1>6. Clean(term)'
  BY <1>1, <1>5, ClearClean
<1>7. Asked' = Prompt /\ shellUser' \in Seq(Printable)
  BY <1>1, AskedNext DEF LineInv
<1>8. <<>> \in Seq(Glyphs) /\ out' = <<>> \o Asked'
  BY <1>1, <1>7, PromptGlyphs, ConcatEmptySeq
<1> QED BY <1>2, <1>6, <1>7, <1>8, Asks

LEMMA AskedSame ==
  ASSUME mode' = mode, shellUser' = shellUser
  PROVE  Asked' = Asked
<1>1. Prompt' = Prompt
  BY DEF Prompt
<1> QED BY <1>1 DEF Asked

LEMMA PutCharLine ==
  ASSUME Plain, LineInv, [Next]_vars, PutChar
  PROVE  LineInv'
<1>1. /\ out # <<>> /\ term' = video_putChar(term, Head(out)) /\ out' = Tail(out)
      /\ mode' = mode /\ buf' = buf /\ shellUser' = shellUser
  BY DEF PutChar
<1>2. IInv' /\ OnScreen(term) /\ Clean(term)
  BY StepInv DEF LineInv, IInv
<1>3. Clean(term)'
  BY <1>1, <1>2, PutCharClean
<1>4. buf' \in Seq(Printable) /\ shellUser' \in Seq(Printable) /\ (mode' \notin Reads => buf' = <<>>)
  BY <1>1 DEF LineInv, Reads
<1>5. ASSUME mode' \in Reads PROVE Reading(Asked', buf', out', term')
  <2>1. mode \in Reads /\ Reading(Asked, buf, out, term)
    BY <1>1, <1>5 DEF LineInv, Reads
  <2>2. Asked \in Seq(Printable) /\ buf \in Seq(Printable)
    BY AskedPrintable DEF LineInv
  <2>3. Reading(Asked, buf, Tail(out), video_putChar(term, Head(out)))
    BY <1>1, <1>2, <2>1, <2>2, ReadingPut
  <2>4. Asked' = Asked
    BY <1>1, AskedSame
  <2> QED BY <1>1, <2>3, <2>4
<1> QED BY <1>2, <1>3, <1>4, <1>5 DEF LineInv, Reads

\* A key of the line: its echo is what readLine has more.
LEMMA TypeLine ==
  ASSUME Plain, LineInv, [Next]_vars, NEW c \in Keys, Type(c)
  PROVE  LineInv'
<1> DEFINE shown == Asked \o buf
<1>1. /\ Waiting /\ buf' = Append(buf, c) /\ out' = <<c>>
      /\ mode' = mode /\ term' = term /\ shellUser' = shellUser
  BY DEF Type, Pressed
<1>2. c \in Printable /\ buf \in Seq(Printable) /\ Asked \in Seq(Printable) /\ mode \in Reads
  BY <1>1, AskedPrintable DEF Plain, LineInv, Waiting
<1>3. buf' = buf \o <<c>> /\ buf' \in Seq(Printable) /\ out' \in Seq(Printable)
  BY <1>1, <1>2, AppendIsConcat, AppendProperties, OneGlyph
<1>4. shown \in Seq(Printable) /\ shown \o <<c>> = Asked \o buf'
  BY <1>2, <1>3, OneGlyph, ConcatProperties, ConcatAssociative
<1>5. Shows(term, shown)
  BY <1>1, WaitingShows
<1>6. Asked' = Asked
  BY <1>1, AskedSame
<1> HIDE DEF shown
<1>7. Reading(Asked', buf', out', term')
  BY <1>1, <1>3, <1>4, <1>5, <1>6 DEF Reading
<1>8. IInv' /\ Clean(term)' /\ shellUser' \in Seq(Printable)
  BY <1>1, StepInv, SilentClean DEF LineInv
<1> QED BY <1>1, <1>2, <1>3, <1>7, <1>8 DEF LineInv, Reads

\* A correction: the character is on the screen until it is overwritten.
LEMMA EraseLine ==
  ASSUME Plain, LineInv, [Next]_vars, Erase
  PROVE  LineInv'
<1> DEFINE n == Len(buf)
           rest == SubSeq(buf, 1, n - 1)
           c == buf[n]
           shown == Asked \o rest
<1>1. /\ Waiting /\ buf # <<>> /\ buf' = rest /\ out' = <<BS, BLANK, BS>>
      /\ mode' = mode /\ term' = term /\ shellUser' = shellUser
  BY DEF Erase, Pressed, BLANK
<1>2. buf \in Seq(Printable) /\ Asked \in Seq(Printable) /\ mode \in Reads
  BY <1>1, AskedPrintable DEF LineInv, Waiting
<1>3. n \in Nat \ {0}
  BY <1>1, <1>2, EmptySeq
<1>4. c \in Printable /\ rest \in Seq(Printable) /\ buf = rest \o <<c>>
  <2>1. \A i \in 1 .. n : buf[i] \in Printable
    BY <1>2, ElementOfSeq
  <2>2. rest \in Seq(Printable)
    <3> HIDE DEF n
    <3> DEFINE k == n - 1
    <3>1. k \in Int /\ \A i \in 1 .. k : buf[i] \in Printable
      BY <1>3, <2>1
    <3> HIDE DEF k
    <3>2. SubSeq(buf, 1, k) \in Seq(Printable)
      BY <3>1, SubSeqProperties
    <3> QED BY <3>2 DEF k, n
  <2>3. SubSeq(buf, 1, n) = buf
    BY <1>2, SubSeqFull
  <2>4. SubSeq(buf, 1, n) = SubSeq(buf, 1, n - 1) \o <<buf[n]>>
    BY <1>2, <1>3, SubSeqRecursiveSecond
  <2>5. c \in Printable
    BY <1>3, <2>1
  <2>6. buf = rest \o <<c>>
    BY <2>3, <2>4, Zenon
  <2> QED BY <2>2, <2>5, <2>6
<1> HIDE DEF c, rest
<1>5. shown \o <<c>> = Asked \o buf
  BY <1>2, <1>4, OneGlyph, ConcatAssociative
<1>6. Shows(term, shown \o <<c>>)
  BY <1>1, <1>5, WaitingShows
<1>7. Asked' = Asked
  BY <1>1, AskedSame
<1>8. Reading(Asked', buf', out', term')
  BY <1>1, <1>4, <1>6, <1>7 DEF Reading
<1>9. IInv' /\ Clean(term)' /\ shellUser' \in Seq(Printable)
  BY <1>1, StepInv, SilentClean DEF LineInv
<1> QED BY <1>1, <1>2, <1>4, <1>8, <1>9 DEF LineInv, Reads

LEMMA LineStep == Plain /\ LineInv /\ [Next]_vars => LineInv'
<1> SUFFICES ASSUME Plain, LineInv, [Next]_vars PROVE LineInv'
  OBVIOUS
<1>1. CASE PutChar
  BY <1>1, PutCharLine
<1>2. CASE \E c \in Keys : Type(c)
  BY <1>2, TypeLine
<1>3. CASE Erase
  BY <1>3, EraseLine
<1>4. CASE Command
  BY <1>4, CommandLine
<1>5. CASE GameEnds
  BY <1>5, GameLine
<1>6. CASE ReadRegister \/ Tick
  <2>1. mode = "time" /\ mode' = "time" /\ buf' = buf /\ term' = term /\ shellUser' = shellUser
    BY <1>6 DEF ReadRegister, Tick
  <2>2. buf' = <<>>
    BY <2>1 DEF LineInv, Reads
  <2> QED BY <2>1, <2>2, NoRead, SilentClean DEF LineInv, Reads
<1>7. CASE PrintTime
  <2>1. /\ mode = "time" /\ mode' = "line" /\ out' = Texts["time"] \o Prompt /\ buf' = buf
        /\ term' = term /\ shellUser' = shellUser
    BY <1>7 DEF PrintTime
  <2>2. buf' = <<>> /\ Clean(term)' /\ shellUser' \in Seq(Printable)
    BY <2>1, SilentClean DEF LineInv, Reads
  <2>3. Asked' = Prompt /\ Texts["time"] \in Seq(Glyphs)
    BY <2>1, AskedNext, MessageGlyphs DEF Messages
  <2> QED BY <2>1, <2>2, <2>3, Asks
<1>8. CASE UNCHANGED vars
  <2>1. mode' = mode /\ buf' = buf /\ term' = term /\ shellUser' = shellUser /\ out' = out
    BY <1>8 DEF vars
  <2>2. Asked' = Asked
    BY <2>1, AskedSame
  <2>3. IInv' /\ Clean(term)'
    BY <2>1, StepInv, SilentClean DEF LineInv
  <2> QED BY <2>1, <2>2, <2>3 DEF LineInv, Reads
<1> QED BY <1>1, <1>2, <1>3, <1>4, <1>5, <1>6, <1>7, <1>8 DEF Next

\* The n-th cell back is the one that n cells are before.
LEMMA CellBackIs ==
  ASSUME NEW w, NEW h, NEW W, NEW col, NEW row, Cursor(term, w, h, W, col, row), NEW n \in 1 .. Cell
  PROVE  \E i \in 0 .. (W - 1), j \in Nat :
           CellBack(n) = <<i * w, j * h>> /\ Before(W, col, row, i, j) = n
<1> DEFINE k == Cell - n
           i == k % W
           j == k \div W
<1>1. /\ CharWidth(term) = w /\ CharHeight(term) = h
      /\ W = WIDTH \div w /\ col = term.x \div w /\ row = term.y \div h
  BY CursorIs
<1>2. W \in Nat \ {0} /\ col \in Nat /\ row \in Nat
  BY DEF Cursor
<1>3. Cell = row * W + col /\ PerRow = W /\ row * W \in Nat
  <2>1. Cell = row * W + col /\ PerRow = W
    BY <1>1 DEF Cell, PerRow
  <2>2. row * W \in Nat
    BY <1>2, Products
  <2> QED BY <2>1, <2>2
<1>4. CellBack(n) = <<i * w, j * h>>
  BY <1>1, <1>3 DEF CellBack
<1>5. k \in Nat /\ n \in Int
  BY <1>2, <1>3
<1> HIDE DEF k
<1>6. i \in 0 .. (W - 1) /\ j \in Nat /\ k = j * W + i
  BY <1>2, <1>5, Quotient
<1>7. Before(W, col, row, i, j) = n
  <2>1. Before(W, col, row, i, j) = Cell - k
    BY <1>3, <1>6 DEF Before
  <2> QED BY <1>2, <1>3, <1>5, <2>1 DEF k
<1> HIDE DEF i, j
<1> QED BY <1>4, <1>6, <1>7

LEMMA LineInvShows == Plain /\ LineInv => LineOnScreen
<1> DEFINE shown == Asked \o buf
<1> SUFFICES ASSUME Plain, LineInv, Waiting, WIDTH % CharWidth(term) = 0
             PROVE  /\ \A n \in 1 .. Min({Cell, Len(shown)}) :
                         term.screen[CellBack(n)] = shown[Len(shown) + 1 - n]
                    /\ \A u \in Behind : term.screen[u] = BLANK
  BY DEF LineOnScreen
<1>1. OnScreen(term) /\ Fits(term) /\ BlankAfter(term)
  BY DEF LineInv, IInv, Clean, Fits
<1>2. \A u \in Behind : term.screen[u] = BLANK
  BY <1>1 DEF Behind, BlankAfter
<1>3. PICK w, h, W, col, row : Cursor(term, w, h, W, col, row)
  BY <1>1, CursorExists
<1>4. Shows(term, shown)
  BY WaitingShows
<1>5. Len(shown) \in Nat
  <2>1. Asked \in Seq(Printable) /\ buf \in Seq(Printable)
    BY AskedPrintable DEF LineInv
  <2>2. shown \in Seq(Printable)
    BY <2>1, ConcatProperties
  <2> HIDE DEF shown
  <2> QED BY <2>2, LenProperties
<1> HIDE DEF shown
<1>6. Stands(term, w, h, W, col, row, shown)
  BY <1>3, <1>4, ShowsIs
<1>7. Cell \in Int
  <2>1. W \in Nat \ {0} /\ col \in Nat /\ row \in Nat /\ Cell = row * W + col
    BY <1>3, CursorIs DEF Cursor, Cell, PerRow
  <2> QED BY <2>1, Z3
<1>8. ASSUME NEW n \in 1 .. Min({Cell, Len(shown)})
      PROVE  term.screen[CellBack(n)] = shown[Len(shown) + 1 - n]
  <2> DEFINE a == Cell
             b == Len(shown)
  <2>1. a \in Int /\ b \in Int
    BY <1>5, <1>7
  <2> HIDE DEF a, b
  <2>2. \E x \in {a, b} : \A y \in {a, b} : x <= y
    BY <2>1
  <2>3. Min({a, b}) \in {a, b} /\ \A y \in {a, b} : Min({a, b}) <= y
    BY <2>2, Zenon DEF Min
  <2>4. n \in 1 .. Cell /\ n \in 1 .. Len(shown)
    <3>1. n \in 1 .. Min({a, b})
      BY DEF a, b
    <3>2. n \in 1 .. a /\ n \in 1 .. b
      BY <2>1, <2>3, <3>1
    <3> QED BY <3>2 DEF a, b
  <2>5. PICK i \in 0 .. (W - 1), j \in Nat :
          CellBack(n) = <<i * w, j * h>> /\ Before(W, col, row, i, j) = n
    BY <1>3, <2>4, CellBackIs
  <2> QED BY <1>6, <2>4, <2>5 DEF Stands
<1> QED BY <1>2, <1>8 DEF shown

\* What the user sees is what readLine has (readLine, shell.c:37-61, against
\* the driver), on any screen and at any scale that divides its width, for any
\* keys and questions that are glyphs and not control characters.
THEOREM LineCorrect ==
  ASSUME Plain
  PROVE  Spec => []LineOnScreen
<1>1. Init => LineInv
  BY LineInit
<1>2. LineInv /\ [Next]_vars => LineInv'
  BY LineStep
<1>3. LineInv => LineOnScreen
  BY LineInvShows
<1> QED BY <1>1, <1>2, <1>3, PTL DEF Spec
=============================================================================
