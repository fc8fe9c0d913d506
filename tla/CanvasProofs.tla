---------------------------- MODULE CanvasProofs ----------------------------
(***************************************************************************)
(* Proofs about Canvas, for every field, hole, set of obstacles and size   *)
(* of the discs, and one player.  ShowsScene is inductive as it stands:    *)
(* what a frame paints is right for the new scene, and a pixel it leaves   *)
(* alone lies under the same things as before.  The second half is why the *)
(* discs painted over have to be those of everything that has moved.       *)
(***************************************************************************)
EXTENDS Canvas, TLAPS

\* The scene of a game for one.
OneScene(s) ==
  /\ s.position[0] \in Points /\ s.ball[0] \in Points /\ s.angle[0] \in Headings

\* ShowsScene for one pixel and any scene.
UnderThings(p, s) ==
  {PlayerColor[j + 1] : j \in PlayersAt(p, s)} \cup {BallColor[j + 1] : j \in BallsAt(p, s)}
    \cup (IF point_in_obstacle(p) THEN {Brown} ELSE {})
    \cup (IF Dist2(p, hole) <= Sq(hole_radius) THEN {Black} ELSE {})

Right(color, p, s) ==
  color \in (IF UnderThings(p, s) = {} THEN {Green} ELSE UnderThings(p, s))
    \cup (IF \E j \in Players : p \in ArrowPixels(s.position[j], s.angle[j]) THEN {Arrow} ELSE {})
    \cup (IF Dist2(p, hole) <= Sq(HOLE_AT_LEVEL_1) THEN {Black} ELSE {})

RightPicture(cv, s) == \A p \in Pixels : Right(cv[p], p, s)

TypedScene ==
  /\ position \in [Players -> Points] /\ ball \in [Players -> Points]
  /\ angle \in [Players -> Headings]

IInv == TypedScene /\ ShowsScene

-----------------------------------------------------------------------------
(* What lies on a pixel when there is one player.                          *)

LEMMA FirstIsZero == First({0}) = 0
<1>1. \E j \in {0} : \A k \in {0} : j <= k
  OBVIOUS
<1> QED BY <1>1, Zenon DEF First

\* The player or the ball lies on a pixel or nothing of its kind does.
LEMMA OneOf ==
  ASSUME Players = {0}, NEW p, NEW s
  PROVE  /\ PlayersAt(p, s) = IF Dist2(p, s.position[0]) <= Sq(PLAYER_RADIUS) THEN {0} ELSE {}
         /\ PlayersNear(p, s) = IF Dist2(p, s.position[0]) < Sq(PLAYER_RADIUS + 1) THEN {0} ELSE {}
         /\ BallsAt(p, s) = IF Dist2(p, s.ball[0]) <= Sq(BALL_RADIUS) THEN {0} ELSE {}
BY Zenon DEF PlayersAt, PlayersNear, BallsAt

\* The colours that are right on a pixel, one reason each.
LEMMA RightWhen ==
  ASSUME Players = {0}, NEW p, NEW s
  PROVE  /\ Dist2(p, s.position[0]) <= Sq(PLAYER_RADIUS) => Right(PlayerColor[1], p, s)
         /\ Dist2(p, s.ball[0]) <= Sq(BALL_RADIUS) => Right(BallColor[1], p, s)
         /\ point_in_obstacle(p) => Right(Brown, p, s)
         /\ Dist2(p, hole) <= Sq(hole_radius) => Right(Black, p, s)
         /\ Dist2(p, hole) <= Sq(HOLE_AT_LEVEL_1) => Right(Black, p, s)
         /\ p \in ArrowPixels(s.position[0], s.angle[0]) => Right(Arrow, p, s)
         /\ (/\ ~(Dist2(p, s.position[0]) <= Sq(PLAYER_RADIUS))
             /\ ~(Dist2(p, s.ball[0]) <= Sq(BALL_RADIUS))
             /\ ~point_in_obstacle(p) /\ ~(Dist2(p, hole) <= Sq(hole_radius))) =>
              Right(Green, p, s)
<1> DEFINE P == PlayersAt(p, s)
           B == BallsAt(p, s)
           U == UnderThings(p, s)
<1>1. /\ P = IF Dist2(p, s.position[0]) <= Sq(PLAYER_RADIUS) THEN {0} ELSE {}
      /\ B = IF Dist2(p, s.ball[0]) <= Sq(BALL_RADIUS) THEN {0} ELSE {}
  BY OneOf
<1>2. 0 + 1 = 1
  OBVIOUS
<1>3. U = {PlayerColor[j + 1] : j \in P} \cup {BallColor[j + 1] : j \in B}
            \cup (IF point_in_obstacle(p) THEN {Brown} ELSE {})
            \cup (IF Dist2(p, hole) <= Sq(hole_radius) THEN {Black} ELSE {})
  BY DEF UnderThings
<1> HIDE DEF P, B, U
<1>4. /\ Dist2(p, s.position[0]) <= Sq(PLAYER_RADIUS) => PlayerColor[1] \in U
      /\ Dist2(p, s.ball[0]) <= Sq(BALL_RADIUS) => BallColor[1] \in U
      /\ point_in_obstacle(p) => Brown \in U
      /\ Dist2(p, hole) <= Sq(hole_radius) => Black \in U
  BY <1>1, <1>2, <1>3, Zenon
<1>5. (/\ ~(Dist2(p, s.position[0]) <= Sq(PLAYER_RADIUS))
       /\ ~(Dist2(p, s.ball[0]) <= Sq(BALL_RADIUS))
       /\ ~point_in_obstacle(p) /\ ~(Dist2(p, hole) <= Sq(hole_radius))) => U = {}
  BY <1>1, <1>3
<1>6. p \in ArrowPixels(s.position[0], s.angle[0]) =>
        \E j \in Players : p \in ArrowPixels(s.position[j], s.angle[j])
  BY Zenon
<1>7. \A c : c \in U => Right(c, p, s)
  BY Zenon DEF Right, U
<1>8. U = {} => Right(Green, p, s)
  BY Zenon DEF Right, U
<1>9. Dist2(p, hole) <= Sq(HOLE_AT_LEVEL_1) => Right(Black, p, s)
  BY Zenon DEF Right
<1>10. p \in ArrowPixels(s.position[0], s.angle[0]) => Right(Arrow, p, s)
  BY <1>6, Zenon DEF Right
<1> QED BY <1>4, <1>5, <1>7, <1>8, <1>9, <1>10, Zenon

\* A pixel that lies under the same things in two scenes may keep its colour.
LEMMA RightStays ==
  ASSUME Players = {0}, NEW p, NEW s, NEW t, NEW color, Right(color, p, s),
         Dist2(p, s.position[0]) <= Sq(PLAYER_RADIUS) <=> Dist2(p, t.position[0]) <= Sq(PLAYER_RADIUS),
         Dist2(p, s.ball[0]) <= Sq(BALL_RADIUS) <=> Dist2(p, t.ball[0]) <= Sq(BALL_RADIUS),
         p \in ArrowPixels(s.position[0], s.angle[0]) => p \in ArrowPixels(t.position[0], t.angle[0])
  PROVE  Right(color, p, t)
<1>1. PlayersAt(p, s) = PlayersAt(p, t) /\ BallsAt(p, s) = BallsAt(p, t)
  BY OneOf, Zenon
<1>2. UnderThings(p, s) = UnderThings(p, t)
  BY <1>1, Zenon DEF UnderThings
<1>3. (\E j \in Players : p \in ArrowPixels(s.position[j], s.angle[j])) =>
        (\E j \in Players : p \in ArrowPixels(t.position[j], t.angle[j]))
  BY Zenon
<1> QED BY <1>2, <1>3, Zenon DEF Right

-----------------------------------------------------------------------------
(* Painting.                                                               *)

LEMMA PaintAt ==
  ASSUME NEW cv, NEW colors, NEW p \in Pixels
  PROVE  Paint(cv, colors)[p] = IF p \in DOMAIN colors THEN colors[p] ELSE cv[p]
BY Zenon DEF Paint

LEMMA CircleAt ==
  ASSUME NEW cv, NEW c, NEW r, NEW color, NEW p \in Pixels
  PROVE  drawCircle(cv, c, r, color)[p] = IF Dist2(p, c) <= Sq(r) THEN color ELSE cv[p]
<1> DEFINE f == [q \in Disc(c, r) |-> color]
<1>1. p \in DOMAIN f <=> Dist2(p, c) <= Sq(r)
  BY DEF Disc
<1>2. p \in DOMAIN f => f[p] = color
  BY Zenon
<1>3. drawCircle(cv, c, r, color) = Paint(cv, f)
  BY Zenon DEF drawCircle
<1> HIDE DEF f
<1> QED BY <1>1, <1>2, <1>3, PaintAt

\* Behind a ball that has rolled away is what the new scene has there.
LEMMA BallErased ==
  ASSUME Players = {0}, NEW cv, NEW old, NEW new, old # new.ball[0], NEW p \in Pixels
  PROVE  /\ Dist2(p, old) <= Sq(BALL_RADIUS) => Right(eraseBallSmart(cv, old, new)[p], p, new)
         /\ ~(Dist2(p, old) <= Sq(BALL_RADIUS)) => eraseBallSmart(cv, old, new)[p] = cv[p]
<1> DEFINE others(q) == {j \in BallsAt(q, new) : new.ball[j] # old}
           color(q) ==
             CASE point_in_obstacle(q) -> Brown
               [] ~point_in_obstacle(q) /\ PlayersAt(q, new) # {} ->
                    PlayerColor[First(PlayersAt(q, new)) + 1]
               [] ~point_in_obstacle(q) /\ PlayersAt(q, new) = {} /\ others(q) # {} ->
                    BallColor[First(others(q)) + 1]
               [] OTHER -> IF Dist2(q, hole) <= Sq(HOLE_AT_LEVEL_1) THEN Black ELSE Green
           f == [q \in Disc(old, BALL_RADIUS) |-> color(q)]
<1>1. eraseBallSmart(cv, old, new) = Paint(cv, f)
  BY Zenon DEF eraseBallSmart
<1>2. p \in DOMAIN f <=> Dist2(p, old) <= Sq(BALL_RADIUS)
  BY DEF Disc
<1>3. p \in DOMAIN f => f[p] = color(p)
  BY Zenon
<1>4. Right(color(p), p, new)
  <2>1. others(p) = BallsAt(p, new)
    BY OneOf
  <2>2. First({0}) + 1 = 1
    BY FirstIsZero
  <2>3. Sq(hole_radius) <= Sq(HOLE_AT_LEVEL_1)
    BY RadiusAssumption, Z3 DEF Sq
  <2>4. CASE point_in_obstacle(p)
    BY <2>4, RightWhen, Zenon
  <2>5. CASE ~point_in_obstacle(p) /\ PlayersAt(p, new) # {}
    <3>1. PlayersAt(p, new) = {0} /\ Dist2(p, new.position[0]) <= Sq(PLAYER_RADIUS)
      BY <2>5, OneOf
    <3>2. color(p) = PlayerColor[First(PlayersAt(p, new)) + 1]
      BY <2>5, Zenon
    <3>3. color(p) = PlayerColor[1]
      BY <2>2, <3>1, <3>2, Zenon
    <3> QED BY <3>1, <3>3, RightWhen, Zenon
  <2>6. CASE ~point_in_obstacle(p) /\ PlayersAt(p, new) = {} /\ others(p) # {}
    <3>1. others(p) = {0} /\ Dist2(p, new.ball[0]) <= Sq(BALL_RADIUS)
      BY <2>1, <2>6, OneOf
    <3>2. color(p) = BallColor[First(others(p)) + 1]
      BY <2>6, Zenon
    <3>3. color(p) = BallColor[1]
      BY <2>2, <3>1, <3>2, Zenon
    <3> QED BY <3>1, <3>3, RightWhen, Zenon
  <2>7. CASE ~point_in_obstacle(p) /\ PlayersAt(p, new) = {} /\ others(p) = {}
    <3>1. color(p) = IF Dist2(p, hole) <= Sq(HOLE_AT_LEVEL_1) THEN Black ELSE Green
      BY <2>7, Zenon
    <3>2. /\ ~(Dist2(p, new.position[0]) <= Sq(PLAYER_RADIUS))
          /\ ~(Dist2(p, new.ball[0]) <= Sq(BALL_RADIUS))
      BY <2>1, <2>7, OneOf
    <3>3. CASE Dist2(p, hole) <= Sq(HOLE_AT_LEVEL_1)
      BY <3>1, <3>3, RightWhen, Zenon
    <3>4. CASE ~(Dist2(p, hole) <= Sq(HOLE_AT_LEVEL_1))
      <4>1. ~(Dist2(p, hole) <= Sq(hole_radius))
        <5>1. Dist2(p, hole) \in Int /\ Sq(hole_radius) \in Int /\ Sq(HOLE_AT_LEVEL_1) \in Int
          BY RadiusAssumption, PlaceAssumption DEF Dist2, Sq, Points, Pixels
        <5> QED BY <2>3, <3>4, <5>1
      <4> QED BY <2>7, <3>1, <3>2, <3>4, <4>1, RightWhen, Zenon
    <3> QED BY <3>3, <3>4
  <2> QED BY <2>4, <2>5, <2>6, <2>7, Zenon
<1> HIDE DEF f, color
<1> QED BY <1>1, <1>2, <1>3, <1>4, PaintAt

\* And so behind a player who has walked away.
LEMMA PlayerErased ==
  ASSUME Players = {0}, NEW cv, NEW old, NEW new, old # new.position[0], NEW p \in Pixels
  PROVE  /\ Dist2(p, old) <= Sq(PLAYER_RADIUS) => Right(erasePlayerSmart(cv, old, new)[p], p, new)
         /\ ~(Dist2(p, old) <= Sq(PLAYER_RADIUS)) => erasePlayerSmart(cv, old, new)[p] = cv[p]
<1> DEFINE others(q) == {j \in PlayersAt(q, new) : new.position[j] # old}
           color(q) ==
             CASE point_in_obstacle(q) -> Brown
               [] ~point_in_obstacle(q) /\ others(q) # {} -> PlayerColor[First(others(q)) + 1]
               [] ~point_in_obstacle(q) /\ others(q) = {} /\ BallsAt(q, new) # {} ->
                    BallColor[First(BallsAt(q, new)) + 1]
               [] OTHER -> IF Dist2(q, hole) <= Sq(hole_radius) THEN Black ELSE Green
           f == [q \in Disc(old, PLAYER_RADIUS) |-> color(q)]
<1>1. erasePlayerSmart(cv, old, new) = Paint(cv, f)
  BY Zenon DEF erasePlayerSmart
<1>2. p \in DOMAIN f <=> Dist2(p, old) <= Sq(PLAYER_RADIUS)
  BY DEF Disc
<1>3. p \in DOMAIN f => f[p] = color(p)
  BY Zenon
<1>4. Right(color(p), p, new)
  <2>1. others(p) = PlayersAt(p, new)
    BY OneOf
  <2>2. First({0}) + 1 = 1
    BY FirstIsZero
  <2>3. CASE point_in_obstacle(p)
    BY <2>3, RightWhen, Zenon
  <2>4. CASE ~point_in_obstacle(p) /\ others(p) # {}
    <3>1. others(p) = {0} /\ Dist2(p, new.position[0]) <= Sq(PLAYER_RADIUS)
      BY <2>1, <2>4, OneOf
    <3>2. color(p) = PlayerColor[First(others(p)) + 1]
      BY <2>4, Zenon
    <3>3. color(p) = PlayerColor[1]
      BY <2>2, <3>1, <3>2, Zenon
    <3> QED BY <3>1, <3>3, RightWhen, Zenon
  <2>5. CASE ~point_in_obstacle(p) /\ others(p) = {} /\ BallsAt(p, new) # {}
    <3>1. BallsAt(p, new) = {0} /\ Dist2(p, new.ball[0]) <= Sq(BALL_RADIUS)
      BY <2>5, OneOf
    <3>2. color(p) = BallColor[First(BallsAt(p, new)) + 1]
      BY <2>5, Zenon
    <3>3. color(p) = BallColor[1]
      BY <2>2, <3>1, <3>2, Zenon
    <3> QED BY <3>1, <3>3, RightWhen, Zenon
  <2>6. CASE ~point_in_obstacle(p) /\ others(p) = {} /\ BallsAt(p, new) = {}
    <3>1. color(p) = IF Dist2(p, hole) <= Sq(hole_radius) THEN Black ELSE Green
      BY <2>6, Zenon
    <3>2. /\ ~(Dist2(p, new.position[0]) <= Sq(PLAYER_RADIUS))
          /\ ~(Dist2(p, new.ball[0]) <= Sq(BALL_RADIUS))
      BY <2>1, <2>6, OneOf
    <3> QED BY <2>6, <3>1, <3>2, RightWhen, Zenon
  <2> QED BY <2>3, <2>4, <2>5, <2>6, Zenon
<1> HIDE DEF f, color
<1> QED BY <1>1, <1>2, <1>3, <1>4, PaintAt

-----------------------------------------------------------------------------
(* The arrow.                                                              *)

\* Divisions of whole numbers give whole numbers.
LEMMA QuotInt ==
  ASSUME NEW a \in Int
  PROVE  Quot(a, 100) \in Int
<1>1. CASE a < 0
  <2>1. (-a) \div 100 \in Int
    BY <1>1
  <2> QED BY <1>1, <2>1 DEF Quot
<1>2. CASE ~(a < 0)
  BY <1>2 DEF Quot
<1> QED BY <1>1, <1>2

\* The tables have a number for every direction.
LEMMA Table ==
  ASSUME NEW a \in Headings
  PROVE  cos(a) \in Int /\ sin(a) \in Int
<1>1. (a + 27) % 36 = IF a <= 8 THEN a + 27 ELSE a - 9
  BY DEF Headings
<1>2. \A k \in 1 .. 36 : cos_table[k] \in Int
  BY DEF cos_table
<1> QED BY <1>1, <1>2 DEF cos, sin, Headings

LEMMA AlongIs ==
  ASSUME NEW q \in Points, NEW a \in Headings, NEW n \in Nat
  PROVE  /\ Along(q, a, n) \in Points
         /\ Along(q, a, n).x = q.x + Quot(n * cos(a), 100)
         /\ Along(q, a, n).y = q.y + Quot(n * sin(a), 100)
         /\ Quot(n * cos(a), 100) \in Int /\ Quot(n * sin(a), 100) \in Int
<1>1. n * cos(a) \in Int /\ n * sin(a) \in Int
  BY Table
<1>2. Quot(n * cos(a), 100) \in Int /\ Quot(n * sin(a), 100) \in Int
  BY <1>1, QuotInt
<1> QED BY <1>2 DEF Along, Points

LEMMA SmallSquares ==
  ASSUME NEW u \in Int, NEW v \in Int, Sq(u) + Sq(v) <= Sq(1)
  PROVE  u \in {-1, 0, 1} /\ v \in {-1, 0, 1} /\ (u = 0 \/ v = 0)
<1>1. \A w \in Int : w * w >= 0 /\ (w * w <= 1 => w \in {-1, 0, 1})
  <2> TAKE w \in Int
  <2>1. CASE w >= 2
    <3>1. w * w >= 2 * w
      BY <2>1, Z3
    <3> QED BY <2>1, <3>1
  <2>2. CASE w <= -2
    <3>1. w * w >= (-2) * w
      BY <2>2, Z3
    <3> QED BY <2>2, <3>1
  <2>3. CASE w \in {-1, 0, 1}
    BY <2>3
  <2> QED BY <2>1, <2>2, <2>3
<1>2. u * u >= 0 /\ v * v >= 0 /\ u * u \in Int /\ v * v \in Int /\ u * u + v * v <= 1
  BY <1>1 DEF Sq
<1>3. u \in {-1, 0, 1} /\ v \in {-1, 0, 1}
  BY <1>1, <1>2
<1> QED BY <1>2, <1>3

\* The assumption on arrows holds of the code's numbers (arrow_len at
\* game_functions.c:257, steps at game.c:212-213) on screens 1000 to 1599
\* pixels wide, whose players have a radius of 10 to 15 pixels.
LEMMA ScreenArrow ==
  ASSUME ARROW_LEN = 18, STEP = 10, NEW r \in 10 .. 15
  PROVE  ArrowFits(r)
<1> DEFINE far == <<18, 17, 16, 15, 13, 11, 9, 6, 3, 0, -3, -6, -9, -11, -13, -15, -16, -17,
                         -18, -17, -16, -15, -13, -11, -9, -6, -3, 0, 3, 6, 9, 11, 13, 15, 16, 17>>
           near == <<10, 9, 9, 8, 7, 6, 5, 3, 1, 0, -1, -3, -5, -6, -7, -8, -9, -9,
                          -10, -9, -9, -8, -7, -6, -5, -3, -1, 0, 1, 3, 5, 6, 7, 8, 9, 9>>
           quarter(a) == ((a + 27) % 36) + 1
<1>1. \A k \in 1 .. 36 : Quot(18 * cos_table[k], 100) = far[k]
  BY DEF cos_table, Quot
<1>2. \A k \in 1 .. 36 : Quot(10 * cos_table[k], 100) = near[k]
  BY DEF cos_table, Quot
<1>3. \A a \in Headings : quarter(a) = IF a <= 8 THEN a + 28 ELSE a - 8
  BY DEF Headings
<1> HIDE DEF quarter
<1> HIDE DEF quarter
<1> DEFINE Apart(x, y) == /\ x * x + y * y >= 256
                          /\ \A m \in {x, -x, y, -y} : x * x + y * y >= 255 + 2 * m
           Close(x, y) == \A m \in {x, -x, y, -y} : x * x + y * y + 1 + 2 * m <= 100
<1>4. ASSUME NEW a \in Headings
      PROVE  /\ far[a + 1] \in -18 .. 18 /\ near[a + 1] \in -10 .. 10
             /\ far[quarter(a)] \in -18 .. 18 /\ near[quarter(a)] \in -10 .. 10
  BY <1>3 DEF Headings
<1>5. ASSUME NEW a \in Headings
      PROVE  /\ Apart(far[a + 1], far[quarter(a)])
             /\ Close(far[a + 1] - near[a + 1], far[quarter(a)] - near[quarter(a)])
  <2>1. CASE a \in 0 .. 8
    BY <1>3, <2>1
  <2>2. CASE a \in 9 .. 17
    BY <1>3, <2>2
  <2>3. CASE a \in 18 .. 26
    BY <1>3, <2>3
  <2>4. CASE a \in 27 .. 35
    BY <1>3, <2>4
  <2> QED BY <2>1, <2>2, <2>3, <2>4 DEF Headings
<1>6. ASSUME NEW x \in Int, NEW y \in Int, NEW e \in Reach, e.x = 0 \/ e.y = 0
      PROVE  LET d == Sq(e.x + x) + Sq(e.y + y)
             IN  d \in Int /\ (Apart(x, y) => d >= 256) /\ (Close(x, y) => d <= 100)
  <2>1. e.x \in {-1, 0, 1} /\ e.y \in {-1, 0, 1}
    BY DEF Reach
  <2>2. /\ Sq(1 + x) = x * x + 2 * x + 1 /\ Sq(-1 + x) = x * x - 2 * x + 1 /\ Sq(0 + x) = x * x
        /\ Sq(1 + y) = y * y + 2 * y + 1 /\ Sq(-1 + y) = y * y - 2 * y + 1 /\ Sq(0 + y) = y * y
        /\ x * x \in Int /\ y * y \in Int
    BY DEF Sq
  <2> QED BY <1>6, <2>1, <2>2
<1> HIDE DEF far, near, Apart, Close
<1>7. SUFFICES ASSUME NEW a \in Headings, NEW n \in {0, 10}, NEW e \in Reach, e.x = 0 \/ e.y = 0
      PROVE  LET d == Dist2(Along(e, a, 18), Along([x |-> 0, y |-> 0], a, n))
             IN  d <= Sq(r) \/ d >= Sq(r + 1)
  BY Zenon DEF ArrowFits
<1> DEFINE p == Along(e, a, 18)
           stand == Along([x |-> 0, y |-> 0], a, n)
           X == far[a + 1] - Quot(n * cos(a), 100)
           Y == far[quarter(a)] - Quot(n * sin(a), 100)
<1>8. /\ Quot(18 * cos(a), 100) = far[a + 1] /\ Quot(10 * cos(a), 100) = near[a + 1]
      /\ Quot(18 * sin(a), 100) = far[quarter(a)] /\ Quot(10 * sin(a), 100) = near[quarter(a)]
  BY <1>1, <1>2, <1>3 DEF cos, sin, quarter, Headings
<1>9. Quot(0 * cos(a), 100) = 0 /\ Quot(0 * sin(a), 100) = 0
  BY Table DEF Quot
<1>10. e.x \in Int /\ e.y \in Int
  BY DEF Reach
<1>11. X \in Int /\ Y \in Int
  <2>1. n * cos(a) \in Int /\ n * sin(a) \in Int
    BY Table
  <2> QED BY <1>4, <2>1, QuotInt
<1>12. p.x - stand.x = e.x + X /\ p.y - stand.y = e.y + Y
  BY <1>4, <1>8, <1>9, <1>10 DEF Along
<1>13. Dist2(p, stand) = Sq(e.x + X) + Sq(e.y + Y)
  BY <1>12, Zenon DEF Dist2
<1>14. 256 >= Sq(r + 1) /\ 100 <= Sq(r) /\ Sq(r) \in Int /\ Sq(r + 1) \in Int
  <2>1. r \in {10, 11, 12, 13, 14, 15}
    OBVIOUS
  <2> QED BY <2>1 DEF Sq
<1>15. n = 0 => Apart(X, Y)
  <2> SUFFICES ASSUME n = 0 PROVE Apart(X, Y)
    OBVIOUS
  <2>1. X = far[a + 1] /\ Y = far[quarter(a)]
    BY <1>4, <1>9
  <2> HIDE DEF X, Y
  <2> QED BY <1>5, <2>1
<1>16. n = 10 => Close(X, Y)
  <2> SUFFICES ASSUME n = 10 PROVE Close(X, Y)
    OBVIOUS
  <2>1. X = far[a + 1] - near[a + 1] /\ Y = far[quarter(a)] - near[quarter(a)]
    BY <1>8
  <2> HIDE DEF X, Y
  <2> QED BY <1>5, <2>1
<1> DEFINE D == Dist2(p, stand)
<1>17. D \in Int /\ (Apart(X, Y) => D >= 256) /\ (Close(X, Y) => D <= 100)
  <2> HIDE DEF X, Y, p, stand
  <2> QED BY <1>6, <1>7, <1>11, <1>13
<1>18. n = 0 \/ n = 10
  OBVIOUS
<1> HIDE DEF X, Y, D
<1>19. D <= Sq(r) \/ D >= Sq(r + 1)
  BY <1>14, <1>15, <1>16, <1>17, <1>18
<1> QED BY <1>19 DEF D

\* No pixel of an arrow lies just outside the disc of its player, wherever the
\* two are: eraseArrow would take it for one of the player's.
LEMMA ArrowClear ==
  ASSUME NEW a \in Points, NEW d \in Headings, NEW b \in {a, Along(a, d, STEP)},
         NEW p \in ArrowPixels(a, d), Dist2(p, b) < Sq(PLAYER_RADIUS + 1)
  PROVE  Dist2(p, b) <= Sq(PLAYER_RADIUS)
<1> DEFINE origin == [x |-> 0, y |-> 0]
           n == IF b = a THEN 0 ELSE STEP
           stand == Along(origin, d, n)
           tip == Along(a, d, ARROW_LEN)
           e == [x |-> p.x - tip.x, y |-> p.y - tip.y]
           q == Along(e, d, ARROW_LEN)
<1>1. ARROW_LEN \in Nat /\ STEP \in Nat /\ n \in {0, STEP} /\ n \in Nat
  BY RadiusAssumption, ArrowAssumption
<1>2. p \in Pixels /\ Dist2(p, tip) <= Sq(1) /\ p.x \in Int /\ p.y \in Int
  BY DEF ArrowPixels, Disc, Pixels
<1>3. origin \in Points /\ a.x \in Int /\ a.y \in Int
  BY DEF Points
<1>4. /\ tip.x = a.x + Quot(ARROW_LEN * cos(d), 100)
      /\ tip.y = a.y + Quot(ARROW_LEN * sin(d), 100)
      /\ Quot(ARROW_LEN * cos(d), 100) \in Int /\ Quot(ARROW_LEN * sin(d), 100) \in Int
  BY <1>1, AlongIs
<1>5. e \in Points /\ e.x = p.x - tip.x /\ e.y = p.y - tip.y
  BY <1>2, <1>3, <1>4 DEF Points
<1>6. /\ q.x = e.x + Quot(ARROW_LEN * cos(d), 100)
      /\ q.y = e.y + Quot(ARROW_LEN * sin(d), 100)
  BY <1>1, <1>5, AlongIs
<1>7. /\ stand.x = Quot(n * cos(d), 100) /\ stand.y = Quot(n * sin(d), 100)
      /\ stand.x \in Int /\ stand.y \in Int
  BY <1>1, <1>3, AlongIs
<1>8. b.x = a.x + stand.x /\ b.y = a.y + stand.y
  <2>1. CASE b = a
    <3>1. Quot(0 * cos(d), 100) = 0 /\ Quot(0 * sin(d), 100) = 0
      BY Table DEF Quot
    <3> QED BY <1>3, <1>7, <2>1, <3>1
  <2>2. CASE b # a
    BY <1>1, <1>7, <2>2, AlongIs
  <2> QED BY <2>1, <2>2
<1>9. e \in Reach /\ (e.x = 0 \/ e.y = 0)
  <2>1. Sq(e.x) + Sq(e.y) <= Sq(1) /\ e.x \in Int /\ e.y \in Int
    BY <1>2, <1>3, <1>4, <1>5 DEF Dist2
  <2>2. e.x \in {-1, 0, 1} /\ e.y \in {-1, 0, 1} /\ (e.x = 0 \/ e.y = 0)
    BY <2>1, SmallSquares
  <2> QED BY <2>2 DEF Reach
<1>10. Dist2(q, stand) <= Sq(PLAYER_RADIUS) \/ Dist2(q, stand) >= Sq(PLAYER_RADIUS + 1)
  BY <1>1, <1>9, ArrowAssumption, Zenon DEF ArrowFits
<1> HIDE DEF tip, e, q, stand
<1>11. Dist2(p, b) = Dist2(q, stand)
  <2>1. p.x - b.x = q.x - stand.x /\ p.y - b.y = q.y - stand.y
    BY <1>2, <1>3, <1>4, <1>5, <1>6, <1>7, <1>8
  <2> QED BY <2>1, Zenon DEF Dist2
<1>12. Dist2(p, b) \in Int /\ Sq(PLAYER_RADIUS + 1) \in Int
  <2>1. b.x \in Int /\ b.y \in Int
    BY <1>3, <1>7, <1>8
  <2> QED BY <1>2, <2>1, RadiusAssumption DEF Dist2, Sq
<1> QED BY <1>10, <1>11, <1>12

\* An erased arrow leaves what the new scene has there.
LEMMA ArrowErased ==
  ASSUME Players = {0}, NEW cv, NEW old, NEW new, OneScene(old), OneScene(new),
         new.position[0] \in {old.position[0], Along(old.position[0], old.angle[0], STEP)},
         NEW p \in Pixels
  PROVE  LET erased == eraseArrow(cv, old.position[0], old.angle[0], new)
         IN  /\ p \in ArrowPixels(old.position[0], old.angle[0]) => Right(erased[p], p, new)
             /\ ~(p \in ArrowPixels(old.position[0], old.angle[0])) => erased[p] = cv[p]
<1> DEFINE color(q) ==
             CASE Dist2(q, hole) <= Sq(hole_radius) -> Black
               [] Dist2(q, hole) > Sq(hole_radius) /\ PlayersNear(q, new) # {} ->
                    PlayerColor[First(PlayersNear(q, new)) + 1]
               [] OTHER -> IF BallsAt(q, new) = {} THEN Green
                           ELSE BallColor[First(BallsAt(q, new)) + 1]
           A == ArrowPixels(old.position[0], old.angle[0])
           f == [q \in A |-> color(q)]
<1>1. eraseArrow(cv, old.position[0], old.angle[0], new) = Paint(cv, f)
  BY Zenon DEF eraseArrow
<1>2. p \in DOMAIN f <=> p \in A
  BY Zenon
<1>3. p \in A => f[p] = color(p)
  BY Zenon
<1>4. ASSUME p \in A PROVE Right(color(p), p, new)
  <2>1. ~point_in_obstacle(p)
    BY <1>4 DEF ArrowPixels
  <2>2. First({0}) + 1 = 1
    BY FirstIsZero
  <2>3. /\ Dist2(p, hole) \in Int /\ Sq(hole_radius) \in Int
    BY RadiusAssumption, PlaceAssumption DEF Dist2, Sq, Points, Pixels
  <2>4. CASE Dist2(p, hole) <= Sq(hole_radius)
    <3>1. ~(Dist2(p, hole) > Sq(hole_radius))
      BY <2>3, <2>4
    <3>2. color(p) = Black
      BY <2>4, <3>1, Zenon
    <3> QED BY <2>4, <3>2, RightWhen, Zenon
  <2>5. CASE Dist2(p, hole) > Sq(hole_radius) /\ PlayersNear(p, new) # {}
    <3>1. PlayersNear(p, new) = {0} /\ Dist2(p, new.position[0]) < Sq(PLAYER_RADIUS + 1)
      BY <2>5, OneOf
    <3>2. Dist2(p, new.position[0]) <= Sq(PLAYER_RADIUS)
      BY <1>4, <3>1, ArrowClear DEF OneScene
    <3>3. ~(Dist2(p, hole) <= Sq(hole_radius))
      BY <2>3, <2>5
    <3>4. color(p) = PlayerColor[First(PlayersNear(p, new)) + 1]
      BY <2>5, <3>3, Zenon
    <3>5. color(p) = PlayerColor[1]
      BY <2>2, <3>1, <3>4, Zenon
    <3> QED BY <3>2, <3>5, RightWhen, Zenon
  <2>6. CASE Dist2(p, hole) > Sq(hole_radius) /\ PlayersNear(p, new) = {}
    <3>1. ~(Dist2(p, hole) <= Sq(hole_radius))
      BY <2>3, <2>6
    <3>2. color(p) = IF BallsAt(p, new) = {} THEN Green ELSE BallColor[First(BallsAt(p, new)) + 1]
      BY <2>6, <3>1, Zenon
    <3>3. ~(Dist2(p, new.position[0]) <= Sq(PLAYER_RADIUS))
      <4>1. ~(Dist2(p, new.position[0]) < Sq(PLAYER_RADIUS + 1))
        BY <2>6, OneOf
      <4>2. Dist2(p, new.position[0]) \in Int
        BY DEF OneScene, Dist2, Sq, Points, Pixels
      <4>3. Sq(PLAYER_RADIUS) < Sq(PLAYER_RADIUS + 1) /\ Sq(PLAYER_RADIUS) \in Int
              /\ Sq(PLAYER_RADIUS + 1) \in Int
        BY RadiusAssumption DEF Sq
      <4> QED BY <4>1, <4>2, <4>3
    <3>4. CASE BallsAt(p, new) = {}
      <4>1. ~(Dist2(p, new.ball[0]) <= Sq(BALL_RADIUS))
        BY <3>4, OneOf
      <4> QED BY <2>1, <3>1, <3>2, <3>3, <3>4, <4>1, RightWhen, Zenon
    <3>5. CASE BallsAt(p, new) # {}
      <4>1. BallsAt(p, new) = {0} /\ Dist2(p, new.ball[0]) <= Sq(BALL_RADIUS)
        BY <3>5, OneOf
      <4>2. color(p) = BallColor[1]
        BY <2>2, <3>2, <3>5, <4>1, Zenon
      <4> QED BY <4>1, <4>2, RightWhen, Zenon
    <3> QED BY <3>4, <3>5
  <2>7. Dist2(p, hole) <= Sq(hole_radius) \/ Dist2(p, hole) > Sq(hole_radius)
    BY <2>3
  <2> QED BY <2>4, <2>5, <2>6, <2>7
<1> HIDE DEF f, color, A
<1> QED BY <1>1, <1>2, <1>3, <1>4, PaintAt DEF A

LEMMA ArrowAt ==
  ASSUME NEW cv, NEW pos, NEW dir, NEW p \in Pixels
  PROVE  drawPlayerArrow(cv, pos, dir)[p] = IF p \in ArrowPixels(pos, dir) THEN Arrow ELSE cv[p]
<1> DEFINE f == [q \in ArrowPixels(pos, dir) |-> Arrow]
<1>1. (p \in DOMAIN f <=> p \in ArrowPixels(pos, dir)) /\ (p \in DOMAIN f => f[p] = Arrow)
  BY Zenon
<1>2. drawPlayerArrow(cv, pos, dir) = Paint(cv, f)
  BY Zenon DEF drawPlayerArrow
<1> HIDE DEF f
<1> QED BY <1>1, <1>2, PaintAt

-----------------------------------------------------------------------------
(* A frame, and the first picture of a round.                              *)

\* What a frame paints is right; what it does not paint was right and still is.
LEMMA RedrawRight ==
  ASSUME Players = {0}, NEW cv, NEW old, NEW new, OneScene(old), OneScene(new),
         new.position[0] \in {old.position[0], Along(old.position[0], old.angle[0], STEP)},
         RightPicture(cv, old)
  PROVE  RightPicture(Redraw(cv, 0, old, new), new)
<1> SUFFICES ASSUME NEW p \in Pixels PROVE Right(Redraw(cv, 0, old, new)[p], p, new)
  BY DEF RightPicture
<1> DEFINE playerMoved == old.position[0] # new.position[0]
           ballMoved == old.ball[0] # new.ball[0]
           arrowChanged == playerMoved \/ old.angle[0] # new.angle[0]
           wiped == erasePlayerSmart(cv, old.position[0], new)
           body == IF ~playerMoved THEN cv
                   ELSE drawCircle(wiped, new.position[0], PLAYER_RADIUS, PlayerColor[0 + 1])
           rolled == eraseBallSmart(body, old.ball[0], new)
           balls == IF ~ballMoved THEN body
                    ELSE drawCircle(rolled, new.ball[0], BALL_RADIUS, BallColor[0 + 1])
           turned == eraseArrow(balls, old.position[0], old.angle[0], new)
           last == IF ~arrowChanged THEN balls
                   ELSE drawPlayerArrow(turned, new.position[0], new.angle[0])
           atPlayer(s) == Dist2(p, s.position[0]) <= Sq(PLAYER_RADIUS)
           atBall(s) == Dist2(p, s.ball[0]) <= Sq(BALL_RADIUS)
           atArrow(s) == p \in ArrowPixels(s.position[0], s.angle[0])
<1>1. Redraw(cv, 0, old, new) = last
  BY Zenon DEF Redraw
<1>2. 0 + 1 = 1
  OBVIOUS
<1>3. \/ Right(body[p], p, new)
      \/ body[p] = cv[p] /\ (playerMoved => ~atPlayer(old) /\ ~atPlayer(new))
  <2>1. CASE ~playerMoved
    BY <2>1, Zenon
  <2>2. CASE playerMoved
    <3>1. body = drawCircle(wiped, new.position[0], PLAYER_RADIUS, PlayerColor[1])
      BY <1>2, <2>2, Zenon
    <3>2. (atPlayer(old) => Right(wiped[p], p, new)) /\ (~atPlayer(old) => wiped[p] = cv[p])
      BY <2>2, PlayerErased
    <3> HIDE DEF wiped, body
    <3>3. body[p] = IF atPlayer(new) THEN PlayerColor[1] ELSE wiped[p]
      BY <3>1, CircleAt
    <3>4. CASE atPlayer(new)
      BY <3>3, <3>4, RightWhen, Zenon
    <3> QED BY <3>2, <3>3, <3>4
  <2> QED BY <2>1, <2>2, Zenon
<1> HIDE DEF body
<1>4. \/ Right(balls[p], p, new)
      \/ balls[p] = body[p] /\ (ballMoved => ~atBall(old) /\ ~atBall(new))
  <2>1. CASE ~ballMoved
    BY <2>1, Zenon
  <2>2. CASE ballMoved
    <3>1. balls = drawCircle(rolled, new.ball[0], BALL_RADIUS, BallColor[1])
      BY <1>2, <2>2, Zenon
    <3>2. (atBall(old) => Right(rolled[p], p, new)) /\ (~atBall(old) => rolled[p] = body[p])
      BY <2>2, BallErased
    <3> HIDE DEF rolled, balls
    <3>3. balls[p] = IF atBall(new) THEN BallColor[1] ELSE rolled[p]
      BY <3>1, CircleAt
    <3>4. CASE atBall(new)
      BY <3>3, <3>4, RightWhen, Zenon
    <3> QED BY <3>2, <3>3, <3>4
  <2> QED BY <2>1, <2>2, Zenon
<1> HIDE DEF balls
<1>5. \/ Right(last[p], p, new)
      \/ last[p] = balls[p] /\ (arrowChanged => ~atArrow(old))
  <2>1. CASE ~arrowChanged
    BY <2>1, Zenon
  <2>2. CASE arrowChanged
    <3>1. last = drawPlayerArrow(turned, new.position[0], new.angle[0])
      BY <2>2, Zenon
    <3>2. (atArrow(old) => Right(turned[p], p, new)) /\ (~atArrow(old) => turned[p] = balls[p])
      <4>1. new.position[0] \in {old.position[0], Along(old.position[0], old.angle[0], STEP)}
        OBVIOUS
      <4> HIDE DEF balls, turned
      <4>2. turned = eraseArrow(balls, old.position[0], old.angle[0], new)
        BY DEF turned
      <4> QED BY <4>1, <4>2, ArrowErased
    <3> HIDE DEF turned, last
    <3>3. last[p] = IF atArrow(new) THEN Arrow ELSE turned[p]
      BY <3>1, ArrowAt
    <3>4. CASE atArrow(new)
      BY <3>3, <3>4, RightWhen, Zenon
    <3> QED BY <3>2, <3>3, <3>4
  <2> QED BY <2>1, <2>2, Zenon
<1> HIDE DEF last
<1>6. CASE /\ last[p] = cv[p] /\ (playerMoved => ~atPlayer(old) /\ ~atPlayer(new))
           /\ (ballMoved => ~atBall(old) /\ ~atBall(new)) /\ (arrowChanged => ~atArrow(old))
  <2>1. Right(cv[p], p, old)
    BY DEF RightPicture
  <2>2. (atPlayer(old) <=> atPlayer(new)) /\ (atBall(old) <=> atBall(new))
    BY <1>6, Zenon
  <2>3. atArrow(old) => atArrow(new)
    BY <1>6, Zenon
  <2>4. Right(cv[p], p, new)
    BY <2>1, <2>2, <2>3, RightStays, Zenon
  <2> QED BY <1>1, <1>6, <2>4, Zenon
<1>7. \/ Right(last[p], p, new)
      \/ /\ last[p] = cv[p] /\ (playerMoved => ~atPlayer(old) /\ ~atPlayer(new))
         /\ (ballMoved => ~atBall(old) /\ ~atBall(new)) /\ (arrowChanged => ~atArrow(old))
  BY <1>3, <1>4, <1>5, Zenon
<1> QED BY <1>1, <1>6, <1>7, Zenon

\* The hole painted again over the picture is right wherever it is painted.
LEMMA HoledRight ==
  ASSUME Players = {0}, NEW cv, NEW s, RightPicture(cv, s)
  PROVE  RightPicture(drawCircle(cv, hole, hole_radius, Black), s)
BY CircleAt, RightWhen DEF RightPicture

\* The first picture of a round is painted from nothing.
LEMMA DrawnRight ==
  ASSUME Players = {0}, NEW s
  PROVE  RightPicture(Drawn(s), s)
<1> SUFFICES ASSUME NEW p \in Pixels PROVE Right(Drawn(s)[p], p, s)
  BY DEF RightPicture
<1> DEFINE ground == [q \in Pixels |-> IF Dist2(q, hole) <= Sq(hole_radius) THEN Black
                                       ELSE IF point_in_obstacle(q) THEN Brown ELSE Green]
           body == drawCircle(ground, s.position[0], PLAYER_RADIUS, PlayerColor[0 + 1])
           balls == drawCircle(body, s.ball[0], BALL_RADIUS, BallColor[0 + 1])
           last == drawPlayerArrow(balls, s.position[0], s.angle[0])
<1>1. Drawn(s) = last
  BY Zenon DEF Drawn
<1>2. 0 + 1 = 1
  OBVIOUS
<1>3. ground[p] = IF Dist2(p, hole) <= Sq(hole_radius) THEN Black
                  ELSE IF point_in_obstacle(p) THEN Brown ELSE Green
  BY Zenon
<1> HIDE DEF ground
<1>4. body[p] = IF Dist2(p, s.position[0]) <= Sq(PLAYER_RADIUS) THEN PlayerColor[1] ELSE ground[p]
  BY <1>2, CircleAt
<1> HIDE DEF body
<1>5. balls[p] = IF Dist2(p, s.ball[0]) <= Sq(BALL_RADIUS) THEN BallColor[1] ELSE body[p]
  BY <1>2, CircleAt
<1> HIDE DEF balls
<1>6. last[p] = IF p \in ArrowPixels(s.position[0], s.angle[0]) THEN Arrow ELSE balls[p]
  BY ArrowAt
<1> HIDE DEF last
<1>7. CASE p \in ArrowPixels(s.position[0], s.angle[0])
  BY <1>1, <1>6, <1>7, RightWhen, Zenon
<1>8. CASE p \notin ArrowPixels(s.position[0], s.angle[0]) /\ Dist2(p, s.ball[0]) <= Sq(BALL_RADIUS)
  BY <1>1, <1>5, <1>6, <1>8, RightWhen, Zenon
<1>9. CASE /\ p \notin ArrowPixels(s.position[0], s.angle[0])
           /\ ~(Dist2(p, s.ball[0]) <= Sq(BALL_RADIUS))
           /\ Dist2(p, s.position[0]) <= Sq(PLAYER_RADIUS)
  BY <1>1, <1>4, <1>5, <1>6, <1>9, RightWhen, Zenon
<1>10. CASE /\ p \notin ArrowPixels(s.position[0], s.angle[0])
            /\ ~(Dist2(p, s.ball[0]) <= Sq(BALL_RADIUS))
            /\ ~(Dist2(p, s.position[0]) <= Sq(PLAYER_RADIUS))
  <2>1. Drawn(s)[p] = ground[p]
    BY <1>1, <1>4, <1>5, <1>6, <1>10, Zenon
  <2> QED BY <1>3, <1>10, <2>1, RightWhen, Zenon
<1> QED BY <1>7, <1>8, <1>9, <1>10, Zenon

-----------------------------------------------------------------------------
(* The specification.                                                      *)

LEMMA PictureIs == ShowsScene <=> (shown = "round" => RightPicture(canvas, Scene))
<1>1. Scene.position = position /\ Scene.angle = angle /\ Scene.ball = ball
  BY DEF Scene
<1>2. \A p : UnderThings(p, Scene) = Covering(p)
  BY Zenon DEF UnderThings, Covering
<1>3. \A p : (\E j \in Players : p \in ArrowPixels(Scene.position[j], Scene.angle[j]))
               <=> (\E j \in Players : p \in ArrowPixels(position[j], angle[j]))
  BY <1>1, Zenon
<1> QED BY <1>2, <1>3, Zenon DEF ShowsScene, RightPicture, Right

LEMMA SceneTyped ==
  ASSUME Players = {0}, TypedScene
  PROVE  OneScene(Scene) /\ Scene.position = position /\ Scene.angle = angle
BY DEF TypedScene, OneScene, Scene

LEMMA Turned == Angles \subseteq Headings /\ 0 \in Headings
BY AngleAssumption

LEMMA InitPicture ==
  ASSUME Players = {0}, Init
  PROVE  IInv
<1>1. TypedScene
  BY PlaceAssumption, Turned DEF Init, TypedScene
<1>2. RightPicture(canvas, Scene)
  BY DrawnRight DEF Init
<1> QED BY <1>1, <1>2, PictureIs DEF IInv

LEMMA FramePicture ==
  ASSUME Players = {0}, IInv, Frame
  PROVE  IInv'
<1>1. PICK new \in [Players -> {position[i] : i \in Players} \cup
                               {Along(position[i], angle[i], STEP) : i \in Players}] :
        (\A i \in Players : Walks(i, new[i])) /\ position' = new
  BY DEF Frame
<1>2. position'[0] \in {position[0], Along(position[0], angle[0], STEP)}
  BY <1>1
<1>3. \A a \in Points, d \in Headings : Along(a, d, STEP) \in Points
  BY RadiusAssumption, AlongIs
<1>4. position[0] \in Points /\ angle[0] \in Headings
  BY DEF IInv, TypedScene
<1>5. position' \in [Players -> Points]
  <2>1. position'[0] \in Points
    BY <1>2, <1>3, <1>4
  <2> QED BY <1>1, <2>1
<1>6. TypedScene'
  BY <1>5, PlaceAssumption, Turned DEF Frame, TypedScene
<1>7. OneScene(Scene) /\ Scene.position = position /\ Scene.angle = angle
  BY SceneTyped DEF IInv
<1>8. OneScene(Scene') /\ Scene'.position = position'
  BY <1>6 DEF TypedScene, OneScene, Scene
<1>9. RightPicture(canvas, Scene)
  BY PictureIs DEF IInv, Frame
<1> DEFINE holed == drawCircle(canvas, hole, hole_radius, Black)
<1>10. canvas' = Redraw(holed, 0, Scene, Scene')
  BY Zenon DEF Frame
<1>11. RightPicture(holed, Scene)
  BY <1>9, HoledRight
<1> HIDE DEF holed
<1>12. RightPicture(canvas', Scene')
  BY <1>2, <1>7, <1>8, <1>10, <1>11, RedrawRight, Zenon
<1>13. ShowsScene'
  <2>1. (ShowsScene <=> (shown = "round" => RightPicture(canvas, Scene)))'
    BY PictureIs, PTL
  <2> QED BY <1>12, <2>1
<1> QED BY <1>6, <1>13 DEF IInv

\* A picture painted with what is no longer there wiped out shows the scene
\* after any number of frames (redraw at game.c:410-432), in a game for one.
THEOREM PictureCorrect ==
  ASSUME Players = {0}
  PROVE  Spec => []ShowsScene
<1>1. Init => IInv
  BY InitPicture
<1>2. IInv /\ [Next]_vars => IInv'
  <2> SUFFICES ASSUME IInv, [Next]_vars PROVE IInv'
    OBVIOUS
  <2>1. CASE Frame
    BY <2>1, FramePicture
  <2>2. CASE displayFullScreenMessage
    BY <2>2 DEF displayFullScreenMessage, IInv, TypedScene, ShowsScene
  <2>3. CASE NewRound
    <3>1. TypedScene'
      BY <2>3, PlaceAssumption, Turned DEF NewRound, TypedScene
    <3>2. RightPicture(canvas', Scene')
      BY <2>3, DrawnRight DEF NewRound
    <3>3. (ShowsScene <=> (shown = "round" => RightPicture(canvas, Scene)))'
      BY PictureIs, PTL
    <3> QED BY <3>1, <3>2, <3>3 DEF IInv
  <2>4. CASE UNCHANGED vars
    <3>1. TypedScene'
      BY <2>4 DEF vars, IInv, TypedScene
    <3>2. ShowsScene'
      <4>1. UNCHANGED <<canvas, position, angle, ball, shown>>
        BY <2>4 DEF vars
      <4>2. Scene' = Scene
        BY <4>1 DEF Scene
      <4>3. (ShowsScene <=> (shown = "round" => RightPicture(canvas, Scene)))'
        BY PictureIs, PTL
      <4> QED BY <4>1, <4>2, <4>3, PictureIs DEF IInv
    <3> QED BY <3>1, <3>2 DEF IInv
  <2> QED BY <2>1, <2>2, <2>3, <2>4 DEF Next
<1>3. IInv => ShowsScene
  BY DEF IInv
<1> QED BY <1>1, <1>2, <1>3, PTL DEF Spec
=============================================================================
