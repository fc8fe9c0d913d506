----------------------------- MODULE GolfProofs -----------------------------
(***************************************************************************)
(* Proofs about Golf, for every screen, every place the numbers drawn can  *)
(* give to hole, obstacles, players and balls, and any number of strokes:  *)
(* nothing leaves the field, a frame computed with coordinates is a frame  *)
(* of Round, and without obstacles every ball can be played.               *)
(***************************************************************************)
EXTENDS Golf, NaturalsInduction, WellFoundedInduction, TLAPS

-----------------------------------------------------------------------------
(* Numbers.                                                                *)

\* A set of natural numbers has a least element, and Min is one.
LEMMA MinOfNat ==
  ASSUME NEW S \in SUBSET Nat, S # {}
  PROVE  Min(S) \in S /\ \A y \in S : Min(S) <= y
<1> DEFINE Less == OpToRel(<, Nat)
<1>1. IsWellFoundedOn(Less, Nat)
  BY Zenon, NatLessThanWellFounded
<1>2. \A x, y \in Nat : x < y => <<x, y>> \in Less
  BY Zenon DEF OpToRel
<1> HIDE DEF Less
<1>3. PICK x \in S : \A y \in S : ~ (<<y, x>> \in Less)
  BY <1>1, WFMin
<1>4. \A y \in S : ~(y < x)
  BY <1>2, <1>3
<1>5. \A y \in S : x <= y
  BY <1>4
<1> QED BY <1>5 DEF Min

\* The clamping of a coordinate between two borders.
Clamp(c, low, high) == Min({Max({c, low}), high})

LEMMA Clamped ==
  ASSUME NEW c \in Int, NEW low \in Int, NEW high \in Int, low <= high
  PROVE  /\ Clamp(c, low, high) \in low .. high
         /\ c \in low .. high => Clamp(c, low, high) = c
<1> DEFINE m == Max({c, low})
<1>1. m = IF c >= low THEN c ELSE low
  BY DEF Max
<1> HIDE DEF m
<1>2. Min({m, high}) = IF m <= high THEN m ELSE high
  BY <1>1 DEF Min
<1> QED BY <1>1, <1>2 DEF m, Clamp

\* The tables have a number for every direction.
LEMMA Table ==
  ASSUME NEW a \in 0 .. 35
  PROVE  cos(a) \in -100 .. 100 /\ sin(a) \in -100 .. 100
<1>1. (a + 27) % 36 = IF a <= 8 THEN a + 27 ELSE a - 9
  OBVIOUS
<1>2. \A k \in 1 .. 36 : cos_table[k] \in -100 .. 100
  BY DEF cos_table
<1> QED BY <1>1, <1>2 DEF cos, sin

\* Neither division of the tables' numbers loses a whole stroke: one of the two
\* is large.
LEMMA Heading ==
  ASSUME NEW a \in 0 .. 35
  PROVE  cos(a) >= 64 \/ cos(a) <= -64 \/ sin(a) >= 64 \/ sin(a) <= -64
<1>1. (a + 27) % 36 = IF a <= 8 THEN a + 27 ELSE a - 9
  OBVIOUS
<1>2. CASE a \in 0 .. 8
  BY <1>1, <1>2 DEF cos, sin, cos_table
<1>3. CASE a \in 9 .. 17
  BY <1>1, <1>3 DEF cos, sin, cos_table
<1>4. CASE a \in 18 .. 26
  BY <1>1, <1>4 DEF cos, sin, cos_table
<1>5. CASE a \in 27 .. 35
  BY <1>1, <1>5 DEF cos, sin, cos_table
<1> QED BY <1>2, <1>3, <1>4, <1>5

LEMMA QuotType ==
  ASSUME NEW a \in Int, NEW b \in Nat \ {0}
  PROVE  Quot(a, b) \in Int /\ (a >= b \/ a <= -b => Quot(a, b) # 0)
<1>1. CASE a < 0
  <2>1. (-a) \div b \in Nat /\ (a <= -b => (-a) \div b >= 1)
    BY <1>1
  <2> QED BY <1>1, <2>1 DEF Quot
<1>2. CASE ~(a < 0)
  <2>1. a \div b \in Nat /\ (a >= b => a \div b >= 1)
    BY <1>2
  <2> QED BY <1>2, <2>1 DEF Quot
<1> QED BY <1>1, <1>2

\* Squares grow.
LEMMA Squares ==
  /\ \A a \in Int : Sq(a) \in Nat
  /\ \A a, b \in Nat : a <= b => Sq(a) <= Sq(b)
<1>1. ASSUME NEW a \in Int PROVE Sq(a) \in Nat
  BY DEF Sq
<1>2. ASSUME NEW a \in Nat, NEW b \in Nat, a <= b PROVE Sq(a) <= Sq(b)
  BY <1>2 DEF Sq
<1> QED BY <1>1, <1>2

Point == [x : Int, y : Int]

LEMMA DistType ==
  ASSUME NEW p, NEW q, p.x \in Int, p.y \in Int, q.x \in Int, q.y \in Int
  PROVE  Dist2(p, q) \in Nat
<1>1. p.x - q.x \in Int /\ p.y - q.y \in Int
  OBVIOUS
<1> QED BY <1>1, Squares DEF Dist2

-----------------------------------------------------------------------------
(* The field.                                                              *)

Balls == [x : Int, y : Int, vx : Int, vy : Int]
Square == [x : Int, y : Int, size : Nat]

\* Where things are, and that every number is one.
FieldInv ==
  /\ num_players \in {1, 2} /\ hole_radius \in Nat
  /\ hole.x \in BALL_RADIUS .. (SCREEN_WIDTH - BALL_RADIUS)
  /\ hole.y \in (UI_TOP_MARGIN + BALL_RADIUS) .. (SCREEN_HEIGHT - BALL_RADIUS)
  /\ \E n \in Nat : obstacles \in [1 .. n -> Square]
  /\ angle \in [Both -> 0 .. 35] /\ ball \in [Both -> Balls]
  /\ OnField

LEMMA Margins ==
  /\ UI_TOP_MARGIN \in Nat /\ PLAYER_RADIUS \in Nat /\ POWER_FACTOR \in Nat
  /\ POWER_FACTOR >= 1 /\ SCREEN_WIDTH \in Nat /\ SCREEN_HEIGHT \in Nat
  /\ 5 <= SCREEN_WIDTH - 5 /\ UI_TOP_MARGIN + 5 <= SCREEN_HEIGHT - 5
BY ScreenAssumption DEF UI_TOP_MARGIN, PLAYER_RADIUS, POWER_FACTOR

\* Two circles that do not overlap, and a circle that touches no obstacle, do
\* not when they are smaller.
LEMMA SmallerCircles ==
  ASSUME NEW p, p.x \in Int, p.y \in Int, NEW q, q.x \in Int, q.y \in Int,
         NEW r1 \in Nat, NEW r2 \in Nat, NEW s1 \in Nat, NEW s2 \in Nat, r1 <= s1, r2 <= s2,
         ~circles_overlap(p, s1, q, s2)
  PROVE  ~circles_overlap(p, r1, q, r2)
<1>1. Sq(r1 + r2) <= Sq(s1 + s2) /\ Sq(r1 + r2) \in Nat /\ Sq(s1 + s2) \in Nat
  BY Squares
<1>2. Dist2(p, q) \in Nat
  BY DistType
<1> QED BY <1>1, <1>2 DEF circles_overlap

LEMMA SmallerTouches ==
  ASSUME NEW p, p.x \in Int, p.y \in Int, NEW r \in Nat, NEW s \in Nat, r <= s,
         NEW n \in Nat, NEW obs \in [1 .. n -> Square],
         circle_obstacle_collision(p, s, obs) = {}
  PROVE  circle_obstacle_collision(p, r, obs) = {}
<1>1. ASSUME NEW k \in DOMAIN obs, Touches(p, r, obs[k])
      PROVE  Touches(p, s, obs[k])
  <2> DEFINE o == obs[k]
             q == [x |-> Nearest(p.x, o.x, o.size), y |-> Nearest(p.y, o.y, o.size)]
  <2>1. o.x \in Int /\ o.y \in Int /\ o.size \in Nat
    BY <1>1 DEF Square
  <2> HIDE DEF o
  <2>2. q.x \in Int /\ q.y \in Int
    BY <2>1 DEF Nearest
  <2>3. Dist2(p, q) <= Sq(r)
    BY <1>1 DEF Touches, o
  <2> HIDE DEF q
  <2>4. Dist2(p, q) \in Nat
    BY <2>2, DistType
  <2>6. Sq(r) <= Sq(s) /\ Sq(r) \in Nat /\ Sq(s) \in Nat
    BY Squares
  <2>5. Dist2(p, q) <= Sq(s)
    BY <2>3, <2>4, <2>6
  <2> QED BY <2>5 DEF Touches, q, o
<1> QED BY <1>1 DEF circle_obstacle_collision

\* Where players and balls are placed they are on the field, and no ball is in
\* the hole.
LEMMA PlacedOnField ==
  ASSUME Init
  PROVE  /\ FieldInv
         /\ \A i \in P : Dist2(ball[i], hole) > Sq(hole_radius)
<1>1. num_players \in {1, 2} /\ P \subseteq Both
  BY RoundAssumption DEF Init, P, Both
<1>2. hole_radius \in Nat
  <2>1. PICK level \in Levels : hole_radius = get_hole_radius(level)
    BY DEF Init
  <2>2. level \in Nat
    BY RoundAssumption
  <2>3. get_hole_radius(level) \in Nat
    <3>1. CASE level <= 1
      BY <2>2, <3>1 DEF get_hole_radius
    <3>2. CASE level >= 20
      BY <2>2, <3>2 DEF get_hole_radius
    <3>3. CASE level > 1 /\ level < 20
      BY <2>2, <3>3 DEF get_hole_radius
    <3> QED BY <2>2, <3>1, <3>2, <3>3
  <2> QED BY <2>1, <2>3
<1>3. /\ hole.x \in BALL_RADIUS .. (SCREEN_WIDTH - BALL_RADIUS)
      /\ hole.y \in (UI_TOP_MARGIN + BALL_RADIUS) .. (SCREEN_HEIGHT - BALL_RADIUS)
  <2>1. Within(hole, hole_radius)
    BY DEF Init
  <2> QED BY <1>2, <2>1, Margins DEF Within, margin, BALL_RADIUS
<1>4. PICK n \in Nat : obstacles \in [1 .. n -> Square]
  <2>1. PICK level \in Levels : obstacles \in generate_obstacles(level, hole)
    BY DEF Init
  <2>2. \E n \in 0 .. level - 1 : obstacles \in [1 .. n -> ObstacleSpots]
    BY <2>1 DEF generate_obstacles
  <2>3. level \in Nat
    BY RoundAssumption
  <2>4. PICK n \in 0 .. level - 1 : obstacles \in [1 .. n -> ObstacleSpots]
    BY <2>2
  <2>5. obstacles \in [1 .. n -> Square] /\ n \in Nat
    BY <2>3, <2>4, ObstacleAssumption DEF Square
  <2> QED BY <2>5
<1>5. PICK b \in [Both -> BallSpots \cup {Origin}] :
        /\ num_players = 1 <=> b[1] = Origin
        /\ ball = [i \in Both |-> AtRest(b[i])]
  BY DEF Init
<1>6. \A i \in Both : /\ ball[i] = AtRest(b[i]) /\ ball[i].x = b[i].x /\ ball[i].y = b[i].y
  BY <1>5 DEF AtRest
<1>7. ASSUME NEW i \in P
      PROVE  /\ ball[i] \in Balls /\ BallOnField(i) /\ Dist2(ball[i], hole) > Sq(hole_radius)
  <2>1. BallPlaced(i)
    BY DEF Init
  <2>2. ball[i].x \in BALL_RADIUS .. (SCREEN_WIDTH - BALL_RADIUS)
        /\ ball[i].y \in (UI_TOP_MARGIN + BALL_RADIUS) .. (SCREEN_HEIGHT - BALL_RADIUS)
    BY <2>1, Margins DEF BallPlaced, Within, BALL_RADIUS, margin
  <2>3. ball[i].x \in Int /\ ball[i].y \in Int
    BY <2>2, Margins DEF BALL_RADIUS
  <2>4. ball[i] \in Balls
    <3>1. i \in Both
      BY <1>1
    <3>2. b[i].x \in Int /\ b[i].y \in Int
      BY <1>6, <2>3, <3>1
    <3>3. ball[i] = [x |-> b[i].x, y |-> b[i].y, vx |-> 0, vy |-> 0]
      BY <1>6, <3>1, Zenon DEF AtRest
    <3> QED BY <3>2, <3>3 DEF Balls
  <2>5. BallOnField(i)
    BY <2>2 DEF BallOnField
  <2>6. ~circles_overlap(ball[i], 1, hole, hole_radius)
    <3>1. ~circles_overlap(ball[i], 15, hole, hole_radius + 10)
      BY <2>1 DEF BallPlaced
    <3>2. hole.x \in Int /\ hole.y \in Int
      BY <1>3, Margins DEF BALL_RADIUS
    <3> QED BY <1>2, <2>3, <3>1, <3>2, SmallerCircles
  <2>7. Dist2(ball[i], hole) > Sq(hole_radius)
    <3>1. ~(Dist2(ball[i], hole) < Sq(1 + hole_radius))
      BY <2>6 DEF circles_overlap
    <3>2. Sq(1 + hole_radius) = Sq(hole_radius) + 2 * hole_radius + 1
      BY <1>2 DEF Sq
    <3>3. Dist2(ball[i], hole) \in Nat /\ Sq(hole_radius) \in Nat
      BY <1>2, <1>3, <2>3, DistType, Squares, Margins DEF BALL_RADIUS
    <3> QED BY <1>2, <3>1, <3>2, <3>3
  <2> QED BY <2>4, <2>5, <2>7
<1>8. ball \in [Both -> Balls]
  <2>1. \A i \in Both : ball[i] \in Balls
    <3>1. CASE num_players = 2
      BY <1>7, <3>1 DEF P, Both
    <3>2. CASE num_players = 1
      <4>1. ball[0] \in Balls
        BY <1>7, <3>2 DEF P
      <4>2. ball[1] = AtRest(Origin)
        BY <1>5, <1>6, <3>2 DEF Both
      <4>3. ball[1] \in Balls
        BY <4>2 DEF AtRest, Origin, Balls
      <4> QED BY <4>1, <4>3 DEF Both
    <3> QED BY <1>1, <3>1, <3>2
  <2> QED BY <1>5, <2>1
<1>9. ASSUME NEW i \in P PROVE PlayerOnField(i)
  <2>1. PlayerPlaced(i)
    BY DEF Init
  <2>2. position[i].x \in PLAYER_RADIUS .. (SCREEN_WIDTH - PLAYER_RADIUS)
        /\ position[i].y \in (UI_TOP_MARGIN + PLAYER_RADIUS) .. (SCREEN_HEIGHT - PLAYER_RADIUS)
    BY <2>1, Margins DEF PlayerPlaced, Within, margin
  <2>3. position[i].x \in Int /\ position[i].y \in Int /\ hole.x \in Int /\ hole.y \in Int
    BY <1>3, <2>2, Margins DEF BALL_RADIUS
  <2>4. ~circles_overlap(position[i], PLAYER_RADIUS, hole, hole_radius)
    <3>1. ~circles_overlap(position[i], PLAYER_RADIUS + 10, hole, hole_radius + 10)
      BY <2>1 DEF PlayerPlaced
    <3> QED BY <1>2, <2>3, <3>1, SmallerCircles, Margins
  <2>5. circle_obstacle_collision(position[i], PLAYER_RADIUS, obstacles) = {}
    <3>1. circle_obstacle_collision(position[i], PLAYER_RADIUS + 10, obstacles) = {}
      BY <2>1 DEF PlayerPlaced
    <3>2. PLAYER_RADIUS \in Nat /\ PLAYER_RADIUS + 10 \in Nat
          /\ PLAYER_RADIUS <= PLAYER_RADIUS + 10
      BY Margins
    <3> QED BY <1>4, <2>3, <3>1, <3>2, SmallerTouches
  <2> QED BY <2>2, <2>4, <2>5 DEF PlayerOnField
<1>10. angle \in [Both -> 0 .. 35]
  BY DEF Init
<1>11. OnField
  BY <1>7, <1>9 DEF OnField
<1> QED BY <1>1, <1>2, <1>3, <1>4, <1>7, <1>8, <1>10, <1>11 DEF FieldInv

-----------------------------------------------------------------------------
(* The parts of a frame.                                                   *)

LEMMA PlayersAre ==
  ASSUME num_players \in {1, 2}
  PROVE  P \subseteq Both /\ Both = {0, 1} /\ 0 \in P /\ (1 \in P <=> num_players = 2)
BY DEF P, Both

\* A step is taken to a free place or not at all, and a turn is to a direction.
LEMMA ControlsField ==
  ASSUME FieldInv, UNCHANGED field, NEW keys, Controls(keys)
  PROVE  /\ angle' \in [Both -> 0 .. 35]
         /\ \A i \in P : PlayerOnField(i)' /\ position'[i].x \in Int /\ position'[i].y \in Int
<1>1. angle' \in [Both -> 0 .. 35]
  <2>1. \A i \in Both : angle[i] \in 0 .. 35
    BY DEF FieldInv
  <2>2. \A i \in Both : Turned(i, keys[i]) \in 0 .. 35
    <3> SUFFICES ASSUME NEW i \in Both PROVE Turned(i, keys[i]) \in 0 .. 35
      OBVIOUS
    <3> DEFINE t == angle[i] + (IF "left" \in keys[i] THEN 35 ELSE 0)
                             + (IF "right" \in keys[i] THEN 1 ELSE 0)
    <3>1. t \in Nat
      BY <2>1
    <3> HIDE DEF t
    <3>2. t % 36 \in 0 .. 35
      BY <3>1
    <3> QED BY <2>1, <3>2 DEF Turned, t
  <2> QED BY <2>1, <2>2 DEF Controls
<1>2. ASSUME NEW i \in P
      PROVE  PlayerOnField(i)' /\ position'[i].x \in Int /\ position'[i].y \in Int
  <2>1. i \in Both /\ P' = P
    BY PlayersAre DEF FieldInv, field, P
  <2>2. position'[i] = Moved(i, keys[i])
    BY <2>1 DEF Controls
  <2>3. PlayerOnField(i)
    BY DEF FieldInv, OnField
  <2>4. position[i].x \in Int /\ position[i].y \in Int
    BY <2>3, Margins DEF PlayerOnField
  <2>5. CASE position'[i] = position[i]
    BY <2>3, <2>4, <2>5 DEF PlayerOnField, field
  <2>6. CASE position'[i] = Step(position[i], angle[i]) /\ Free(Step(position[i], angle[i]))
    <3> DEFINE q == Step(position[i], angle[i])
    <3>1. Quot(cos(angle[i]), 10) \in Int /\ Quot(sin(angle[i]), 10) \in Int
      <4>1. angle[i] \in 0 .. 35
        BY <2>1 DEF FieldInv
      <4>2. cos(angle[i]) \in Int /\ sin(angle[i]) \in Int
        BY SMTT(30), <4>1, Table
      <4> QED BY <4>2, QuotType
    <3>2. q.x \in Int /\ q.y \in Int
      BY <2>4, <3>1 DEF Step
    <3> HIDE DEF q
    <3>3. position'[i] = q /\ Free(q)
      BY <2>6 DEF q
    <3>4. q.x \in PLAYER_RADIUS .. (SCREEN_WIDTH - PLAYER_RADIUS)
          /\ q.y \in (UI_TOP_MARGIN + PLAYER_RADIUS) .. (SCREEN_HEIGHT - PLAYER_RADIUS)
      BY <3>2, <3>3, Margins DEF Free
    <3>5. ~circles_overlap(q, PLAYER_RADIUS, hole, hole_radius)
      <4>1. Dist2(q, hole) > Sq(PLAYER_RADIUS + hole_radius)
        BY <3>3 DEF Free
      <4>2. Dist2(q, hole) \in Nat /\ Sq(PLAYER_RADIUS + hole_radius) \in Nat
        <5>1. hole.x \in Int /\ hole.y \in Int
          BY Margins DEF FieldInv, BALL_RADIUS
        <5>2. PLAYER_RADIUS + hole_radius \in Int
          BY Margins DEF FieldInv
        <5>3. Dist2(q, hole) \in Nat
          BY <3>2, <5>1, DistType
        <5> QED BY <5>2, <5>3, Squares
      <4> QED BY <4>1, <4>2 DEF circles_overlap
    <3>6. circle_obstacle_collision(q, PLAYER_RADIUS, obstacles) = {}
      BY <3>3 DEF Free
    <3> QED BY <3>2, <3>3, <3>4, <3>5, <3>6 DEF PlayerOnField, field
  <2> QED BY <2>2, <2>5, <2>6 DEF Moved
<1> QED BY <1>1, <1>2

\* A stroke changes the velocity and nothing else, and never to 0.
LEMMA StruckBalls ==
  ASSUME FieldInv, angle' \in [Both -> 0 .. 35], NEW j \in Both, NEW n \in {0, 1, 2}
  PROVE  /\ Struck(j, n) \in Balls /\ Struck(j, n).x = ball[j].x /\ Struck(j, n).y = ball[j].y
         /\ Rolling(Struck(j, n)) <=> Rolling(ball[j]) \/ \E i \in P : i < n /\ Drives(i, j)
         /\ (\A i \in P : ~Drives(i, j)) => Struck(j, n) = ball[j]
<1> DEFINE by == {i \in P : i < n /\ Drives(i, j)}
<1>0. ball[j] \in Balls
  BY DEF FieldInv
<1>1. CASE by = {}
  <2>1. Struck(j, n) = ball[j]
    BY <1>1 DEF Struck
  <2> QED BY <1>0, <1>1, <2>1
<1>2. CASE by # {}
  <2> DEFINE last == Max(by)
             vx == Quot(cos(angle'[last]) * POWER_FACTOR, 10)
             vy == Quot(sin(angle'[last]) * POWER_FACTOR, 10)
  <2>1. by \subseteq {0, 1} /\ by # {}
    BY <1>2, PlayersAre DEF FieldInv
  <2> HIDE DEF by
  <2>2. last \in {0, 1}
    <3>1. \E x \in by : \A y \in by : x >= y
      <4>1. CASE 1 \in by
        BY <2>1, <4>1
      <4>2. CASE 1 \notin by
        <5>1. by = {0}
          BY <2>1, <4>2
        <5> QED BY <5>1
      <4> QED BY <4>1, <4>2
    <3> QED BY <2>1, <3>1 DEF Max
  <2> HIDE DEF last
  <2>3. angle'[last] \in 0 .. 35
    BY <2>2 DEF Both
  <2> DEFINE c == cos(angle'[last])
             s == sin(angle'[last])
  <2>4. c \in Int /\ s \in Int /\ (c >= 64 \/ c <= -64 \/ s >= 64 \/ s <= -64)
    <3>1. c \in -100 .. 100 /\ s \in -100 .. 100
      BY <2>3, Table
    <3>2. c >= 64 \/ c <= -64 \/ s >= 64 \/ s <= -64
      BY <2>3, Heading
    <3> QED BY <3>1, <3>2
  <2> HIDE DEF c, s
  <2>5. POWER_FACTOR \in Nat /\ POWER_FACTOR >= 1
    BY Margins
  <2>6. \A a \in Int : /\ a * POWER_FACTOR \in Int
                       /\ a >= 64 => a * POWER_FACTOR >= 10
                       /\ a <= -64 => a * POWER_FACTOR <= -10
    BY <2>5
  <2>7. vx \in Int /\ vy \in Int /\ (vx # 0 \/ vy # 0)
    <3>1. /\ c * POWER_FACTOR \in Int /\ s * POWER_FACTOR \in Int
          /\ \/ c * POWER_FACTOR >= 10 \/ c * POWER_FACTOR <= -10
             \/ s * POWER_FACTOR >= 10 \/ s * POWER_FACTOR <= -10
      BY <2>4, <2>6
    <3>2. vx = Quot(c * POWER_FACTOR, 10) /\ vy = Quot(s * POWER_FACTOR, 10)
      BY DEF c, s
    <3> QED BY <3>1, <3>2, QuotType
  <2>8. Struck(j, n) = [ball[j] EXCEPT !.vx = vx, !.vy = vy]
    BY <1>2, Zenon DEF Struck, by, last
  <2> HIDE DEF vx, vy
  <2>9. /\ Struck(j, n) \in Balls /\ Struck(j, n).x = ball[j].x /\ Struck(j, n).y = ball[j].y
        /\ Struck(j, n).vx = vx /\ Struck(j, n).vy = vy
    BY <1>0, <2>7, <2>8 DEF Balls
  <2>10. Rolling(Struck(j, n))
    BY <2>7, <2>9 DEF Rolling
  <2> QED BY <1>2, <2>9, <2>10 DEF by
<1> QED BY <1>1, <1>2

\* Moving on, bouncing and slowing down.
LEMMA RolledBalls ==
  ASSUME FieldInv, NEW b \in Balls
  PROVE  Slowed(Bounce(Advance(b))) \in Balls
<1>1. Advance(b) \in Balls
  <2>1. Quot(b.vx, 10) \in Int /\ Quot(b.vy, 10) \in Int
    BY QuotType DEF Balls
  <2>2. b.x + Quot(b.vx, 10) \in Int /\ b.y + Quot(b.vy, 10) \in Int
    BY <2>1 DEF Balls
  <2> QED BY <2>2 DEF Advance, Balls
<1>2. ASSUME NEW a \in Balls PROVE Bounce(a) \in Balls
  <2> DEFINE hit == circle_obstacle_collision(a, BALL_RADIUS, obstacles)
             o == obstacles[Min(hit)]
  <2>1. CASE hit = {}
    BY <1>2, <2>1 DEF Bounce
  <2>2. CASE hit # {}
    <3>1. PICK n \in Nat : obstacles \in [1 .. n -> Square]
      BY DEF FieldInv
    <3>2. hit \subseteq 1 .. n
      BY <3>1 DEF circle_obstacle_collision
    <3>3. Min(hit) \in 1 .. n
      <4> HIDE DEF hit
      <4>1. hit \in SUBSET Nat
        BY <3>2
      <4> QED BY <2>2, <3>2, <4>1, MinOfNat
    <3>4. o \in Square
      BY <3>1, <3>3
    <3> HIDE DEF hit, o
    <3>5. o.x \in Int /\ o.y \in Int /\ o.size \in Int
      BY <3>4 DEF Square
    <3>6. \/ Bounce(a) = [a EXCEPT !.vx = -@, !.x = o.x - 5]
          \/ Bounce(a) = [a EXCEPT !.vx = -@, !.x = o.x + o.size + 5]
          \/ Bounce(a) = [a EXCEPT !.vy = -@, !.y = o.y - 5]
          \/ Bounce(a) = [a EXCEPT !.vy = -@, !.y = o.y + o.size + 5]
      BY <2>2 DEF Bounce, hit, o
    <3>7. \A v \in Int : \A c \in Int : /\ [a EXCEPT !.vx = v, !.x = c] \in Balls
                                        /\ [a EXCEPT !.vy = v, !.y = c] \in Balls
      BY DEF Balls
    <3>8. /\ -a.vx \in Int /\ -a.vy \in Int
          /\ o.x - 5 \in Int /\ o.x + o.size + 5 \in Int
          /\ o.y - 5 \in Int /\ o.y + o.size + 5 \in Int
      BY <3>5 DEF Balls
    <3> QED BY <3>6, <3>7, <3>8
  <2> QED BY <2>1, <2>2
<1>3. ASSUME NEW a \in Balls PROVE Slowed(a) \in Balls
  <2>1. a.vx * 95 \in Int /\ a.vy * 95 \in Int
    BY DEF Balls
  <2>2. Quot(a.vx * 95, 100) \in Int /\ Quot(a.vy * 95, 100) \in Int
    BY SMTT(30), <2>1, QuotType
  <2> QED BY <2>2 DEF Slowed, Balls
<1> QED BY <1>1, <1>2, <1>3

\* The borders put a ball back on the field, and leave alone one that is on it.
LEMMA BorderBalls ==
  ASSUME NEW b \in Balls
  PROVE  /\ Border(b) \in Balls
         /\ Border(b).x \in BALL_RADIUS .. (SCREEN_WIDTH - BALL_RADIUS)
         /\ Border(b).y \in (UI_TOP_MARGIN + BALL_RADIUS) .. (SCREEN_HEIGHT - BALL_RADIUS)
         /\ (/\ b.x \in BALL_RADIUS .. (SCREEN_WIDTH - BALL_RADIUS)
             /\ b.y \in (UI_TOP_MARGIN + BALL_RADIUS) .. (SCREEN_HEIGHT - BALL_RADIUS)) => Border(b) = b
<1> DEFINE x == Clamp(b.x, 5, SCREEN_WIDTH - 5)
           y == Clamp(b.y, UI_TOP_MARGIN + 5, SCREEN_HEIGHT - 5)
           vx == IF b.x < 5 \/ b.x > SCREEN_WIDTH - 5 THEN -b.vx ELSE b.vx
           vy == IF b.y < UI_TOP_MARGIN + 5 \/ b.y > SCREEN_HEIGHT - 5 THEN -b.vy ELSE b.vy
<1>0. /\ b.x \in Int /\ b.y \in Int /\ b.vx \in Int /\ b.vy \in Int
      /\ b = [x |-> b.x, y |-> b.y, vx |-> b.vx, vy |-> b.vy]
  BY DEF Balls
<1> DEFINE left == 5
           right == SCREEN_WIDTH - 5
           bottom == SCREEN_HEIGHT - 5
           top == UI_TOP_MARGIN + 5
<1>r. /\ left \in Int /\ right \in Int /\ left <= right /\ top \in Int /\ bottom \in Int /\ top <= bottom
  BY Margins
<1>1. /\ x \in 5 .. (SCREEN_WIDTH - 5)
      /\ b.x \in 5 .. (SCREEN_WIDTH - 5) => x = b.x
  <2> HIDE DEF left, right
  <2>1. Clamp(b.x, left, right) \in left .. right
    BY <1>0, <1>r, Clamped
  <2>2. b.x \in left .. right => Clamp(b.x, left, right) = b.x
    BY <1>0, <1>r, Clamped
  <2> QED BY <2>1, <2>2 DEF left, right
<1>2. /\ y \in (UI_TOP_MARGIN + 5) .. (SCREEN_HEIGHT - 5)
      /\ b.y \in (UI_TOP_MARGIN + 5) .. (SCREEN_HEIGHT - 5) => y = b.y
  <2> HIDE DEF top, bottom
  <2>1. Clamp(b.y, top, bottom) \in top .. bottom
    BY <1>0, <1>r, Clamped
  <2>2. b.y \in top .. bottom => Clamp(b.y, top, bottom) = b.y
    BY <1>0, <1>r, Clamped
  <2> QED BY <2>1, <2>2 DEF top, bottom
<1>3. /\ vx \in Int /\ vy \in Int
      /\ b.x \in 5 .. (SCREEN_WIDTH - 5) => vx = b.vx
      /\ b.y \in (UI_TOP_MARGIN + 5) .. (SCREEN_HEIGHT - 5) => vy = b.vy
  BY <1>0, Margins
<1>4. Border(b) = [x |-> x, y |-> y, vx |-> vx, vy |-> vy]
  BY DEF Border, Clamp
<1> HIDE DEF x, y, vx, vy
<1>5. x \in Int /\ y \in Int
  BY <1>1, <1>2, Margins
<1>6. Border(b) \in Balls /\ Border(b).x = x /\ Border(b).y = y
  BY <1>3, <1>4, <1>5 DEF Balls
<1> QED BY <1>0, <1>1, <1>2, <1>3, <1>4, <1>6 DEF BALL_RADIUS

\* The balls when the borders are done with them, before the hole is looked at.
LEMMA PlayBalls ==
  ASSUME FieldInv, angle' \in [Both -> 0 .. 35], Play
  PROVE  \E balls :
           /\ \A j \in Both : balls[j] \in Balls
           /\ \A j \in P : /\ balls[j].x \in BALL_RADIUS .. (SCREEN_WIDTH - BALL_RADIUS)
                           /\ balls[j].y \in (UI_TOP_MARGIN + BALL_RADIUS)
                                               .. (SCREEN_HEIGHT - BALL_RADIUS)
           /\ \A j \in Both : ~Rolling(Struck(j, num_players)) => balls[j] = ball[j]
           /\ \A j \in P : Rolling(Struck(j, num_players)) /\ ~ball_in_hole[j] =>
                balls[j] = Border(Slowed(Bounce(Advance(Struck(j, num_players)))))
           /\ \A j \in Both \ P : balls[j] = ball[j]
           /\ ball_in_hole' = [j \in Both |-> ball_in_hole[j] \/ j \in Holed(balls)]
           /\ ball' = [j \in Both |-> IF j \in Holed(balls) THEN AtRest(hole) ELSE balls[j]]
<1> DEFINE struck == [j \in Both |-> Struck(j, num_players)]
           rolls == {j \in P : Rolling(struck[j]) /\ ~ball_in_hole[j]}
           ahead == [j \in Both |-> IF j \in rolls THEN Advance(struck[j]) ELSE struck[j]]
           slowed == [j \in Both |-> IF j \in rolls THEN Slowed(Bounce(ahead[j])) ELSE ahead[j]]
           balls == [j \in Both |-> IF j \in P THEN Border(slowed[j]) ELSE slowed[j]]
<1>0. num_players \in {0, 1, 2} /\ P \subseteq Both
  BY PlayersAre DEF FieldInv
<1>1. \A j \in Both : /\ struck[j] \in Balls
                      /\ ~Rolling(Struck(j, num_players)) => struck[j] = ball[j]
                      /\ j \notin P => struck[j] = ball[j]
  <2> SUFFICES ASSUME NEW j \in Both
               PROVE  /\ Struck(j, num_players) \in Balls
                      /\ ~Rolling(Struck(j, num_players)) => Struck(j, num_players) = ball[j]
                      /\ j \notin P => Struck(j, num_players) = ball[j]
    OBVIOUS
  <2>1. /\ Struck(j, num_players) \in Balls
        /\ Rolling(Struck(j, num_players))
             <=> Rolling(ball[j]) \/ \E i \in P : i < num_players /\ Drives(i, j)
        /\ (\A i \in P : ~Drives(i, j)) => Struck(j, num_players) = ball[j]
    BY <1>0, StruckBalls
  <2>2. \A i \in P : i < num_players
    BY <1>0 DEF P
  <2>3. j \notin P => \A i \in P : ~Drives(i, j)
    BY DEF Drives
  <2> QED BY <2>1, <2>2, <2>3
<1>2. /\ ball_in_hole' = [j \in Both |-> ball_in_hole[j] \/ j \in Holed(balls)]
      /\ ball' = [j \in Both |-> IF j \in Holed(balls) THEN AtRest(hole) ELSE balls[j]]
  <2> DEFINE Left(b) == /\ ball_in_hole' = [j \in Both |-> ball_in_hole[j] \/ j \in Holed(b)]
                        /\ ball' = [j \in Both |-> IF j \in Holed(b) THEN AtRest(hole) ELSE b[j]]
             B(w) == [j \in Both |-> IF j \in P THEN Border(w[j]) ELSE w[j]]
             W(r, a) == [j \in Both |-> IF j \in r THEN Slowed(Bounce(a[j])) ELSE a[j]]
             A(s, r) == [j \in Both |-> IF j \in r THEN Advance(s[j]) ELSE s[j]]
             Q(s) == {j \in P : Rolling(s[j]) /\ ~ball_in_hole[j]}
  <2>1. PICK s \in {struck} : \E r \in {Q(s)} : \E a \in {A(s, r)} : \E w \in {W(r, a)} :
                             \E b \in {B(w)} : Left(b)
    BY Zenon DEF Play
  <2>2. PICK r \in {Q(s)} : \E a \in {A(s, r)} : \E w \in {W(r, a)} : \E b \in {B(w)} : Left(b)
    BY Zenon, <2>1
  <2>a. PICK a \in {A(s, r)} : \E w \in {W(r, a)} : \E b \in {B(w)} : Left(b)
    BY Zenon, <2>2
  <2>w. PICK w \in {W(r, a)} : \E b \in {B(w)} : Left(b)
    BY Zenon, <2>a
  <2>b. PICK b \in {B(w)} : Left(b)
    BY Zenon, <2>w
  <2>3. s = struck /\ r = rolls
    BY <2>1, <2>2
  <2>4. a = ahead
    BY <2>3, <2>a
  <2>5. w = slowed
    BY <2>3, <2>4, <2>w
  <2>6. b = balls
    BY <2>5, <2>b
  <2> QED BY <2>b, <2>6
<1>9. \A j \in P : Rolling(Struck(j, num_players)) /\ ~ball_in_hole[j] =>
        balls[j] = Border(Slowed(Bounce(Advance(Struck(j, num_players)))))
  BY <1>0
<1> HIDE DEF struck
<1>3. \A j \in Both : /\ slowed[j] \in Balls
                      /\ j \notin rolls => slowed[j] = struck[j]
  <2> SUFFICES ASSUME NEW j \in Both
               PROVE  slowed[j] \in Balls /\ (j \notin rolls => slowed[j] = struck[j])
    OBVIOUS
  <2>1. CASE j \in rolls
    <3>1. slowed[j] = Slowed(Bounce(Advance(struck[j])))
      BY <2>1
    <3> QED BY <1>1, <2>1, <3>1, RolledBalls
  <2>2. CASE j \notin rolls
    BY <1>1, <2>2
  <2> QED BY <2>1, <2>2
<1>4. \A j \in Both : ~Rolling(Struck(j, num_players)) \/ j \notin P => j \notin rolls
  BY DEF struck
<1> HIDE DEF slowed, rolls
<1>5. \A j \in Both : balls[j] \in Balls
  BY <1>3, BorderBalls
<1>6. \A j \in P : /\ balls[j].x \in BALL_RADIUS .. (SCREEN_WIDTH - BALL_RADIUS)
                   /\ balls[j].y \in (UI_TOP_MARGIN + BALL_RADIUS) .. (SCREEN_HEIGHT - BALL_RADIUS)
  <2> SUFFICES ASSUME NEW j \in P
               PROVE  /\ balls[j].x \in BALL_RADIUS .. (SCREEN_WIDTH - BALL_RADIUS)
                      /\ balls[j].y \in (UI_TOP_MARGIN + BALL_RADIUS)
                                          .. (SCREEN_HEIGHT - BALL_RADIUS)
    OBVIOUS
  <2>1. balls[j] = Border(slowed[j]) /\ slowed[j] \in Balls
    BY <1>0, <1>3
  <2> QED BY <2>1, BorderBalls
<1>7. \A j \in Both \ P : balls[j] = ball[j]
  BY <1>1, <1>3, <1>4
<1>8. ASSUME NEW j \in Both, ~Rolling(Struck(j, num_players))
      PROVE  balls[j] = ball[j]
  <2>1. slowed[j] = ball[j]
    BY <1>1, <1>3, <1>4, <1>8
  <2>2. CASE j \in P
    <3>1. BallOnField(j) /\ ball[j] \in Balls
      BY <2>2 DEF FieldInv, OnField
    <3>2. Border(ball[j]) = ball[j]
      BY <3>1, BorderBalls DEF BallOnField
    <3> QED BY <2>1, <2>2, <3>2
  <2>3. CASE j \notin P
    BY <1>7, <2>3
  <2> QED BY <2>2, <2>3
<1> HIDE DEF balls
<1> QED BY <1>2, <1>5, <1>6, <1>7, <1>8, <1>9

\* What a frame leaves is on the field again.
LEMMA NextField == FieldInv /\ [Next]_vars => FieldInv'
<1> SUFFICES ASSUME FieldInv, [Next]_vars PROVE FieldInv'
  OBVIOUS
<1>0. CASE UNCHANGED vars
  BY <1>0 DEF vars, field, FieldInv, OnField, PlayerOnField, BallOnField, P
<1>1. ASSUME NEW keys, Controls(keys), SeventhStroke \/ Play
      PROVE  FieldInv'
  <2>1. UNCHANGED field
    BY <1>1 DEF SeventhStroke, Play
  <2>2. P' = P /\ P \subseteq Both
    BY <2>1, PlayersAre DEF field, P, FieldInv
  <2>3. /\ angle' \in [Both -> 0 .. 35]
        /\ \A i \in P : PlayerOnField(i)'
    BY <1>1, <2>1, ControlsField
  <2>4. ball' \in [Both -> Balls] /\ \A i \in P : BallOnField(i)'
    <3>1. CASE SeventhStroke
      <4>1. PICK n \in P : ball' = [j \in Both |-> Struck(j, n)]
        BY <3>1 DEF SeventhStroke
      <4>2. n \in {0, 1, 2}
        BY PlayersAre DEF FieldInv
      <4>3. \A j \in Both : /\ Struck(j, n) \in Balls
                            /\ Struck(j, n).x = ball[j].x /\ Struck(j, n).y = ball[j].y
        BY <2>3, <4>2, StruckBalls
      <4>4. \A i \in P : BallOnField(i)
        BY DEF FieldInv, OnField
      <4> QED BY <2>2, <4>1, <4>3, <4>4 DEF BallOnField
    <3>2. CASE Play
      <4>1. PICK balls :
              /\ \A j \in Both : balls[j] \in Balls
              /\ \A j \in P : /\ balls[j].x \in BALL_RADIUS .. (SCREEN_WIDTH - BALL_RADIUS)
                              /\ balls[j].y \in (UI_TOP_MARGIN + BALL_RADIUS)
                                                  .. (SCREEN_HEIGHT - BALL_RADIUS)
              /\ ball' = [j \in Both |-> IF j \in Holed(balls) THEN AtRest(hole) ELSE balls[j]]
        BY <2>3, <3>2, PlayBalls
      <4>2. /\ AtRest(hole) \in Balls /\ AtRest(hole).x = hole.x /\ AtRest(hole).y = hole.y
        <5>1. hole.x \in Int /\ hole.y \in Int
          BY Margins DEF FieldInv, BALL_RADIUS
        <5> QED BY <5>1 DEF AtRest, Balls
      <4>3. \A j \in Both : ball'[j] \in Balls
        BY <4>1, <4>2
      <4>4. ball' \in [Both -> Balls]
        BY <4>1, <4>3
      <4>5. \A j \in P : ball'[j] = AtRest(hole) \/ ball'[j] = balls[j]
        BY <2>2, <4>1
      <4>6. \A j \in P : BallOnField(j)'
        BY <4>1, <4>2, <4>5 DEF BallOnField, FieldInv
      <4> QED BY <4>4, <4>6
    <3> QED BY <1>1, <3>1, <3>2
  <2>5. OnField'
    BY <2>2, <2>3, <2>4 DEF OnField
  <2> QED BY <2>1, <2>3, <2>4, <2>5 DEF FieldInv, field
<1> QED BY <1>0, <1>1 DEF Next, Frame

\* Wherever steps, strokes, bounces and borders take them, players stand on the
\* field, off the hole and off the obstacles, and balls lie between the borders
\* (game.c:208-370), on screens of any size.
THEOREM FieldKept == Spec => []OnField
<1>1. Init => FieldInv
  BY PlacedOnField
<1>2. FieldInv => OnField
  BY DEF FieldInv
<1> QED BY <1>1, <1>2, NextField, PTL DEF Spec

-----------------------------------------------------------------------------
(* A frame is a frame of Round.                                            *)

\* The pairs of players and balls of Round: who has which ball in reach.
Reached == {t \in P \X P : InReach(t[1], t[2])}

\* The balls Round lets come to rest, and those it lets fall into the hole.
Stopped(balls) == {j \in P : ~Rolling(balls[j])}
Dropped(balls) == {j \in P : Dist2(balls[j], hole) <= Sq(hole_radius)}

\* While the loop runs nobody has won, and no ball lies in the hole or within
\* its radius: such a ball has ended the round in the frame that took it there.
RoundInv ==
  /\ ball_in_hole \in [Both -> BOOLEAN] /\ victorias \in [Both -> Int]
  /\ phase = "play" =>
       /\ ganador = -1
       /\ \A j \in Both : ~ball_in_hole[j]
       /\ \A j \in P : Dist2(ball[j], hole) > Sq(hole_radius)

LEMMA SamePlayers == R!P = P /\ R!Both = Both /\ \A S, i : R!First(S, i) <=> First(S, i)
BY DEF R!P, P, R!Both, Both, R!First, First

\* With Reached, the strokes of Round are those of the frame.
LEMMA SameStrokes ==
  ASSUME num_players \in {1, 2}
  PROVE  /\ \A i \in P, j \in Both : R!Strikes(i, j, Reached) <=> Drives(i, j)
         /\ \A i \in P : R!Fails(i, Reached) <=> Fails(i)
         /\ \A n : R!Strokes(Reached, n) = [i \in Both |-> Counted(i, n)]
         /\ \A j \in Both : \A n : R!Driven(j, Reached, n) <=> \E i \in P : i < n /\ Drives(i, j)
<1>0. P \subseteq Both /\ Both = {0, 1}
  BY PlayersAre
<1>1. \A i \in P, k \in P : <<i, k>> \in Reached <=> InReach(i, k)
  BY DEF Reached
<1>2. ASSUME NEW i \in P, NEW j \in Both
      PROVE  R!Strikes(i, j, Reached) <=> Drives(i, j)
  <2> DEFINE S == {k \in P : <<i, k>> \in Reached /\ ~ball_in_hole[k]}
  <2>1. S = {k \in P : InReach(i, k) /\ ~ball_in_hole[k]}
    BY <1>1
  <2>2. R!Strikes(i, j, Reached) <=> puede_golpear[i] /\ First(S, j)
    BY SamePlayers DEF R!Strikes
  <2>3. First(S, j) <=> /\ j \in P /\ InReach(i, j) /\ ~ball_in_hole[j]
                        /\ \A k \in P : (k < j /\ ~ball_in_hole[k]) => ~InReach(i, k)
    <3>1. \A k \in P : j <= k <=> ~(k < j)
      BY <1>0
    <3>2. First(S, j) <=> j \in S /\ \A k \in S : ~(k < j)
      BY <3>1 DEF First
    <3> QED BY Zenon, <2>1, <3>2
  <2> QED BY <2>2, <2>3 DEF Drives
<1>3. ASSUME NEW i \in P
      PROVE  R!Fails(i, Reached) <=> Fails(i)
  BY <1>0, <1>2 DEF R!Fails, Fails, R!NOBODY
<1>4. ASSUME NEW n
      PROVE  R!Strokes(Reached, n) = [i \in Both |-> Counted(i, n)]
  BY <1>0, <1>2, SamePlayers DEF R!Strokes, Counted
<1>5. ASSUME NEW j \in Both, NEW n
      PROVE  R!Driven(j, Reached, n) <=> \E i \in P : i < n /\ Drives(i, j)
  BY <1>2, SamePlayers DEF R!Driven
<1> QED BY <1>2, <1>3, <1>4, <1>5

\* The stroke too many ends the round the way Round says.
LEMMA SeventhIsFailedRound ==
  ASSUME FieldInv, angle' \in [Both -> 0 .. 35], phase = "play", SeventhStroke
  PROVE  R!FailedRound(Reached)
<1>0. num_players \in {1, 2} /\ P \subseteq Both /\ Both = {0, 1}
  BY PlayersAre DEF FieldInv
<1>1. PICK i \in P :
        /\ Fails(i) /\ \A k \in P : k < i => ~Fails(k)
        /\ ganador' = 1 - i
        /\ golpes' = [k \in Both |-> Counted(k, i)]
        /\ puede_golpear' = [k \in Both |-> puede_golpear[k] /\ ~(k < i /\ \E j \in P : Drives(k, j))]
        /\ ball' = [j \in Both |-> Struck(j, i)]
  BY DEF SeventhStroke
<1>2. First({k \in P : R!Fails(k, Reached)}, i)
  <2>1. \A k \in P : R!Fails(k, Reached) <=> Fails(k)
    BY <1>0, SameStrokes
  <2> QED BY <1>0, <1>1, <2>1 DEF First
<1>3. golpes' = R!Strokes(Reached, i)
  BY <1>0, <1>1, SameStrokes
<1>4. puede_golpear' = [k \in Both |-> /\ puede_golpear[k]
                                       /\ ~(k < i /\ \E j \in P : R!Strikes(k, j, Reached))]
  <2>1. \A k \in Both : k < i => k \in P
    BY <1>0 DEF P
  <2>2. \A k \in Both : (k < i /\ \E j \in P : R!Strikes(k, j, Reached))
                          <=> (k < i /\ \E j \in P : Drives(k, j))
    BY <1>0, <2>1, SameStrokes
  <2> QED BY <1>1, <2>2
<1>5. Moving' = [j \in Both |-> Moving[j] \/ R!Driven(j, Reached, i)]
  <2>1. i \in {0, 1, 2}
    BY <1>0
  <2>2. \A j \in Both : Rolling(Struck(j, i)) <=> Rolling(ball[j]) \/ R!Driven(j, Reached, i)
    BY <1>0, <2>1, StruckBalls, SameStrokes
  <2>3. \A j \in Both : Rolling(ball'[j]) <=> Rolling(ball[j]) \/ R!Driven(j, Reached, i)
    BY <1>1, <2>2
  <2>4. Moving' = [j \in Both |-> Rolling(ball'[j])]
    BY Zenon DEF Moving, Both, Rolling
  <2>5. \A j \in Both : Moving[j] = Rolling(ball[j])
    BY DEF Moving
  <2>6. \A j \in Both : Rolling(ball'[j]) = (Moving[j] \/ R!Driven(j, Reached, i))
    BY <2>3, <2>5 DEF Rolling
  <2> QED BY Zenon, <2>4, <2>6
<1>6. phase' = "failed" /\ UNCHANGED <<num_players, ball_in_hole, victorias>>
  BY DEF SeventhStroke, field
<1> QED BY ZenonT(30), <1>1, <1>2, <1>3, <1>4, <1>5, <1>6, SamePlayers DEF R!FailedRound, R!Other

\* What Play does to the balls, in the terms of Round: of the balls in the hole
\* the first is holed, and a ball that is not driven and at rest stays.
LEMMA PlayOutcome ==
  ASSUME FieldInv, RoundInv, angle' \in [Both -> 0 .. 35], phase = "play", Play
  PROVE  \E balls :
           /\ ball_in_hole' = [j \in Both |-> ball_in_hole[j]
                                               \/ First(R!Sinking(Dropped(balls)), j)]
           /\ \A j \in Dropped(balls) : Moving[j] \/ R!Driven(j, Reached, num_players)
           /\ Moving' = [j \in Both |-> /\ Moving[j] \/ R!Driven(j, Reached, num_players)
                                        /\ j \notin Stopped(balls)
                                        /\ ~First(R!Sinking(Dropped(balls)), j)]
           /\ R!Sinking(Dropped(balls)) = {} =>
                \A j \in P : Dist2(ball'[j], hole) > Sq(hole_radius)
<1>0. num_players \in {1, 2} /\ P \subseteq Both /\ Both = {0, 1} /\ num_players \in {0, 1, 2}
  BY PlayersAre DEF FieldInv
<1>1. PICK balls :
        /\ \A j \in Both : balls[j] \in Balls
        /\ \A j \in Both : ~Rolling(Struck(j, num_players)) => balls[j] = ball[j]
        /\ \A j \in Both \ P : balls[j] = ball[j]
        /\ ball_in_hole' = [j \in Both |-> ball_in_hole[j] \/ j \in Holed(balls)]
        /\ ball' = [j \in Both |-> IF j \in Holed(balls) THEN AtRest(hole) ELSE balls[j]]
  BY PlayBalls
<1>2. \A j \in Both : Rolling(Struck(j, num_players))
                        <=> Rolling(ball[j]) \/ R!Driven(j, Reached, num_players)
  BY <1>0, StruckBalls, SameStrokes
<1>3. \A j \in Both : Moving[j] = Rolling(ball[j])
  BY DEF Moving
<1>4. \A j \in Both : j \in Holed(balls) <=> First(R!Sinking(Dropped(balls)), j)
  <2>1. R!Sinking(Dropped(balls)) = {k \in P : /\ Dist2(balls[k], hole) <= Sq(hole_radius)
                                               /\ ~ball_in_hole[k] /\ ganador = -1}
    BY SamePlayers DEF R!Sinking, Dropped, R!NOBODY
  <2>2. \A j : First(R!Sinking(Dropped(balls)), j) => j \in P
    BY <2>1 DEF First
  <2> QED BY <2>1, <2>2 DEF Holed
<1>5. ball_in_hole' = [j \in Both |-> ball_in_hole[j] \/ First(R!Sinking(Dropped(balls)), j)]
  BY <1>1, <1>4
<1>6. ASSUME NEW j \in Dropped(balls)
      PROVE  Rolling(Struck(j, num_players))
  <2>1. j \in P /\ j \in Both /\ Dist2(balls[j], hole) <= Sq(hole_radius)
    BY <1>0 DEF Dropped
  <2>2. Dist2(ball[j], hole) > Sq(hole_radius)
    BY <2>1 DEF RoundInv
  <2>3. Dist2(ball[j], hole) \in Int /\ Sq(hole_radius) \in Int
    <3>1. ball[j] \in Balls /\ ball[j].x \in Int /\ ball[j].y \in Int
      BY <2>1 DEF FieldInv, Balls
    <3>2. hole.x \in Int /\ hole.y \in Int /\ hole_radius \in Int
      BY Margins DEF FieldInv, BALL_RADIUS
    <3>3. hole_radius * hole_radius \in Int
      BY <3>2
    <3> QED BY <3>1, <3>2, <3>3, DistType DEF Sq
  <2>4. balls[j] # ball[j]
    BY <2>1, <2>2, <2>3
  <2> QED BY <1>1, <2>1, <2>4
<1>7. \A j \in Dropped(balls) : Moving[j] \/ R!Driven(j, Reached, num_players)
  <2>1. \A j \in Dropped(balls) : j \in Both
    BY <1>0 DEF Dropped
  <2> QED BY <1>2, <1>3, <1>6, <2>1
<1>8. Moving' = [j \in Both |-> /\ Moving[j] \/ R!Driven(j, Reached, num_players)
                                /\ j \notin Stopped(balls)
                                /\ ~First(R!Sinking(Dropped(balls)), j)]
  <2>1. Moving' = [j \in Both |-> Rolling(ball'[j])]
    BY Zenon DEF Moving, Both, Rolling
  <2>2. ASSUME NEW j \in Both
        PROVE  Rolling(ball'[j]) <=> /\ Moving[j] \/ R!Driven(j, Reached, num_players)
                                     /\ j \notin Stopped(balls)
                                     /\ ~First(R!Sinking(Dropped(balls)), j)
    <3>1. CASE j \in Holed(balls)
      <4>1. ball'[j] = AtRest(hole)
        BY <1>1, <3>1
      <4>2. ~Rolling(ball'[j])
        BY <4>1 DEF AtRest, Rolling
      <4> QED BY <1>4, <3>1, <4>2
    <3>2. CASE j \notin Holed(balls)
      <4>1. ball'[j] = balls[j]
        BY <1>1, <3>2
      <4>2. Rolling(balls[j]) => Rolling(ball[j]) \/ R!Driven(j, Reached, num_players)
        BY <1>1, <1>2
      <4>3. CASE j \in P
        <5>1. j \in Stopped(balls) <=> ~Rolling(balls[j])
          BY <4>3 DEF Stopped
        <5> QED BY <1>3, <1>4, <3>2, <4>1, <4>2, <5>1
      <4>4. CASE j \notin P
        <5>1. balls[j] = ball[j] /\ j \notin Stopped(balls)
          BY <1>1, <4>4 DEF Stopped
        <5>2. ~R!Driven(j, Reached, num_players)
          <6>1. \A i \in P : ~Drives(i, j)
            BY <4>4 DEF Drives
          <6> QED BY <1>0, <6>1, SameStrokes
        <5> QED BY <1>3, <1>4, <3>2, <4>1, <5>1, <5>2
      <4> QED BY <4>3, <4>4
    <3> QED BY <3>1, <3>2
  <2>3. \A j \in Both :
          Rolling(ball'[j]) = (/\ Moving[j] \/ R!Driven(j, Reached, num_players)
                               /\ j \notin Stopped(balls)
                               /\ ~First(R!Sinking(Dropped(balls)), j))
    BY <2>2 DEF Rolling
  <2> QED BY Zenon, <2>1, <2>3
<1>9. ASSUME R!Sinking(Dropped(balls)) = {}
      PROVE  \A j \in P : Dist2(ball'[j], hole) > Sq(hole_radius)
  <2> SUFFICES ASSUME NEW j \in P PROVE Dist2(ball'[j], hole) > Sq(hole_radius)
    OBVIOUS
  <2>1. j \in Both /\ ball'[j] = balls[j]
    BY <1>0, <1>1, <1>4, <1>9 DEF First
  <2>2. ~(Dist2(balls[j], hole) <= Sq(hole_radius))
    BY <1>0, <1>9, SamePlayers DEF R!Sinking, Dropped, R!NOBODY, RoundInv
  <2>3. balls[j].x \in Int /\ balls[j].y \in Int /\ hole.x \in Int /\ hole.y \in Int
    BY <1>1, <2>1, Margins DEF FieldInv, BALL_RADIUS, Balls
  <2>4. Dist2(balls[j], hole) \in Int
    BY <2>3, DistType
  <2>5. Sq(hole_radius) \in Int
    <3>1. hole_radius \in Int
      BY DEF FieldInv
    <3>2. hole_radius * hole_radius \in Int
      BY <3>1
    <3> QED BY <3>2 DEF Sq
  <2> QED BY <2>1, <2>2, <2>4, <2>5
<1> QED BY <1>5, <1>7, <1>8, <1>9

\* A set of players that is not empty has a first one.
LEMMA FirstOfPlayers ==
  ASSUME NEW S \in SUBSET {0, 1}
  PROVE  /\ S # {} => \E i \in S : First(S, i)
         /\ \A i, j : First(S, i) /\ First(S, j) => i = j
         /\ S # {} => First(S, Min(S))
<1>1. S # {} => \E i \in S : First(S, i)
  <2>1. 0 \in S => First(S, 0)
    BY DEF First
  <2>2. 0 \notin S /\ 1 \in S => First(S, 1)
    BY DEF First
  <2> QED BY <2>1, <2>2
<1>2. \A i, j : First(S, i) /\ First(S, j) => i = j
  BY DEF First
<1>3. S # {} => First(S, Min(S))
  <2>1. S \in SUBSET Nat
    OBVIOUS
  <2> QED BY <2>1, MinOfNat DEF First
<1> QED BY <1>1, <1>2, <1>3

\* Every other frame is one Round allows, and keeps what Round relies on.
LEMMA PlayIsPlayFrame ==
  ASSUME FieldInv, RoundInv, angle' \in [Both -> 0 .. 35], phase = "play", Play
  PROVE  /\ R!PlayStrokes(Reached) /\ \E stop, drop \in SUBSET R!P : R!Settle(Reached, stop, drop)
         /\ RoundInv'
<1>0. /\ num_players \in {1, 2} /\ P \subseteq Both /\ Both = {0, 1}
      /\ ganador = -1 /\ \A j \in Both : ~ball_in_hole[j]
      /\ P = R!P /\ 0 \in P /\ (1 \in P <=> num_players = 2)
  BY PlayersAre, SamePlayers DEF FieldInv, RoundInv
<1>1. PICK balls :
        /\ ball_in_hole' = [j \in Both |-> ball_in_hole[j]
                                             \/ First(R!Sinking(Dropped(balls)), j)]
        /\ \A j \in Dropped(balls) : Moving[j] \/ R!Driven(j, Reached, num_players)
        /\ Moving' = [j \in Both |-> /\ Moving[j] \/ R!Driven(j, Reached, num_players)
                                     /\ j \notin Stopped(balls)
                                     /\ ~First(R!Sinking(Dropped(balls)), j)]
        /\ R!Sinking(Dropped(balls)) = {} =>
             \A j \in P : Dist2(ball'[j], hole) > Sq(hole_radius)
  BY PlayOutcome
<1> DEFINE sinking == R!Sinking(Dropped(balls))
<1>2. Stopped(balls) \in SUBSET R!P /\ Dropped(balls) \in SUBSET R!P /\ sinking \in SUBSET {0, 1}
  BY <1>0 DEF Stopped, Dropped, R!Sinking
<1>3. \A i \in P : ~R!Fails(i, Reached)
  BY <1>0, SameStrokes DEF Play
<1>4. golpes' = R!Strokes(Reached, num_players)
  BY <1>0, SameStrokes DEF Play
<1>5. puede_golpear' = R!Armed(Reached)
  <2>1. \A i \in P : /\ <<i, i>> \in Reached <=> InReach(i, i)
                     /\ \A j \in P : R!Strikes(i, j, Reached) <=> Drives(i, j)
    BY <1>0, SameStrokes DEF Reached
  <2>2. puede_golpear' = [i \in Both |-> IF i \notin P THEN puede_golpear[i]
                         ELSE ~InReach(i, i) \/ (puede_golpear[i] /\ ~\E j \in P : Drives(i, j))]
    BY DEF Play
  <2>3. R!Armed(Reached) =
          [i \in Both |-> IF i \notin P THEN puede_golpear[i]
                          ELSE <<i, i>> \notin Reached \/
                               (puede_golpear[i] /\ ~\E j \in P : R!Strikes(i, j, Reached))]
    BY SamePlayers DEF R!Armed
  <2> QED BY <2>1, <2>2, <2>3
<1>6. \A j \in P : ball_in_hole'[j] <=> First(sinking, j)
  BY <1>0, <1>1
<1>7. /\ \A j \in P : ball_in_hole'[j] => /\ ganador' = j /\ First(sinking, j)
      /\ (\A j \in P : ~ball_in_hole'[j]) =>
            /\ sinking = {}
            /\ ganador' = IF Spent = {} THEN -1
                          ELSE IF num_players = 1 THEN -2 ELSE 1 - Min(Spent)
  <2>1. \A j, k \in P : ball_in_hole'[j] /\ ball_in_hole'[k] => j = k
    BY <1>2, <1>6, FirstOfPlayers
  <2>2. ASSUME NEW j \in P, ball_in_hole'[j]
        PROVE  ganador' = j
    <3>1. (CHOOSE k \in P : ball_in_hole'[k]) = j
      BY <2>1, <2>2
    <3> QED BY <2>2, <3>1 DEF Play
  <2>3. ASSUME \A j \in P : ~ball_in_hole'[j]
        PROVE  /\ sinking = {}
               /\ ganador' = IF Spent = {} THEN -1
                             ELSE IF num_players = 1 THEN -2 ELSE 1 - Min(Spent)
    <3>1. sinking = {}
      <4>1. sinking \subseteq P
        BY <1>0 DEF R!Sinking
      <4> QED BY <1>2, <1>6, <2>3, <4>1, FirstOfPlayers
    <3> QED BY <2>3, <3>1 DEF Play
  <2> QED BY <1>6, <2>2, <2>3
<1>8. R!Spent = Spent /\ Spent \in SUBSET {0, 1}
  <2>1. \A i \in P : Moving'[i] <=> Rolling(ball'[i])
    BY <1>0 DEF Moving, Rolling
  <2> QED BY <1>0, <2>1 DEF R!Spent, Spent
<1>9. R!Result(Dropped(balls))
  <2>1. CASE \E j \in P : ball_in_hole'[j]
    BY <1>0, <1>7, <2>1, SamePlayers DEF R!Result
  <2>2. CASE (\A j \in P : ~ball_in_hole'[j]) /\ Spent = {}
    BY <1>0, <1>7, <1>8, <2>2, SamePlayers DEF R!Result, R!NOBODY
  <2>3. CASE (\A j \in P : ~ball_in_hole'[j]) /\ Spent # {}
    <3>1. First(Spent, Min(Spent)) /\ Min(Spent) \in P
      BY <1>8, <2>3, FirstOfPlayers DEF First, Spent
    <3>2. ganador' = IF num_players = 1 THEN -2 ELSE 1 - Min(Spent)
      BY <1>7, <2>3
    <3> QED BY <1>0, <1>7, <1>8, <2>3, <3>1, <3>2, SamePlayers
            DEF R!Result, R!NOBODY, R!DEFEAT, R!Other
  <2> QED BY <2>1, <2>2, <2>3
<1>10. /\ ganador' \in {-2, -1, 0, 1}
       /\ ganador' = 1 => num_players = 2
       /\ num_players = 1 => (ganador' = 0 <=> ball_in_hole'[0])
  <2>1. CASE \E j \in P : ball_in_hole'[j]
    BY <1>0, <1>7, <2>1
  <2>2. CASE (\A j \in P : ~ball_in_hole'[j]) /\ Spent = {}
    BY <1>0, <1>7, <2>2
  <2>3. CASE (\A j \in P : ~ball_in_hole'[j]) /\ Spent # {}
    <3>1. Min(Spent) \in {0, 1}
      BY <1>8, <2>3, FirstOfPlayers DEF First
    <3> QED BY <1>0, <1>7, <2>3, <3>1
  <2> QED BY <2>1, <2>2, <2>3
<1>11. victorias' = IF ganador' = -1 THEN victorias
                    ELSE [i \in Both |-> victorias[i] + R!CountedAtDecision(i)
                                                       + R!CountedAtMessage(i)]
  <2>1. \A i \in Both : victorias[i] \in Int
    BY DEF RoundInv
  <2>2. victorias' = [i \in Both |-> victorias[i] + IF ganador' = i THEN num_players ELSE 0]
    BY DEF Play
  <2>3. CASE ganador' = -1
    <3>1. victorias' = [i \in Both |-> victorias[i]]
      BY <1>0, <2>1, <2>2, <2>3
    <3>2. victorias = [i \in Both |-> victorias[i]]
      BY DEF RoundInv
    <3> QED BY <2>3, <3>1, <3>2
  <2>4. CASE ganador' # -1
    <3>1. \A i \in Both : R!CountedAtDecision(i) + R!CountedAtMessage(i)
                            = IF ganador' = i THEN num_players ELSE 0
      <4>1. CASE num_players = 1
        BY <1>0, <1>10, <4>1 DEF R!CountedAtDecision, R!CountedAtMessage, R!DEFEAT
      <4>2. CASE num_players = 2
        BY <4>2 DEF R!CountedAtDecision, R!CountedAtMessage
      <4> QED BY <1>0, <4>1, <4>2
    <3>2. \A i \in Both : R!CountedAtDecision(i) \in Int /\ R!CountedAtMessage(i) \in Int
      BY DEF R!CountedAtDecision, R!CountedAtMessage
    <3>3. \A i \in Both : victorias[i] + R!CountedAtDecision(i) + R!CountedAtMessage(i)
                            = victorias[i] + IF ganador' = i THEN num_players ELSE 0
      BY <2>1, <3>1, <3>2
    <3> QED BY <2>2, <2>4, <3>3
  <2> QED BY <2>3, <2>4
<1>12. R!PlayStrokes(Reached) /\ R!Settle(Reached, Stopped(balls), Dropped(balls))
  <2>1. phase' = (IF ganador' = -1 THEN "play" ELSE "over") /\ UNCHANGED num_players
    BY DEF Play, field
  <2> QED BY <1>0, <1>1, <1>3, <1>4, <1>5, <1>9, <1>11, <2>1, SamePlayers
          DEF R!PlayStrokes, R!Settle, R!NOBODY
<1>13. RoundInv'
  <2>1. ball_in_hole' \in [Both -> BOOLEAN]
    <3>1. \A j \in Both : ball_in_hole'[j] \in BOOLEAN
      BY <1>1 DEF RoundInv, First
    <3> QED BY <1>1, <3>1
  <2>2. victorias' \in [Both -> Int]
    <3>1. \A i \in Both : victorias[i] + (IF ganador' = i THEN num_players ELSE 0) \in Int
      BY <1>0 DEF RoundInv
    <3> QED BY <3>1 DEF Play
  <2>3. ASSUME phase' = "play"
        PROVE  /\ ganador' = -1
               /\ \A j \in Both : ~ball_in_hole'[j]
               /\ \A j \in P : Dist2(ball'[j], hole) > Sq(hole_radius)
    <3>1. ganador' = -1
      BY <2>3 DEF Play
    <3>2. sinking = {} /\ \A j \in P : ~ball_in_hole'[j]
      BY <1>0, <1>7, <3>1
    <3>3. \A j \in Both : ~ball_in_hole'[j]
      BY <1>0, <1>1, <3>2 DEF First
    <3> QED BY <1>1, <3>1, <3>2, <3>3
  <2>4. P' = P /\ Both' = Both /\ hole' = hole /\ hole_radius' = hole_radius
    BY DEF Play, field, P, Both
  <2> QED BY <2>1, <2>2, <2>3, <2>4 DEF RoundInv, Dist2, Sq
<1> QED BY <1>2, <1>12, <1>13

LEMMA RoundStarts == Init => R!RoundInit /\ RoundInv
<1> SUFFICES ASSUME Init PROVE R!RoundInit /\ RoundInv
  OBVIOUS
<1>0. num_players \in {1, 2}
  BY RoundAssumption DEF Init
<1>1. Moving = [i \in Both |-> FALSE]
  <2>1. \A i \in Both : ball[i].vx = 0 /\ ball[i].vy = 0
    BY DEF Init, AtRest
  <2>2. \A i \in Both : Rolling(ball[i]) = FALSE
    BY <2>1 DEF Rolling
  <2> QED BY Zenon, <2>2 DEF Moving
<1>2. puede_golpear = [i \in Both |-> i < num_players]
  <2>1. \A i \in Both : i \in P <=> i < num_players
    BY <1>0 DEF Both, P
  <2> QED BY <2>1 DEF Init
<1>3. R!RoundInit
  BY <1>0, <1>1, <1>2, SamePlayers DEF Init, R!RoundInit, R!Fresh, R!NOBODY
<1>4. RoundInv
  BY PlacedOnField DEF Init, RoundInv
<1> QED BY <1>3, <1>4

LEMMA RoundSteps ==
  FieldInv /\ RoundInv /\ [Next]_vars => [R!Frame]_(R!roundVars) /\ RoundInv'
<1> SUFFICES ASSUME FieldInv, RoundInv, [Next]_vars
             PROVE  [R!Frame]_(R!roundVars) /\ RoundInv'
  OBVIOUS
<1>1. CASE UNCHANGED vars
  <2>1. UNCHANGED R!roundVars
    BY <1>1 DEF vars, field, R!roundVars, Moving, Both, Rolling
  <2>2. RoundInv'
    BY <1>1 DEF vars, field, RoundInv, P, Both, Dist2, Sq
  <2> QED BY <2>1, <2>2
<1>2. ASSUME NEW keys, Controls(keys), SeventhStroke \/ Play
      PROVE  R!Frame /\ RoundInv'
  <2>0. phase = "play" /\ UNCHANGED field
    BY <1>2 DEF Controls, SeventhStroke, Play
  <2>1. angle' \in [Both -> 0 .. 35]
    BY <1>2, <2>0, ControlsField
  <2>2. Reached \in SUBSET (R!P \X R!P)
    BY SamePlayers DEF Reached
  <2>3. CASE SeventhStroke
    <3>1. R!FailedRound(Reached)
      BY <2>0, <2>1, <2>3, SeventhIsFailedRound
    <3>2. RoundInv'
      <4>1. phase' # "play" /\ UNCHANGED <<ball_in_hole, victorias>> /\ Both' = Both
        BY <2>3 DEF SeventhStroke, Both
      <4> QED BY <4>1 DEF RoundInv
    <3> QED BY <2>2, <3>1, <3>2 DEF R!Frame
  <2>4. CASE Play
    BY <2>0, <2>1, <2>2, <2>4, PlayIsPlayFrame DEF R!Frame
  <2> QED BY <1>2, <2>3, <2>4
<1> QED BY <1>1, <1>2 DEF Next, Frame

\* Every frame game_start computes with coordinates (game.c:151-391) is a frame
\* of Round: strokes, hole, defeat and score follow its rules on every field,
\* with any number of strokes for a player.
THEOREM GolfImplementsRound == Spec => ImplementsRound
<1>1. Init => FieldInv
  BY PlacedOnField
<1> QED BY <1>1, NextField, RoundStarts, RoundSteps, PTL DEF Spec, ImplementsRound, R!RoundSpec

-----------------------------------------------------------------------------
(* Balls on a field without obstacles can be played.                       *)

\* The hole lies off the borders; nobody moves it, or an obstacle.
HoleInside ==
  /\ hole_radius \in 0 .. 15
  /\ hole.x \in (50 + hole_radius) .. (SCREEN_WIDTH - (50 + hole_radius))
  /\ hole.y \in (UI_TOP_MARGIN + 50 + hole_radius) .. (SCREEN_HEIGHT - (50 + hole_radius))

Clear == DOMAIN obstacles = {}

LEMMA HoleStarts ==
  ASSUME Init
  PROVE  HoleInside /\ (Levels \subseteq {0, 1} => Clear)
<1>1. PICK level \in Levels : /\ hole_radius = get_hole_radius(level)
                              /\ obstacles \in generate_obstacles(level, hole)
  BY DEF Init
<1>2. level \in Nat
  BY <1>1, RoundAssumption
<1>3. get_hole_radius(level) \in 0 .. 15
  <2>1. CASE level <= 1 \/ level >= 20
    BY <2>1, <1>2 DEF get_hole_radius
  <2>2. CASE ~(level <= 1 \/ level >= 20)
    <3>1. get_hole_radius(level) = 15 - (((level - 1) * 7) \div 19)
      BY <2>2 DEF get_hole_radius
    <3>2. level \in 2 .. 19
      BY <1>2, <2>2
    <3>3. ((level - 1) * 7) \div 19 \in 0 .. 6
      BY <3>2
    <3> QED BY <3>1, <3>3
  <2> QED BY <2>1, <2>2
<1>4. Within(hole, hole_radius)
  BY DEF Init
<1>5. HoleInside
  BY <1>1, <1>3, <1>4, Margins DEF Within, margin, HoleInside
<1>6. ASSUME Levels \subseteq {0, 1} PROVE Clear
  <2>1. PICK n \in 0 .. (level - 1) : obstacles \in [1 .. n -> ObstacleSpots]
    BY <1>1 DEF generate_obstacles
  <2>2. n = 0
    BY <1>1, <1>6, <2>1
  <2> QED BY <2>1, <2>2 DEF Clear
<1> QED BY <1>5, <1>6

LEMMA HoleStays ==
  ASSUME [Next]_vars
  PROVE  (HoleInside => HoleInside') /\ (Clear <=> Clear')
<1>1. UNCHANGED field
  BY DEF vars, Next, Frame, SeventhStroke, Play
<1> QED BY <1>1 DEF HoleInside, Clear, field

\* What a diagonal step of r + 5 pixels goes along an axis.
Strides(r) == {(64 * (r + 5)) \div 100, (77 * (r + 5)) \div 100}

\* How far from the hole a stride of m ends that a border has turned around.
Far(r, g, m) == 51 + g - r - 2 * m

\* From c along one axis to d: far from a hole at h altogether, or as much
\* farther as the stride m goes.
Away(c, d, h, m, far) ==
  \/ d - h >= far \/ h - d >= far
  \/ c >= h /\ d - h = c - h + m
  \/ h >= c /\ h - d = h - c + m

\* One of the two ways along an axis leads away from the hole and stays on the
\* field: near a border the hole is far.
LEMMA WayAlong ==
  ASSUME NEW r \in 0 .. 13, NEW g \in Nat, NEW m \in Strides(r), NEW low \in Int, NEW high \in Int,
         NEW c \in (low + 5) .. (high - 5), NEW h \in (low + 50 + g) .. (high - (50 + g))
  PROVE  \/ c + m \in (low + r) .. (high - r) /\ Away(c, c + m, h, m, Far(r, g, m))
         \/ c - m \in (low + r) .. (high - r) /\ Away(c, c - m, h, m, Far(r, g, m))
<1>1. m \in Nat /\ m <= 13 /\ 5 + m >= r
  BY DEF Strides
<1> HIDE DEF Strides
<1>2. CASE c - m < low + r
  <2>1. c + m \in (low + r) .. (high - r)
    BY <1>1, <1>2
  <2>2. h - (c + m) >= Far(r, g, m)
    BY <1>1, <1>2 DEF Far
  <2> QED BY <2>1, <2>2 DEF Away
<1>3. CASE c + m > high - r
  <2>1. c - m \in (low + r) .. (high - r)
    BY <1>1, <1>3
  <2>2. (c - m) - h >= Far(r, g, m)
    BY <1>1, <1>3 DEF Far
  <2> QED BY <2>1, <2>2 DEF Away
<1>4. CASE c - m >= low + r /\ c + m <= high - r
  <2>1. c + m \in (low + r) .. (high - r) /\ c - m \in (low + r) .. (high - r)
    BY <1>1, <1>4
  <2>2. CASE c >= h
    BY <1>1, <2>1, <2>2 DEF Away
  <2>3. CASE h >= c
    <3>1. h - (c - m) = h - c + m
      BY <1>1
    <3> QED BY <2>1, <2>3, <3>1 DEF Away
  <2> QED BY <2>2, <2>3
<1> QED BY <1>1, <1>2, <1>3, <1>4

\* A stride away on both axes from a place that is off a hole of radius g is
\* farther from its middle than r + g.
LEMMA FarEnough ==
  ASSUME NEW r \in 0 .. 13, NEW g \in 0 .. 15, NEW u \in Nat, NEW v \in Nat, Sq(u) + Sq(v) > Sq(g)
  PROVE  Sq(u + (64 * (r + 5)) \div 100) + Sq(v + (77 * (r + 5)) \div 100) > Sq(r + g)
<1>1. u + v >= g + 1
  <2> SUFFICES ASSUME u + v <= g PROVE FALSE
    OBVIOUS
  <2>1. Sq(u + v) <= Sq(g)
    BY Squares
  <2>2. Sq(u + v) = u * u + v * v + 2 * (u * v)
    BY DEF Sq
  <2>3. u * u \in Nat /\ v * v \in Nat /\ u * v \in Nat /\ Sq(g) \in Nat
    BY Squares
  <2> QED BY <2>1, <2>2, <2>3 DEF Sq
<1> DEFINE m == (64 * (r + 5)) \div 100
           n == (77 * (r + 5)) \div 100
<1>2. /\ m \in Nat /\ n \in Nat /\ m <= n
      /\ 2 * m + m * m + n * n + 1 > r * r
      /\ r > m => 2 * m + m * m + n * n + 1 > r * r + 30 * (r - m)
  BY SMTT(30)
<1> HIDE DEF m, n
<1>3. /\ Sq(u + m) = Sq(u) + 2 * (m * u) + m * m /\ Sq(v + n) = Sq(v) + 2 * (n * v) + n * n
      /\ m * u \in Nat /\ n * v \in Nat /\ m * v \in Nat /\ Sq(u) \in Nat /\ Sq(v) \in Nat
      /\ m * m \in Nat /\ n * n \in Nat
  BY <1>2 DEF Sq
<1>4. m * v <= n * v
  BY <1>2
<1>5. m * u + m * v >= m * g + m
  <2>1. m * (u + v) >= m * (g + 1)
    BY <1>1, <1>2
  <2> QED BY <1>2, <2>1
<1>6. 2 * (m * u) + 2 * (n * v) >= 2 * (m * g) + 2 * m
  BY <1>2, <1>3, <1>4, <1>5
<1>7. Sq(r + g) = r * r + 2 * (r * g) + Sq(g)
  BY DEF Sq
<1>8. 2 * (m * g) + 2 * m + m * m + n * n + 1 > r * r + 2 * (r * g)
  <2>1. CASE m >= r
    <3>1. m * g >= r * g /\ m * g \in Nat /\ r * g \in Nat
      BY <1>2, <2>1
    <3> QED BY <1>2, <1>3, <3>1
  <2>2. CASE r > m
    <3>1. (r - m) * g <= (r - m) * 15
      BY <1>2, <2>2
    <3>2. r * g - m * g <= 15 * (r - m) /\ m * g \in Nat /\ r * g \in Nat
      BY <1>2, <2>2, <3>1
    <3> QED BY <1>2, <1>3, <2>2, <3>2
  <2> QED BY <1>2, <2>1, <2>2
<1>9. r * r \in Nat /\ r * g \in Nat /\ m * g \in Nat /\ Sq(g) \in Nat
  BY <1>2 DEF Sq
<1>10. Sq(u + m) + Sq(v + n) >= Sq(g) + 1 + 2 * (m * g) + 2 * m + m * m + n * n
  BY <1>2, <1>3, <1>6, <1>9
<1> QED BY <1>2, <1>3, <1>7, <1>8, <1>9, <1>10 DEF m, n

\* The tables have the four diagonals, and the division keeps their signs.
LEMMA Diagonals ==
  ASSUME NEW r \in 0 .. 13, NEW s \in {64, -64}, NEW t \in {77, -77}
  PROVE  /\ \E a \in 0 .. 35 : cos(a) = s /\ sin(a) = t
         /\ Quot(64 * (r + 5), 100) = (64 * (r + 5)) \div 100
         /\ Quot((-64) * (r + 5), 100) = -((64 * (r + 5)) \div 100)
         /\ Quot(77 * (r + 5), 100) = (77 * (r + 5)) \div 100
         /\ Quot((-77) * (r + 5), 100) = -((77 * (r + 5)) \div 100)
<1>1. /\ cos(5) = 64 /\ sin(5) = 77 /\ cos(13) = -64 /\ sin(13) = 77
      /\ cos(23) = -64 /\ sin(23) = -77 /\ cos(31) = 64 /\ sin(31) = -77
  BY DEF cos, sin, cos_table
<1>2. \E a \in 0 .. 35 : cos(a) = s /\ sin(a) = t
  <2>1. /\ 5 \in 0 .. 35 /\ 13 \in 0 .. 35 /\ 23 \in 0 .. 35 /\ 31 \in 0 .. 35
    OBVIOUS
  <2> QED BY <1>1, <2>1
<1>3. /\ 64 * (r + 5) >= 0 /\ (-64) * (r + 5) < 0 /\ -((-64) * (r + 5)) = 64 * (r + 5)
      /\ 77 * (r + 5) >= 0 /\ (-77) * (r + 5) < 0 /\ -((-77) * (r + 5)) = 77 * (r + 5)
  OBVIOUS
<1>4. /\ Quot(64 * (r + 5), 100) = (64 * (r + 5)) \div 100
      /\ Quot((-64) * (r + 5), 100) = -((64 * (r + 5)) \div 100)
      /\ Quot(77 * (r + 5), 100) = (77 * (r + 5)) \div 100
      /\ Quot((-77) * (r + 5), 100) = -((77 * (r + 5)) \div 100)
  BY <1>3 DEF Quot
<1> QED BY <1>2, <1>4

\* A place d that is a stride away on both axes, or far on one, is off the hole.
LEMMA OffTheHole ==
  ASSUME NEW r \in 0 .. 13, NEW g \in 0 .. 15, NEW b, b.x \in Int, b.y \in Int, NEW h, h.x \in Int, h.y \in Int,
         Dist2(b, h) > Sq(g), NEW d, d.x \in Int, d.y \in Int,
         Away(b.x, d.x, h.x, (64 * (r + 5)) \div 100, Far(r, g, (64 * (r + 5)) \div 100)),
         Away(b.y, d.y, h.y, (77 * (r + 5)) \div 100, Far(r, g, (77 * (r + 5)) \div 100))
  PROVE  Dist2(d, h) > Sq(r + g)
<1> DEFINE X == d.x - h.x
           Y == d.y - h.y
<1>1. X \in Int /\ Y \in Int /\ Dist2(d, h) = Sq(X) + Sq(Y) /\ Sq(X) \in Nat /\ Sq(Y) \in Nat
  BY Squares DEF Dist2
<1>2. \A k \in Int : \A j \in Nat : k >= j \/ -k >= j => Sq(k) >= Sq(j)
  <2> SUFFICES ASSUME NEW k \in Int, NEW j \in Nat, k >= j \/ -k >= j PROVE Sq(k) >= Sq(j)
    OBVIOUS
  <2>1. CASE k >= j
    <3>1. k \in Nat /\ Sq(j) <= Sq(k) /\ Sq(j) \in Nat /\ Sq(k) \in Nat
      BY <2>1, Squares
    <3> QED BY <3>1
  <2>2. CASE -k >= j
    <3>1. -k \in Nat /\ (-k) * (-k) = k * k
      BY <2>2
    <3>2. Sq(j) <= Sq(-k) /\ Sq(-k) = Sq(k) /\ Sq(j) \in Nat /\ Sq(k) \in Nat
      BY <2>2, <3>1, Squares DEF Sq
    <3> QED BY <3>2
  <2> QED BY <2>1, <2>2
<1>3. Sq(r + g) \in Nat /\ Sq(r + g + 1) \in Nat /\ Sq(r + g) < Sq(r + g + 1)
  BY DEF Sq
<1> DEFINE m == (64 * (r + 5)) \div 100
           n == (77 * (r + 5)) \div 100
<1>m. /\ m \in Nat /\ n \in Nat /\ Far(r, g, m) >= r + g + 1
      /\ Far(r, g, n) >= r + g + 1 \/ (r = 13 /\ Far(r, g, n) = 12 + g)
      /\ r = 13 => m = 11
  BY DEF Far
<1>f. Far(r, g, m) \in Int /\ Far(r, g, n) \in Int
  BY <1>m DEF Far
<1> HIDE DEF m, n, X, Y
<1>x. \/ X >= Far(r, g, m) \/ -X >= Far(r, g, m)
      \/ b.x >= h.x /\ X = b.x - h.x + m
      \/ h.x >= b.x /\ -X = h.x - b.x + m
  BY DEF Away, m, X
<1>y. \/ Y >= Far(r, g, n) \/ -Y >= Far(r, g, n)
      \/ b.y >= h.y /\ Y = b.y - h.y + n
      \/ h.y >= b.y /\ -Y = h.y - b.y + n
  BY DEF Away, n, Y
<1>4. CASE X >= r + g + 1 \/ -X >= r + g + 1 \/ Y >= r + g + 1 \/ -Y >= r + g + 1
  <2>1. Sq(X) >= Sq(r + g + 1) \/ Sq(Y) >= Sq(r + g + 1)
    BY <1>1, <1>2, <1>4
  <2> QED BY <1>1, <1>3, <2>1
<1>n. ASSUME ~(X >= r + g + 1 \/ -X >= r + g + 1 \/ Y >= r + g + 1 \/ -Y >= r + g + 1)
      PROVE  /\ \/ b.x >= h.x /\ X = b.x - h.x + m
                \/ h.x >= b.x /\ -X = h.x - b.x + m
             /\ \/ r = 13 /\ (Y >= 12 + g \/ -Y >= 12 + g)
                \/ b.y >= h.y /\ Y = b.y - h.y + n
                \/ h.y >= b.y /\ -Y = h.y - b.y + n
  <2>1. ~(X >= Far(r, g, m)) /\ ~(-X >= Far(r, g, m))
    BY <1>1, <1>m, <1>f, <1>n
  <2>2. CASE Far(r, g, n) >= r + g + 1
    <3>1. ~(Y >= Far(r, g, n)) /\ ~(-Y >= Far(r, g, n))
      BY <1>1, <1>f, <1>n, <2>2
    <3> QED BY <1>x, <1>y, <2>1, <3>1
  <2>3. CASE r = 13 /\ Far(r, g, n) = 12 + g
    BY <1>x, <1>y, <2>1, <2>3
  <2> QED BY <1>m, <2>2, <2>3
<1>5. CASE /\ ~(X >= r + g + 1 \/ -X >= r + g + 1 \/ Y >= r + g + 1 \/ -Y >= r + g + 1)
           /\ r = 13 /\ (Y >= 12 + g \/ -Y >= 12 + g)
  <2>1. X >= 11 \/ -X >= 11
    BY <1>1, <1>m, <1>n, <1>5
  <2>2. Sq(X) >= Sq(11) /\ Sq(Y) >= Sq(12 + g)
    BY <1>1, <1>2, <1>5, <2>1
  <2>3. Sq(11) + Sq(12 + g) > Sq(13 + g) /\ Sq(11) \in Nat /\ Sq(12 + g) \in Nat /\ Sq(13 + g) \in Nat
    BY DEF Sq
  <2>4. r + g = 13 + g
    BY <1>5
  <2> QED BY <1>1, <2>2, <2>3, <2>4
<1>6. CASE /\ ~(X >= r + g + 1 \/ -X >= r + g + 1 \/ Y >= r + g + 1 \/ -Y >= r + g + 1)
           /\ ~(r = 13 /\ (Y >= 12 + g \/ -Y >= 12 + g))
  <2>0. ASSUME NEW k \in Int PROVE Sq(-k) = Sq(k)
    BY DEF Sq
  <2>2. PICK u \in Nat : Sq(u) = Sq(b.x - h.x) /\ Sq(u + m) = Sq(X)
    <3>3. CASE b.x >= h.x /\ X = b.x - h.x + m
      BY <3>3
    <3>4. CASE h.x >= b.x /\ -X = h.x - b.x + m
      <4>1. h.x - b.x \in Nat /\ h.x - b.x = -(b.x - h.x) /\ b.x - h.x \in Int
        BY <3>4
      <4> QED BY <1>1, <2>0, <3>4, <4>1
    <3> QED BY <1>6, <1>n, <3>3, <3>4
  <2>3. PICK v \in Nat : Sq(v) = Sq(b.y - h.y) /\ Sq(v + n) = Sq(Y)
    <3>3. CASE b.y >= h.y /\ Y = b.y - h.y + n
      BY <3>3
    <3>4. CASE h.y >= b.y /\ -Y = h.y - b.y + n
      <4>1. h.y - b.y \in Nat /\ h.y - b.y = -(b.y - h.y) /\ b.y - h.y \in Int
        BY <3>4
      <4> QED BY <1>1, <2>0, <3>4, <4>1
    <3> QED BY <1>6, <1>n, <3>3, <3>4
  <2>4. Sq(u) + Sq(v) > Sq(g)
    BY <2>2, <2>3 DEF Dist2, Sq
  <2>5. Sq(u + m) + Sq(v + n) > Sq(r + g)
    BY <2>4, FarEnough DEF m, n
  <2> QED BY <1>1, <2>2, <2>3, <2>5
<1> QED BY <1>4, <1>5, <1>6

\* A ball anywhere on a field without obstacles, off the hole, has a free place
\* for a player beside it.
Beside(b) ==
  \E a \in 0 .. 35 : Free([x |-> b.x + Quot(cos(a) * (PLAYER_RADIUS + 5), 100),
                           y |-> b.y + Quot(sin(a) * (PLAYER_RADIUS + 5), 100)])

LEMMA PlaceBeside ==
  ASSUME PLAYER_RADIUS <= 13, HoleInside, Clear, NEW b, b.x \in Int, b.y \in Int,
         b.x \in BALL_RADIUS .. (SCREEN_WIDTH - BALL_RADIUS),
         b.y \in (UI_TOP_MARGIN + BALL_RADIUS) .. (SCREEN_HEIGHT - BALL_RADIUS),
         Dist2(b, hole) > Sq(hole_radius)
  PROVE  Beside(b)
<1> DEFINE r == PLAYER_RADIUS
           m == (64 * (r + 5)) \div 100
           n == (77 * (r + 5)) \div 100
           g == hole_radius
<1>1. /\ r \in 0 .. 13 /\ SCREEN_WIDTH \in Nat /\ SCREEN_HEIGHT \in Nat /\ UI_TOP_MARGIN \in Nat
  BY Margins
<1>2. /\ g \in 0 .. 15 /\ g \in Nat /\ DOMAIN obstacles = {}
      /\ hole.x \in (50 + g) .. (SCREEN_WIDTH - (50 + g))
      /\ hole.y \in (UI_TOP_MARGIN + 50 + g) .. (SCREEN_HEIGHT - (50 + g))
  BY DEF HoleInside, Clear
<1> HIDE DEF r, g
<1>3. m \in Nat /\ n \in Nat /\ m \in Strides(r) /\ n \in Strides(r)
  BY <1>1 DEF Strides
<1> HIDE DEF m, n
<1>4. PICK dx \in {b.x + m, b.x - m} : dx \in (0 + r) .. (SCREEN_WIDTH - r) /\ Away(b.x, dx, hole.x, m, Far(r, g, m))
  <2> DEFINE low == 0
             high == SCREEN_WIDTH
             c == b.x
             h == hole.x
  <2>1. /\ low \in Int /\ high \in Int
        /\ c \in (low + 5) .. (high - 5) /\ h \in (low + 50 + g) .. (high - (50 + g))
    BY <1>1, <1>2 DEF BALL_RADIUS
  <2> HIDE DEF low, high, c, h
  <2>2. \/ c + m \in (low + r) .. (high - r) /\ Away(c, c + m, h, m, Far(r, g, m))
        \/ c - m \in (low + r) .. (high - r) /\ Away(c, c - m, h, m, Far(r, g, m))
    BY <1>1, <1>2, <1>3, <2>1, WayAlong
  <2> QED BY Zenon, <2>2 DEF low, high, c, h
<1>5. PICK dy \in {b.y + n, b.y - n} : /\ dy \in (UI_TOP_MARGIN + r) .. (SCREEN_HEIGHT - r)
                                       /\ Away(b.y, dy, hole.y, n, Far(r, g, n))
  <2> DEFINE low == UI_TOP_MARGIN
             high == SCREEN_HEIGHT
             c == b.y
             h == hole.y
  <2>1. /\ low \in Int /\ high \in Int
        /\ c \in (low + 5) .. (high - 5) /\ h \in (low + 50 + g) .. (high - (50 + g))
    BY <1>1, <1>2 DEF BALL_RADIUS
  <2> HIDE DEF low, high, c, h
  <2>2. \/ c + n \in (low + r) .. (high - r) /\ Away(c, c + n, h, n, Far(r, g, n))
        \/ c - n \in (low + r) .. (high - r) /\ Away(c, c - n, h, n, Far(r, g, n))
    BY <1>1, <1>2, <1>3, <2>1, WayAlong
  <2> QED BY Zenon, <2>2 DEF low, high, c, h
<1> DEFINE d == [x |-> dx, y |-> dy]
<1>6. dx \in Int /\ dy \in Int /\ hole.x \in Int /\ hole.y \in Int
  BY <1>1, <1>2, <1>4, <1>5
<1>7. Dist2(d, hole) > Sq(r + g)
  <2>1. d.x = dx /\ d.y = dy
    OBVIOUS
  <2> HIDE DEF d
  <2>2. Away(b.x, d.x, hole.x, (64 * (r + 5)) \div 100, Far(r, g, (64 * (r + 5)) \div 100))
        /\ Away(b.y, d.y, hole.y, (77 * (r + 5)) \div 100, Far(r, g, (77 * (r + 5)) \div 100))
    BY <1>4, <1>5, <2>1 DEF m, n
  <2>3. Dist2(b, hole) > Sq(g)
    BY DEF g
  <2> QED BY <1>1, <1>2, <1>6, <2>1, <2>2, <2>3, OffTheHole
<1>8. Free(d)
  <2>1. circle_obstacle_collision(d, PLAYER_RADIUS, obstacles) = {}
    BY <1>2 DEF circle_obstacle_collision
  <2>2. /\ dx >= PLAYER_RADIUS /\ dx <= SCREEN_WIDTH - PLAYER_RADIUS
        /\ dy >= UI_TOP_MARGIN + PLAYER_RADIUS /\ dy <= SCREEN_HEIGHT - PLAYER_RADIUS
    BY <1>1, <1>4, <1>5 DEF r
  <2>3. Dist2(d, hole) > Sq(PLAYER_RADIUS + hole_radius)
    BY <1>7 DEF r, g
  <2> QED BY <2>1, <2>2, <2>3 DEF Free
<1>9. PICK a \in 0 .. 35 : dx = b.x + Quot(cos(a) * (r + 5), 100) /\ dy = b.y + Quot(sin(a) * (r + 5), 100)
  <2>1. PICK s \in {64, -64} : dx = b.x + Quot(s * (r + 5), 100)
    <3>1. /\ Quot(64 * (r + 5), 100) = m /\ Quot((-64) * (r + 5), 100) = -m
      BY <1>1, Diagonals DEF m
    <3>2. CASE dx = b.x + m
      BY Zenon, <3>1, <3>2
    <3>3. CASE dx = b.x - m
      <4>1. dx = b.x + (-m)
        BY <1>3, <3>3
      <4> QED BY Zenon, <3>1, <4>1
    <3> QED BY <1>4, <3>2, <3>3
  <2>2. PICK t \in {77, -77} : dy = b.y + Quot(t * (r + 5), 100)
    <3>1. /\ Quot(77 * (r + 5), 100) = n /\ Quot((-77) * (r + 5), 100) = -n
      BY <1>1, Diagonals DEF n
    <3>2. CASE dy = b.y + n
      BY Zenon, <3>1, <3>2
    <3>3. CASE dy = b.y - n
      <4>1. dy = b.y + (-n)
        BY <1>3, <3>3
      <4> QED BY Zenon, <3>1, <4>1
    <3> QED BY <1>5, <3>2, <3>3
  <2>3. \E a \in 0 .. 35 : cos(a) = s /\ sin(a) = t
    BY <1>1, Diagonals
  <2> QED BY Zenon, <2>1, <2>2, <2>3
<1> QED BY Zenon, <1>8, <1>9 DEF r, Beside

\* The last frame of a ball moves it no more, its speed being a tenth of a pixel.
LEMMA RestsInPlace ==
  ASSUME Clear, NEW b \in Balls,
         b.x \in BALL_RADIUS .. (SCREEN_WIDTH - BALL_RADIUS),
         b.y \in (UI_TOP_MARGIN + BALL_RADIUS) .. (SCREEN_HEIGHT - BALL_RADIUS),
         NEW c, c = Border(Slowed(Bounce(Advance(b)))), ~Rolling(c)
  PROVE  c.x = b.x /\ c.y = b.y
<1> DEFINE ax == b.x + Quot(b.vx, 10)
           ay == b.y + Quot(b.vy, 10)
           sx == Quot(b.vx * 95, 100)
           sy == Quot(b.vy * 95, 100)
<1>1. b.x \in Int /\ b.y \in Int /\ b.vx \in Int /\ b.vy \in Int
  BY DEF Balls
<1>2. \A v \in Int : /\ Quot(v, 10) \in Int /\ Quot(v * 95, 100) \in Int
                     /\ Quot(v * 95, 100) = 0 => Quot(v, 10) = 0
  <2> SUFFICES ASSUME NEW v \in Int
               PROVE  /\ Quot(v, 10) \in Int /\ Quot(v * 95, 100) \in Int
                      /\ Quot(v * 95, 100) = 0 => Quot(v, 10) = 0
    OBVIOUS
  <2>1. v * 95 \in Int
    OBVIOUS
  <2>2. Quot(v, 10) \in Int /\ Quot(v * 95, 100) \in Int
    BY <2>1, QuotType
  <2>3. ASSUME Quot(v * 95, 100) = 0 PROVE Quot(v, 10) = 0
    <3>1. ~(v * 95 >= 100) /\ ~(v * 95 <= -100)
      BY <2>1, <2>3, QuotType
    <3>2. v \in {-1, 0, 1}
      BY <3>1
    <3> QED BY <3>2 DEF Quot
  <2> QED BY <2>2, <2>3
<1>3. ax \in Int /\ ay \in Int /\ sx \in Int /\ sy \in Int
  BY <1>1, <1>2
<1>4. Advance(b) = [b EXCEPT !.x = ax, !.y = ay]
  BY <1>1 DEF Advance, Balls
<1>a. (sx = 0 => ax = b.x) /\ (sy = 0 => ay = b.y)
  BY <1>1, <1>2
<1> HIDE DEF ax, ay
<1>5. Bounce(Advance(b)) = Advance(b)
  <2>1. circle_obstacle_collision(Advance(b), BALL_RADIUS, obstacles) = {}
    BY DEF circle_obstacle_collision, Clear
  <2> QED BY <2>1 DEF Bounce
<1>6. Advance(b) \in Balls /\ Advance(b).x = ax /\ Advance(b).y = ay
      /\ Advance(b).vx = b.vx /\ Advance(b).vy = b.vy
  BY <1>3, <1>4 DEF Balls
<1> DEFINE s == Slowed(Advance(b))
<1>7. s \in Balls /\ s.x = ax /\ s.y = ay /\ s.vx = sx /\ s.vy = sy
  <2> DEFINE a == Advance(b)
  <2>1. s = [a EXCEPT !.vx = Quot(a.vx * 95, 100), !.vy = Quot(a.vy * 95, 100)]
    BY Zenon DEF Slowed
  <2> HIDE DEF a, s
  <2>2. a \in Balls /\ a.x = ax /\ a.y = ay /\ a.vx = b.vx /\ a.vy = b.vy
    BY <1>6 DEF a
  <2> QED BY <1>3, <2>1, <2>2 DEF Balls
<1> HIDE DEF s, sx, sy
<1>8. c = Border(s)
  BY <1>5 DEF s
<1>9. sx = 0 /\ sy = 0
  <2>1. (c.vx = s.vx \/ c.vx = -s.vx) /\ (c.vy = s.vy \/ c.vy = -s.vy)
    BY <1>8 DEF Border
  <2>2. c.vx = 0 /\ c.vy = 0
    BY DEF Rolling
  <2> QED BY <1>3, <1>7, <2>1, <2>2
<1>10. s.x = b.x /\ s.y = b.y
  BY <1>a, <1>7, <1>9
<1>11. Border(s) = s
  BY <1>7, <1>10, BorderBalls
<1> QED BY <1>8, <1>10, <1>11

\* A ball at rest that is not in the hole is off it, also when the round is over.
RestOffHole ==
  \A j \in P : ~Rolling(ball[j]) /\ ~ball_in_hole[j] => Dist2(ball[j], hole) > Sq(hole_radius)

LEMMA RestOffHoleNext ==
  FieldInv /\ RoundInv /\ Clear /\ RestOffHole /\ [Next]_vars => RestOffHole'
<1> SUFFICES ASSUME FieldInv, RoundInv, Clear, RestOffHole, [Next]_vars PROVE RestOffHole'
  OBVIOUS
<1>1. CASE UNCHANGED vars
  BY <1>1 DEF vars, field, RestOffHole, P, Dist2, Sq, Rolling
<1>2. ASSUME NEW keys, Controls(keys), SeventhStroke \/ Play PROVE RestOffHole'
  <2>1. phase = "play" /\ UNCHANGED field
    BY <1>2 DEF Controls, SeventhStroke, Play
  <2>2. P' = P /\ P \subseteq Both /\ hole' = hole /\ hole_radius' = hole_radius
    BY <2>1, PlayersAre DEF field, P, FieldInv
  <2>3. angle' \in [Both -> 0 .. 35]
    BY <1>2, <2>1, ControlsField
  <2>4. \A j \in P : Dist2(ball[j], hole) > Sq(hole_radius) /\ ~ball_in_hole[j]
    BY <2>1, <2>2 DEF RoundInv
  <2>5. ASSUME NEW j \in P, ball'[j].x = ball[j].x, ball'[j].y = ball[j].y
        PROVE  Dist2(ball'[j], hole') > Sq(hole_radius')
    BY <2>2, <2>4, <2>5 DEF Dist2
  <2>6. CASE SeventhStroke
    <3>1. PICK n \in P : ball' = [j \in Both |-> Struck(j, n)]
      BY <2>6 DEF SeventhStroke
    <3>2. n \in {0, 1, 2}
      BY PlayersAre DEF FieldInv
    <3>3. \A j \in P : ball'[j].x = ball[j].x /\ ball'[j].y = ball[j].y
      BY <2>2, <2>3, <3>1, <3>2, StruckBalls
    <3> QED BY <2>2, <2>5, <3>3 DEF RestOffHole
  <2>7. CASE Play
    <3>1. PICK balls :
            /\ \A j \in Both : ~Rolling(Struck(j, num_players)) => balls[j] = ball[j]
            /\ \A j \in P : Rolling(Struck(j, num_players)) /\ ~ball_in_hole[j] =>
                 balls[j] = Border(Slowed(Bounce(Advance(Struck(j, num_players)))))
            /\ ball_in_hole' = [j \in Both |-> ball_in_hole[j] \/ j \in Holed(balls)]
            /\ ball' = [j \in Both |-> IF j \in Holed(balls) THEN AtRest(hole) ELSE balls[j]]
      BY <2>3, <2>7, PlayBalls
    <3> SUFFICES ASSUME NEW j \in P, ~Rolling(ball'[j]), ~ball_in_hole'[j]
                 PROVE  ball'[j].x = ball[j].x /\ ball'[j].y = ball[j].y
      BY <2>2, <2>5 DEF RestOffHole
    <3>2. j \in Both /\ ball'[j] = balls[j]
      BY <2>2, <3>1
    <3>3. CASE ~Rolling(Struck(j, num_players))
      BY <3>1, <3>2, <3>3
    <3>4. CASE Rolling(Struck(j, num_players))
      <4> DEFINE s == Struck(j, num_players)
      <4>1. num_players \in {0, 1, 2}
        BY DEF FieldInv
      <4>2. s \in Balls /\ s.x = ball[j].x /\ s.y = ball[j].y
        BY <2>3, <3>2, <4>1, StruckBalls
      <4>3. balls[j] = Border(Slowed(Bounce(Advance(s))))
        BY <2>4, <3>1, <3>4
      <4>4. BallOnField(j)
        BY DEF FieldInv, OnField
      <4> HIDE DEF s
      <4>5. /\ s.x \in BALL_RADIUS .. (SCREEN_WIDTH - BALL_RADIUS)
            /\ s.y \in (UI_TOP_MARGIN + BALL_RADIUS) .. (SCREEN_HEIGHT - BALL_RADIUS)
        BY <4>2, <4>4 DEF BallOnField
      <4>6. balls[j].x = s.x /\ balls[j].y = s.y
        BY <3>2, <4>2, <4>3, <4>5, RestsInPlace
      <4> QED BY <3>2, <4>2, <4>6
    <3> QED BY <3>3, <3>4
  <2> QED BY <1>2, <2>6, <2>7
<1> QED BY <1>1, <1>2 DEF Next, Frame

LEMMA ReachableIsBeside ==
  BallReachable <=> \A i \in P : ~Rolling(ball[i]) /\ ~ball_in_hole[i] => Beside(ball[i])
BY DEF BallReachable, Beside

LEMMA BallBeside ==
  ASSUME PLAYER_RADIUS <= 13, FieldInv, HoleInside, Clear, RestOffHole,
         NEW i \in P, ~Rolling(ball[i]), ~ball_in_hole[i]
  PROVE  Beside(ball[i])
<1> DEFINE b == ball[i]
<1>1. b \in Balls /\ BallOnField(i)
  <2>1. i \in Both
    BY PlayersAre DEF FieldInv
  <2> QED BY <2>1 DEF FieldInv, OnField
<1>2. /\ b.x \in BALL_RADIUS .. (SCREEN_WIDTH - BALL_RADIUS)
      /\ b.y \in (UI_TOP_MARGIN + BALL_RADIUS) .. (SCREEN_HEIGHT - BALL_RADIUS)
  BY <1>1 DEF BallOnField
<1>3. Dist2(b, hole) > Sq(hole_radius)
  BY DEF RestOffHole
<1> HIDE DEF b
<1>4. b.x \in Int /\ b.y \in Int
  BY <1>1 DEF Balls
<1> QED BY Zenon, <1>2, <1>3, <1>4, PlaceBeside DEF b

\* On a field without obstacles, at any level, a ball that comes to rest can
\* always be played, on every screen less than 1400 pixels wide: in a corner, at
\* a border or beside the hole the player finds a place to stand within reach of
\* it (game.c:208-370).
THEOREM ClearFieldPlayable ==
  ASSUME SCREEN_WIDTH < 1400
  PROVE  Spec => [](Clear => BallReachable)
<1> DEFINE Inv == FieldInv /\ RoundInv /\ HoleInside /\ (Clear => RestOffHole)
<1>1. PLAYER_RADIUS <= 13
  BY ScreenAssumption DEF PLAYER_RADIUS
<1>2. Init => Inv
  <2>1. Init => FieldInv /\ RoundInv /\ HoleInside
    BY PlacedOnField, RoundStarts, HoleStarts
  <2>2. Init /\ RoundInv => RestOffHole
    BY DEF Init, RoundInv, RestOffHole
  <2> QED BY <2>1, <2>2
<1>3. Inv /\ [Next]_vars => Inv'
  <2> SUFFICES ASSUME Inv, [Next]_vars PROVE Inv'
    OBVIOUS
  <2>1. FieldInv' /\ RoundInv'
    BY NextField, RoundSteps
  <2>2. HoleInside' /\ (Clear <=> Clear')
    BY HoleStays
  <2>3. Clear => RestOffHole'
    BY RestOffHoleNext
  <2> QED BY <2>1, <2>2, <2>3
<1>4. Inv => (Clear => BallReachable)
  <2> SUFFICES ASSUME Inv, Clear PROVE BallReachable
    OBVIOUS
  <2>1. ASSUME NEW i \in P, ~Rolling(ball[i]), ~ball_in_hole[i] PROVE Beside(ball[i])
    BY <1>1, <2>1, BallBeside
  <2> QED BY <2>1, ReachableIsBeside
<1> QED BY <1>2, <1>3, <1>4, PTL DEF Spec

\* The first level has no obstacles: each of its balls can be played.
THEOREM FirstLevelPlayable ==
  ASSUME SCREEN_WIDTH < 1400, Levels \subseteq {0, 1}
  PROVE  Spec => []BallReachable
<1>1. Init => Clear
  BY HoleStarts
<1>2. Clear /\ [Next]_vars => Clear'
  BY HoleStays
<1> QED BY <1>1, <1>2, ClearFieldPlayable, PTL DEF Spec
=============================================================================
