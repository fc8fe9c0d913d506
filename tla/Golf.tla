-------------------------------- MODULE Golf --------------------------------
(***************************************************************************)
(* The field of the golf game (game_start in game.c, game_functions.c):    *)
(* where the hole, the obstacles, players and balls are placed, and what a *)
(* frame computes with their coordinates, in pixels, tenths of a pixel per *)
(* frame and steps of ten degrees.  It implements a round of module Round. *)
(***************************************************************************)
EXTENDS Geometry, FiniteSetsExt

CONSTANTS SCREEN_WIDTH, SCREEN_HEIGHT,
          MAX_HITS,                     \* 6 in the code
          PlayerCounts, Levels,         \* choices of the player and level reached
          HoleSpots, PlayerSpots, BallSpots, ObstacleSpots,  \* bound: results of rand_range tried
          Angles                        \* bound of the model: directions players turn to, by their number

ASSUME ScreenAssumption == SCREEN_WIDTH \in Nat /\ SCREEN_WIDTH >= 50
                           /\ SCREEN_HEIGHT \in Nat /\ SCREEN_HEIGHT >= 10
ASSUME RoundAssumption == PlayerCounts \subseteq {1, 2} /\ Levels \subseteq Nat
ASSUME ObstacleAssumption == ObstacleSpots \subseteq [x : Int, y : Int, size : Nat]

VARIABLES num_players, hole, hole_radius, obstacles, position, angle, ball,
          golpes, puede_golpear, ball_in_hole, ganador, victorias, phase

field == <<num_players, hole, hole_radius, obstacles>>
vars == <<field, position, angle, ball, golpes, puede_golpear, ball_in_hole, ganador, victorias, phase>>

UI_TOP_MARGIN == SCREEN_HEIGHT \div 24
PLAYER_RADIUS == SCREEN_WIDTH \div 100
POWER_FACTOR == SCREEN_WIDTH \div 50
BALL_RADIUS == 5
margin == 50

Both == {0, 1}
P == 0 .. num_players - 1

First(S, i) == i \in S /\ \A k \in S : i <= k
get_hole_radius(level) ==
  CASE level <= 1 -> 15
    [] level >= 20 -> 8
    [] OTHER -> 15 - (((level - 1) * 7) \div 19)

-----------------------------------------------------------------------------
(* Placing everything.                                                     *)

\* p is a result of rand_range on both axes, dx and top away from the edges.
Within(p, r) ==
  /\ p.x \in (margin + r) .. (SCREEN_WIDTH - margin - r)
  /\ p.y \in (UI_TOP_MARGIN + margin + r) .. (SCREEN_HEIGHT - margin - r)

circles_overlap(p, r1, q, r2) == Dist2(p, q) < Sq(r1 + r2)

Nearest(c, low, size) == IF c < low THEN low ELSE IF c > low + size THEN low + size ELSE c

Touches(p, r, o) ==
  Dist2(p, [x |-> Nearest(p.x, o.x, o.size), y |-> Nearest(p.y, o.y, o.size)]) <= Sq(r)

circle_obstacle_collision(p, r, obs) == {k \in DOMAIN obs : Touches(p, r, obs[k])}

\* generate_obstacles keeps away from the hole and from the obstacles before.
ClearOfHole(o, h) == ~(/\ h.x >= o.x - 30 /\ h.x <= o.x + o.size + 30
                       /\ h.y >= o.y - 30 /\ h.y <= o.y + o.size + 30)
Apart(o, p) == \/ o.x + o.size + 15 < p.x \/ o.x > p.x + p.size + 15
               \/ o.y + o.size + 15 < p.y \/ o.y > p.y + p.size + 15

generate_obstacles(level, h) ==
  {obs \in UNION {[1 .. n -> ObstacleSpots] : n \in 0 .. level - 1} :
     \A k \in DOMAIN obs : /\ ClearOfHole(obs[k], h)
                           /\ obs[k].x + obs[k].size < SCREEN_WIDTH
                           /\ obs[k].y >= UI_TOP_MARGIN /\ obs[k].y + obs[k].size < SCREEN_HEIGHT
                           /\ \A j \in 1 .. k - 1 : Apart(obs[k], obs[j])}

PlayerPlaced(i) ==
  /\ Within(position[i], PLAYER_RADIUS)
  /\ ~circles_overlap(position[i], PLAYER_RADIUS + 10, hole, hole_radius + 10)
  /\ i = 1 => ~circles_overlap(position[0], PLAYER_RADIUS * 2 + 10, position[1], PLAYER_RADIUS + 10)
  /\ circle_obstacle_collision(position[i], PLAYER_RADIUS + 10, obstacles) = {}

BallPlaced(i) ==
  /\ Within(ball[i], BALL_RADIUS)
  /\ ~circles_overlap(ball[i], 5 + 10, hole, hole_radius + 10)
  /\ ~circles_overlap(ball[i], 5 + 10, position[i], PLAYER_RADIUS + 10)
  /\ i = 1 => ~circles_overlap(ball[0], 5 + 10, ball[1], 5 + 10)
  /\ circle_obstacle_collision(ball[i], 5 + 10, obstacles) = {}

AtRest(p) == [x |-> p.x, y |-> p.y, vx |-> 0, vy |-> 0]
Origin == [x |-> 0, y |-> 0]       \* players[1] of a game for one

Init ==
  /\ num_players \in PlayerCounts
  /\ hole \in HoleSpots
  /\ \E level \in Levels : /\ hole_radius = get_hole_radius(level)
                           /\ obstacles \in generate_obstacles(level, hole)
  /\ Within(hole, hole_radius)
  /\ position \in {p \in [Both -> PlayerSpots \cup {Origin}] : num_players = 1 <=> p[1] = Origin}
  /\ \E b \in [Both -> BallSpots \cup {Origin}] :
       /\ num_players = 1 <=> b[1] = Origin
       /\ ball = [i \in Both |-> AtRest(b[i])]
  /\ \A i \in P : PlayerPlaced(i) /\ BallPlaced(i)
  /\ angle = [i \in Both |-> 0] /\ golpes = [i \in Both |-> 0]
  /\ puede_golpear = [i \in Both |-> i \in P] /\ ball_in_hole = [i \in Both |-> FALSE]
  /\ ganador = -1 /\ victorias = [i \in Both |-> 0] /\ phase = "play"

-----------------------------------------------------------------------------
(* What a frame computes.                                                  *)

\* One step forward, unless it leaves the field or steps on hole or obstacle.
Step(p, a) == [x |-> p.x + Quot(cos(a), 10), y |-> p.y + Quot(sin(a), 10)]

Free(p) ==
  /\ p.x >= PLAYER_RADIUS /\ p.x <= SCREEN_WIDTH - PLAYER_RADIUS
  /\ p.y >= UI_TOP_MARGIN + PLAYER_RADIUS /\ p.y <= SCREEN_HEIGHT - PLAYER_RADIUS
  /\ Dist2(p, hole) > Sq(PLAYER_RADIUS + hole_radius)
  /\ circle_obstacle_collision(p, PLAYER_RADIUS, obstacles) = {}

Moved(i, keys) ==
  IF "up" \in keys /\ ~ball_in_hole[i] /\ Free(Step(position[i], angle[i]))
    THEN Step(position[i], angle[i]) ELSE position[i]

Turned(i, keys) ==
  IF ball_in_hole[i] THEN angle[i]
  ELSE (angle[i] + (IF "left" \in keys THEN 35 ELSE 0) + (IF "right" \in keys THEN 1 ELSE 0)) % 36

InReach(i, j) == Dist2(ball[j], position'[i]) <= Sq(PLAYER_RADIUS + 5)

Drives_Bug(i, j) ==         \* no need to step away between two strokes
  InReach(i, j) /\ ~ball_in_hole[j] /\ \A k \in P : k < j => ~InReach(i, k)

\* The ball player i drives: the first in reach, if the player is armed.
Drives(i, j) ==
  /\ j \in P /\ puede_golpear[i] /\ InReach(i, j) /\ ~ball_in_hole[j]
  /\ \A k \in P : (k < j /\ ~ball_in_hole[k]) => ~InReach(i, k)

Fails(i) == Drives(i, i) /\ golpes[i] >= MAX_HITS /\ ganador = -1

Struck(j, n) ==             \* the last of the players below n to drive j decides its velocity
  LET by == {i \in P : i < n /\ Drives(i, j)}
  IN  IF by = {} THEN ball[j]
      ELSE [ball[j] EXCEPT !.vx = Quot(cos(angle'[Max(by)]) * POWER_FACTOR, 10),
                           !.vy = Quot(sin(angle'[Max(by)]) * POWER_FACTOR, 10)]

Advance(b) == [b EXCEPT !.x = @ + Quot(b.vx, 10), !.y = @ + Quot(b.vy, 10)]

Bounce_Bug(b) ==            \* the ball put on the inner side of the edge
  LET hit == circle_obstacle_collision(b, BALL_RADIUS, obstacles)
      o == obstacles[Min(hit)]
  IN  CASE hit = {} -> b
        [] hit # {} /\ b.x - o.x <= o.x + o.size - b.x -> [b EXCEPT !.vx = -@, !.x = o.x + 5]
        [] OTHER -> [b EXCEPT !.vx = -@, !.x = o.x + o.size - 5]

\* The velocity is turned back at the nearest side of the first obstacle hit,
\* and the ball put outside of it.
Bounce(b) ==
  LET hit == circle_obstacle_collision(b, BALL_RADIUS, obstacles)
      o == obstacles[Min(hit)]
      left == b.x - o.x    right == o.x + o.size - b.x
      top == b.y - o.y     bottom == o.y + o.size - b.y
      least == Min({left, right, top, bottom})
  IN  CASE hit = {} -> b
        [] hit # {} /\ left = least -> [b EXCEPT !.vx = -@, !.x = o.x - 5]
        [] hit # {} /\ left > least /\ right = least -> [b EXCEPT !.vx = -@, !.x = o.x + o.size + 5]
        [] hit # {} /\ left > least /\ right > least /\ top = least ->
             [b EXCEPT !.vy = -@, !.y = o.y - 5]
        [] OTHER -> [b EXCEPT !.vy = -@, !.y = o.y + o.size + 5]

Slowed_Bug(b) ==            \* no friction below a pixel per frame
  LET less(v) == IF v \in -9 .. 9 THEN v ELSE Quot(v * 95, 100)
  IN  [b EXCEPT !.vx = less(@), !.vy = less(@)]

Slowed(b) == [b EXCEPT !.vx = Quot(@ * 95, 100), !.vy = Quot(@ * 95, 100)]

Border_Bug(b) ==            \* turned back without being put back
  [b EXCEPT !.vx = IF b.x < 5 \/ b.x > SCREEN_WIDTH - 5 THEN -@ ELSE @,
            !.vy = IF b.y < UI_TOP_MARGIN + 5 \/ b.y > SCREEN_HEIGHT - 5 THEN -@ ELSE @]

Border(b) ==
  [x |-> Min({Max({b.x, 5}), SCREEN_WIDTH - 5}),
   y |-> Min({Max({b.y, UI_TOP_MARGIN + 5}), SCREEN_HEIGHT - 5}),
   vx |-> IF b.x < 5 \/ b.x > SCREEN_WIDTH - 5 THEN -b.vx ELSE b.vx,
   vy |-> IF b.y < UI_TOP_MARGIN + 5 \/ b.y > SCREEN_HEIGHT - 5 THEN -b.vy ELSE b.vy]

Rolling(b) == b.vx # 0 \/ b.vy # 0

\* The first ball within the radius of the hole; none once there is a winner.
Holed(balls) ==
  {j \in P : First({k \in P : /\ Dist2(balls[k], hole) <= Sq(hole_radius)
                              /\ ~ball_in_hole[k] /\ ganador = -1}, j)}

Counted(i, n) == IF i < n /\ i \in P /\ Drives(i, i) /\ golpes[i] < MAX_HITS
                   THEN golpes[i] + 1 ELSE golpes[i]

-----------------------------------------------------------------------------
(* The frame.                                                              *)

Controls(keys) ==
  /\ phase = "play"
  /\ angle' = [i \in Both |-> IF i \in P THEN Turned(i, keys[i]) ELSE angle[i]]
  /\ \A i \in Both : angle'[i] \in Angles[num_players]
  /\ position' = [i \in Both |-> IF i \in P THEN Moved(i, keys[i]) ELSE position[i]]

SeventhStroke ==
  /\ \E i \in P :
       /\ Fails(i) /\ \A k \in P : k < i => ~Fails(k)
       /\ ganador' = 1 - i
       /\ golpes' = [k \in Both |-> Counted(k, i)]
       /\ puede_golpear' = [k \in Both |-> puede_golpear[k] /\ ~(k < i /\ \E j \in P : Drives(k, j))]
       /\ ball' = [j \in Both |-> Struck(j, i)]
  /\ phase' = "failed"
  /\ UNCHANGED <<field, ball_in_hole, victorias>>

Spent == {i \in P : ~ball_in_hole'[i] /\ golpes'[i] >= MAX_HITS /\ ~Rolling(ball'[i])}

\* Strokes, then for the balls that roll advance, bounce and friction, then
\* borders, hole and defeat, in the order of the loops of game_start.
Play ==
  /\ \A i \in P : ~Fails(i)
  /\ golpes' = [i \in Both |-> Counted(i, num_players)]
  /\ puede_golpear' = [i \in Both |-> IF i \notin P THEN puede_golpear[i]
                         ELSE ~InReach(i, i) \/ (puede_golpear[i] /\ ~\E j \in P : Drives(i, j))]
  /\ \E struck \in {[j \in Both |-> Struck(j, num_players)]} :
     \E rolls \in {{j \in P : Rolling(struck[j]) /\ ~ball_in_hole[j]}} :
     \E ahead \in {[j \in Both |-> IF j \in rolls THEN Advance(struck[j]) ELSE struck[j]]} :
     \E slowed \in {[j \in Both |-> IF j \in rolls THEN Slowed(Bounce(ahead[j])) ELSE ahead[j]]} :
     \E balls \in {[j \in Both |-> IF j \in P THEN Border(slowed[j]) ELSE slowed[j]]} :
       /\ ball_in_hole' = [j \in Both |-> ball_in_hole[j] \/ j \in Holed(balls)]
       /\ ball' = [j \in Both |-> IF j \in Holed(balls) THEN AtRest(hole) ELSE balls[j]]
  /\ ganador' = IF \E j \in P : ball_in_hole'[j] THEN CHOOSE j \in P : ball_in_hole'[j]
                ELSE IF Spent = {} THEN -1
                ELSE IF num_players = 1 THEN -2 ELSE 1 - Min(Spent)
  /\ victorias' = [i \in Both |-> victorias[i] + IF ganador' = i THEN num_players ELSE 0]
  /\ phase' = IF ganador' = -1 THEN "play" ELSE "over"
  /\ UNCHANGED field

\* The three keys of a player are polled one by one: any of them may be held.
Keys == SUBSET {"up", "left", "right"}

Frame == \E keys \in [P -> Keys] : Controls(keys) /\ (SeventhStroke \/ Play)

Next == Frame
Spec == Init /\ [][Next]_vars
FairSpec == Spec /\ WF_vars(Next)

-----------------------------------------------------------------------------
(* Properties.                                                             *)

Moving == [i \in Both |-> Rolling(ball[i])]
R == INSTANCE Round WITH moving <- Moving

\* A frame computed with coordinates does what a frame of Round allows: the
\* rules of strokes, hole, defeat and score hold on the real field.
ImplementsRound == R!RoundSpec

PlayerOnField(i) ==
  /\ position[i].x \in PLAYER_RADIUS .. (SCREEN_WIDTH - PLAYER_RADIUS)
  /\ position[i].y \in (UI_TOP_MARGIN + PLAYER_RADIUS) .. (SCREEN_HEIGHT - PLAYER_RADIUS)
  /\ ~circles_overlap(position[i], PLAYER_RADIUS, hole, hole_radius)
  /\ circle_obstacle_collision(position[i], PLAYER_RADIUS, obstacles) = {}

BallOnField(i) ==
  /\ ball[i].x \in BALL_RADIUS .. (SCREEN_WIDTH - BALL_RADIUS)
  /\ ball[i].y \in (UI_TOP_MARGIN + BALL_RADIUS) .. (SCREEN_HEIGHT - BALL_RADIUS)

\* Wherever steps, strokes, bounces and borders take them (game.c:208-370),
\* players stand on the field, off the hole and off the obstacles, and balls
\* lie between the borders and below the status lines.
OnField == \A i \in P : PlayerOnField(i) /\ BallOnField(i)

\* With the obstacles away from the borders, as in the run, a ball that has come
\* to rest out of the hole can be played: wherever the bounce on an obstacle put
\* it (game.c:324-356), there is a free place to stand within reach of it.
BallReachable ==
  \A i \in P : ~Rolling(ball[i]) /\ ~ball_in_hole[i] =>
    \E a \in 0 .. 35 : Free([x |-> ball[i].x + Quot(cos(a) * (PLAYER_RADIUS + 5), 100),
                             y |-> ball[i].y + Quot(sin(a) * (PLAYER_RADIUS + 5), 100)])

\* In a game for one every stroke ends: the ball comes to rest or the round is
\* over, as long as the loop of game_start keeps running.
BallStops == (num_players = 1 /\ Rolling(ball[0])) ~> (phase # "play" \/ ~Rolling(ball[0]))
=============================================================================
