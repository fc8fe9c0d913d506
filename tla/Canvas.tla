------------------------------- MODULE Canvas -------------------------------
(***************************************************************************)
(* The picture of the golf field below the status lines.  A frame does not *)
(* paint the scene again: it paints over the discs of what has moved, with *)
(* the colour it works out for what lies behind, and draws the moved       *)
(* objects at their new place (game_functions.c, the end of the loop of    *)
(* game_start).  Colours are those of the objects; where objects move is   *)
(* module Golf's business, here they move freely over a few places.        *)
(***************************************************************************)
EXTENDS Geometry

CONSTANTS WIDTH, HEIGHT,              \* of the field, in pixels
          PLAYER_RADIUS, BALL_RADIUS, ARROW_LEN,
          ARROW_MARGIN,               \* how far below the status lines an arrow has to be
          hole, hole_radius,          \* the hole and its radius at this level
          HOLE_AT_LEVEL_1,            \* 15: the radius eraseBallSmart takes it to have
          obstacles,                  \* a set of squares
          Players,                    \* 0 .. num_players - 1
          PlayerSpots, BallSpots,     \* places at the start of a round, and of balls later on
          STEP,                       \* how far a player walks in a frame
          Angles                      \* bound of the model: directions players turn to

VARIABLES canvas,                     \* the colour of every pixel
          position, angle, ball,      \* the scene
          shown                       \* "round" or "message"

vars == <<canvas, position, angle, ball, shown>>

Pixels == [x : 0 .. (WIDTH - 1), y : 0 .. (HEIGHT - 1)]
Green == "green"
Black == "black"
Brown == "brown"
Arrow == "arrow"
Text == "text"
PlayerColor == <<"player1", "player2">>
BallColor == <<"ball1", "ball2">>
Colors == {Green, Black, Brown, Arrow, Text, "player1", "player2", "ball1", "ball2"}

Points == [x : Int, y : Int]
ASSUME RadiusAssumption ==
  /\ PLAYER_RADIUS \in Nat /\ BALL_RADIUS \in Nat /\ STEP \in Nat
  /\ hole_radius \in Nat /\ HOLE_AT_LEVEL_1 \in Nat /\ hole_radius <= HOLE_AT_LEVEL_1
ASSUME PlaceAssumption == hole \in Points /\ PlayerSpots \subseteq Points /\ BallSpots \subseteq Points
ASSUME AngleAssumption == 0 \in Angles /\ Angles \subseteq Headings

\* A place n pixels ahead, in whole pixels.
Along(p, a, n) == [x |-> p.x + Quot(n * cos(a), 100), y |-> p.y + Quot(n * sin(a), 100)]

\* No pixel of an arrow lies just outside the disc of its player, who stands
\* at the origin or has made a step.  True on the screen, with an arrow of 18,
\* steps of 10 and a radius of 10 to 15.
Reach == {[x |-> u, y |-> v] : u \in {-1, 0, 1}, v \in {-1, 0, 1}}
ArrowFits(r) ==
  \A a \in Headings, n \in {0, STEP}, e \in Reach :
    LET stand == Along([x |-> 0, y |-> 0], a, n)
        p == Along(e, a, ARROW_LEN)
    IN  e.x = 0 \/ e.y = 0 => Dist2(p, stand) <= Sq(r) \/ Dist2(p, stand) >= Sq(r + 1)
ASSUME ArrowAssumption == ARROW_LEN \in Nat /\ ArrowFits(PLAYER_RADIUS)

Disc(c, r) == {p \in Pixels : Dist2(p, c) <= Sq(r)}
point_in_obstacle(p) ==
  \E o \in obstacles : p.x \in o.x .. (o.x + o.size - 1) /\ p.y \in o.y .. (o.y + o.size - 1)
First(S) == CHOOSE j \in S : \A k \in S : j <= k

-----------------------------------------------------------------------------
(* Painting.  Every operator takes a picture and returns the next one.     *)

Paint(cv, colors) == [p \in Pixels |-> IF p \in DOMAIN colors THEN colors[p] ELSE cv[p]]

drawCircle(cv, c, r, color) == Paint(cv, [p \in Disc(c, r) |-> color])

\* Players and balls over a pixel; eraseArrow takes the pixel for a disc of its own.
PlayersAt(p, scene) == {j \in Players : Dist2(p, scene.position[j]) <= Sq(PLAYER_RADIUS)}
PlayersNear(p, scene) == {j \in Players : Dist2(p, scene.position[j]) < Sq(PLAYER_RADIUS + 1)}
BallsAt(p, scene) == {j \in Players : Dist2(p, scene.ball[j]) <= Sq(BALL_RADIUS)}

eraseBallSmart(cv, old, scene) ==
  LET others(p) == {j \in BallsAt(p, scene) : scene.ball[j] # old}
  IN  Paint(cv, [p \in Disc(old, BALL_RADIUS) |->
        CASE point_in_obstacle(p) -> Brown
          [] ~point_in_obstacle(p) /\ PlayersAt(p, scene) # {} ->
               PlayerColor[First(PlayersAt(p, scene)) + 1]
          [] ~point_in_obstacle(p) /\ PlayersAt(p, scene) = {} /\ others(p) # {} ->
               BallColor[First(others(p)) + 1]
          [] OTHER -> IF Dist2(p, hole) <= Sq(HOLE_AT_LEVEL_1) THEN Black ELSE Green])

erasePlayerSmart_Bug(cv, old, scene) ==    \* the balls are not painted again
  Paint(cv, [p \in Disc(old, PLAYER_RADIUS) |->
    IF point_in_obstacle(p) THEN Brown
    ELSE IF Dist2(p, hole) <= Sq(hole_radius) THEN Black ELSE Green])

erasePlayerSmart(cv, old, scene) ==
  LET others(p) == {j \in PlayersAt(p, scene) : scene.position[j] # old}
  IN  Paint(cv, [p \in Disc(old, PLAYER_RADIUS) |->
        CASE point_in_obstacle(p) -> Brown
          [] ~point_in_obstacle(p) /\ others(p) # {} -> PlayerColor[First(others(p)) + 1]
          [] ~point_in_obstacle(p) /\ others(p) = {} /\ BallsAt(p, scene) # {} ->
               BallColor[First(BallsAt(p, scene)) + 1]
          [] OTHER -> IF Dist2(p, hole) <= Sq(hole_radius) THEN Black ELSE Green])

\* The five pixels of an arrow; none when its tip falls on an obstacle or
\* close below the status lines.
ArrowPixels(pos, heading) ==
  LET tip == Along(pos, heading, ARROW_LEN)
  IN  IF tip.y < ARROW_MARGIN \/ point_in_obstacle(tip) THEN {}
      ELSE {p \in Disc(tip, 1) : ~point_in_obstacle(p)}

drawPlayerArrow(cv, pos, heading) == Paint(cv, [p \in ArrowPixels(pos, heading) |-> Arrow])

eraseArrow(cv, pos, heading, scene) ==
  Paint(cv, [p \in ArrowPixels(pos, heading) |->
    CASE Dist2(p, hole) <= Sq(hole_radius) -> Black
      [] Dist2(p, hole) > Sq(hole_radius) /\ PlayersNear(p, scene) # {} ->
           PlayerColor[First(PlayersNear(p, scene)) + 1]
      [] OTHER -> IF BallsAt(p, scene) = {} THEN Green ELSE BallColor[First(BallsAt(p, scene)) + 1]])

-----------------------------------------------------------------------------
(* Frames.                                                                 *)

\* What the loop over the players paints for player i, given the scene before
\* (old) and after (new) the frame.
Redraw(cv, i, old, new) ==
  LET playerMoved == old.position[i] # new.position[i]
      ballMoved == old.ball[i] # new.ball[i]
      arrowChanged == playerMoved \/ old.angle[i] # new.angle[i]
      body == IF ~playerMoved THEN cv
              ELSE drawCircle(erasePlayerSmart(cv, old.position[i], new),
                              new.position[i], PLAYER_RADIUS, PlayerColor[i + 1])
      balls == IF ~ballMoved THEN body
               ELSE drawCircle(eraseBallSmart(body, old.ball[i], new),
                               new.ball[i], BALL_RADIUS, BallColor[i + 1])
  IN  IF ~arrowChanged THEN balls
      ELSE drawPlayerArrow(eraseArrow(balls, old.position[i], old.angle[i], new),
                           new.position[i], new.angle[i])

Scene == [position |-> position, angle |-> angle, ball |-> ball]

\* The first picture of a round.
Drawn(scene) ==
  LET ground == [p \in Pixels |-> IF Dist2(p, hole) <= Sq(hole_radius) THEN Black
                                  ELSE IF point_in_obstacle(p) THEN Brown ELSE Green]
      Add(cv, i) == drawPlayerArrow(
                      drawCircle(drawCircle(cv, scene.position[i], PLAYER_RADIUS, PlayerColor[i + 1]),
                                 scene.ball[i], BALL_RADIUS, BallColor[i + 1]),
                      scene.position[i], scene.angle[i])
  IN  IF Players = {0} THEN Add(ground, 0) ELSE Add(Add(ground, 0), 1)

Init ==
  /\ position \in [Players -> PlayerSpots] /\ ball \in [Players -> BallSpots]
  /\ angle = [i \in Players |-> 0]
  /\ canvas = Drawn(Scene) /\ shown = "round"

\* Players walk ahead or turn, clear of hole and obstacles; balls roll anywhere.
Walks(i, pos) ==
  /\ pos \in {position[i], Along(position[i], angle[i], STEP)}
  /\ pos.x \in PLAYER_RADIUS .. (WIDTH - PLAYER_RADIUS)
  /\ pos.y \in PLAYER_RADIUS .. (HEIGHT - PLAYER_RADIUS)
  /\ Dist2(pos, hole) > Sq(PLAYER_RADIUS + hole_radius)
  /\ \A p \in Disc(pos, PLAYER_RADIUS) : ~point_in_obstacle(p)

\* Left, right, both or none of the two keys.
Turns(a) == {a, (a + 1) % 36, (a + 35) % 36}

Frame ==
  /\ shown = "round"
  /\ \E new \in [Players -> {position[i] : i \in Players} \cup
                            {Along(position[i], angle[i], STEP) : i \in Players}] :
       (\A i \in Players : Walks(i, new[i])) /\ position' = new
  /\ angle' \in [Players -> Angles]
  /\ \A i \in Players : angle'[i] \in Turns(angle[i])
  /\ ball' \in [Players -> BallSpots]
  /\ \E holed \in {drawCircle(canvas, hole, hole_radius, Black)} :
     \E one \in {Redraw(holed, 0, Scene, Scene')} :
       canvas' = IF Players = {0} THEN one ELSE Redraw(one, 1, Scene, Scene')
  /\ UNCHANGED shown

\* A message fills the screen; the next round starts with a picture of its own.
displayFullScreenMessage ==
  /\ shown = "round" /\ shown' = "message"
  /\ canvas' = [p \in Pixels |-> Text]
  /\ UNCHANGED <<position, angle, ball>>

NewRound ==
  /\ shown = "message" /\ shown' = "round"
  /\ position' \in [Players -> PlayerSpots] /\ ball' \in [Players -> BallSpots]
  /\ angle' = [i \in Players |-> 0]
  /\ canvas' = Drawn(Scene')

Next == Frame \/ displayFullScreenMessage \/ NewRound
Spec == Init /\ [][Next]_vars

-----------------------------------------------------------------------------
(* Properties.                                                             *)

\* What lies on a pixel, apart from an arrow.
Covering(p) ==
  {PlayerColor[j + 1] : j \in PlayersAt(p, Scene)} \cup {BallColor[j + 1] : j \in BallsAt(p, Scene)}
    \cup (IF point_in_obstacle(p) THEN {Brown} ELSE {})
    \cup (IF Dist2(p, hole) <= Sq(hole_radius) THEN {Black} ELSE {})

\* Painting only what changed leaves the picture of the scene: no pixel keeps
\* the colour of something that is no longer there, and none lacks what is
\* (redraw at game.c:410-432).  Two things may be off: a ball that leaves an
\* arrow takes its pixels with it, and the hole may look as large as
\* eraseBallSmart takes it to be (game_functions.c:121).
ShowsScene ==
  shown = "round" =>
    \A p \in Pixels :
      canvas[p] \in (IF Covering(p) = {} THEN {Green} ELSE Covering(p))
        \cup (IF \E j \in Players : p \in ArrowPixels(position[j], angle[j]) THEN {Arrow} ELSE {})
        \cup (IF Dist2(p, hole) <= Sq(HOLE_AT_LEVEL_1) THEN {Black} ELSE {})
=============================================================================
