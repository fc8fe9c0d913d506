------------------------------- MODULE Round -------------------------------
(***************************************************************************)
(* One round of the golf game (the loop of game_start, game.c), without    *)
(* its geometry: which players reach which balls, which balls stop and     *)
(* which fall into the hole is chosen freely in every frame.  What is left *)
(* is the order in which one frame looks at strokes, hole and defeat, and  *)
(* what it adds to the score.                                              *)
(***************************************************************************)
EXTENDS Integers

CONSTANT MAX_HITS           \* strokes a player has (6 in the code)

ASSUME HitsAssumption == MAX_HITS \in Nat \ {0}

VARIABLES num_players,      \* 1 or 2
          golpes,           \* strokes each player has made
          puede_golpear,    \* the player has been away from the ball since the last stroke
          moving,           \* the ball has a velocity other than 0
          ball_in_hole,
          ganador,          \* the winner, NOBODY, or DEFEAT of the only player
          victorias,        \* victorias_p1, victorias_p2
          phase             \* "play", or the message a round ended with

roundVars == <<num_players, golpes, puede_golpear, moving, ball_in_hole, ganador, victorias, phase>>

NOBODY == -1
DEFEAT == -2
Both == {0, 1}              \* players[2]
P == 0 .. num_players - 1
Other(i) == 1 - i
First(S, i) == i \in S /\ \A k \in S : i <= k

-----------------------------------------------------------------------------
(* Strokes.                                                                *)

\* Player i drives ball j: the first one in reach, for the stroke uses up
\* puede_golpear.
Strikes(i, j, touch) ==
  puede_golpear[i] /\ First({k \in P : <<i, k>> \in touch /\ ~ball_in_hole[k]}, j)

\* Strokes made once the players below n have had their turn of the loop.
Strokes(touch, n) ==
  [i \in Both |-> IF i < n /\ i \in P /\ golpes[i] < MAX_HITS /\ Strikes(i, i, touch)
                    THEN golpes[i] + 1 ELSE golpes[i]]

Driven(j, touch, n) == \E i \in P : i < n /\ Strikes(i, j, touch)

\* One stroke too many on the player's own ball.
Fails(i, touch) == Strikes(i, i, touch) /\ golpes[i] >= MAX_HITS /\ ganador = NOBODY

\* The message of the seventh stroke: no victory is counted for anybody.
FailedRound(touch) ==
  /\ phase = "play"
  /\ \E i \in P :
       /\ First({k \in P : Fails(k, touch)}, i)
       /\ ganador' = Other(i)
       /\ golpes' = Strokes(touch, i)
       /\ puede_golpear' = [k \in Both |-> puede_golpear[k]
                              /\ ~(k < i /\ \E j \in P : Strikes(k, j, touch))]
       /\ moving' = [j \in Both |-> moving[j] \/ Driven(j, touch, i)]
  /\ phase' = "failed"
  /\ UNCHANGED <<num_players, ball_in_hole, victorias>>

-----------------------------------------------------------------------------
(* The frame: strokes, physics, hole, defeat, score.                       *)

\* A player is armed again while the own ball is out of reach.
Armed(touch) ==
  [i \in Both |-> IF i \notin P THEN puede_golpear[i]
                  ELSE <<i, i>> \notin touch \/
                       (puede_golpear[i] /\ ~\E j \in P : Strikes(i, j, touch))]

Sinking(drop) == {i \in P \cap drop : ~ball_in_hole[i] /\ ganador = NOBODY}

\* Players without strokes whose ball has stopped outside the hole.
Spent == {i \in P : ~ball_in_hole'[i] /\ golpes'[i] >= MAX_HITS /\ ~moving'[i]}

Result(drop) ==
  \/ \E i \in P : First(Sinking(drop), i) /\ ganador' = i
  \/ /\ Sinking(drop) = {} /\ ganador = NOBODY
     /\ \E i \in P : First(Spent, i) /\ ganador' = IF num_players = 1 THEN DEFEAT ELSE Other(i)
  \/ /\ Sinking(drop) = {} /\ (ganador # NOBODY \/ Spent = {})
     /\ ganador' = ganador

\* Victories added when the ball drops or a player is out of strokes.
CountedAtDecision(i) == IF num_players = 2 /\ ganador' = i THEN 1 ELSE 0

CountedAtMessage_Bug(i) ==  \* the loser is counted
  IF \/ num_players = 1 /\ i = 0 /\ ganador' # DEFEAT /\ ball_in_hole'[0]
     \/ num_players = 2 /\ ganador' = Other(i)
    THEN 1 ELSE 0

\* Victories added when the message is written.
CountedAtMessage(i) ==
  IF \/ num_players = 1 /\ i = 0 /\ ganador' # DEFEAT /\ ball_in_hole'[0]
     \/ num_players = 2 /\ ganador' = i
    THEN 1 ELSE 0

\* The strokes of a frame in which nobody makes one too many.
PlayStrokes(touch) ==
  /\ phase = "play"
  /\ \A i \in P : ~Fails(i, touch)
  /\ golpes' = Strokes(touch, num_players)
  /\ puede_golpear' = Armed(touch)

\* The rest of it: balls that stop and balls that drop into the hole.
Settle(touch, stop, drop) ==
  /\ \A j \in drop : moving[j] \/ Driven(j, touch, num_players)
  /\ ball_in_hole' = [i \in Both |-> ball_in_hole[i] \/ First(Sinking(drop), i)]
  /\ moving' = [j \in Both |-> /\ moving[j] \/ Driven(j, touch, num_players)
                               /\ j \notin stop /\ ~First(Sinking(drop), j)]
  /\ Result(drop)
  /\ victorias' = IF ganador' = NOBODY THEN victorias
                  ELSE [i \in Both |-> victorias[i] + CountedAtDecision(i) + CountedAtMessage(i)]
  /\ phase' = IF ganador' = NOBODY THEN "play" ELSE "over"
  /\ UNCHANGED num_players

Frame ==
  \E touch \in SUBSET (P \X P) :
    \/ FailedRound(touch)
    \/ PlayStrokes(touch) /\ \E stop, drop \in SUBSET P : Settle(touch, stop, drop)

-----------------------------------------------------------------------------
(* The round on its own, as the geometry of a frame has to implement it.   *)

Fresh(n) ==
  /\ golpes = [i \in Both |-> 0] /\ puede_golpear = [i \in Both |-> i < n]
  /\ moving = [i \in Both |-> FALSE] /\ ball_in_hole = [i \in Both |-> FALSE]
  /\ ganador = NOBODY /\ phase = "play"

RoundInit == num_players \in {1, 2} /\ victorias = [i \in Both |-> 0] /\ Fresh(num_players)
RoundSpec == RoundInit /\ [][Frame]_roundVars
=============================================================================
