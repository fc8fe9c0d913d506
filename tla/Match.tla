------------------------------- MODULE Match -------------------------------
(***************************************************************************)
(* The golf game from the shell command to the return to the shell: the    *)
(* home screen, rounds started from the message of the previous one (a     *)
(* nested call of game_start each), the level and the score of the match.  *)
(***************************************************************************)
EXTENDS Round

CONSTANTS MAX_OBSTACLES,    \* the last level (20)
          MAX_ROUNDS        \* bound of the model: calls of game_start in a match

ASSUME LevelAssumption == MAX_OBSTACLES \in Nat \ {0} /\ MAX_ROUNDS \in Nat \ {0}

VARIABLES current_level, reset_victorias,
          depth,            \* calls of game_start that have not returned
          announced,        \* history: rounds of this match each player was named the winner of
          forfeited         \* history: those of them that a seventh stroke ended

vars == <<num_players, golpes, puede_golpear, moving, ball_in_hole, ganador, victorias, phase,
          current_level, reset_victorias, depth, announced, forfeited>>
matchVars == <<current_level, reset_victorias, depth, announced, forfeited>>

Zero == [i \in Both |-> 0]

Init ==
  /\ num_players = 1 /\ golpes = Zero /\ ganador = NOBODY /\ phase = "shell"
  /\ puede_golpear = [i \in Both |-> FALSE] /\ moving = [i \in Both |-> FALSE]
  /\ ball_in_hole = [i \in Both |-> FALSE]
  /\ victorias = Zero /\ announced = Zero /\ forfeited = Zero
  /\ current_level = 1 /\ reset_victorias = TRUE /\ depth = 0

-----------------------------------------------------------------------------
(* Starting and leaving.                                                   *)

\* The command `jugar' shows the home screen.
game_main_screen ==
  /\ phase = "shell"
  /\ phase' = "home" /\ current_level' = 1
  /\ UNCHANGED <<num_players, golpes, puede_golpear, moving, ball_in_hole, ganador, victorias,
                 reset_victorias, depth, announced, forfeited>>

LeaveHome ==
  /\ phase = "home" /\ phase' = "shell"
  /\ UNCHANGED <<num_players, golpes, puede_golpear, moving, ball_in_hole, ganador, victorias,
                 matchVars>>

\* A call of game_start, up to its loop.
game_start(n) ==
  /\ num_players' = n
  /\ victorias' = IF reset_victorias THEN Zero ELSE victorias
  /\ announced' = IF depth = 0 THEN Zero ELSE announced
  /\ forfeited' = IF depth = 0 THEN Zero ELSE forfeited
  /\ reset_victorias' = FALSE
  /\ golpes' = Zero /\ puede_golpear' = [i \in Both |-> i < n]
  /\ moving' = [i \in Both |-> FALSE] /\ ball_in_hole' = [i \in Both |-> FALSE]
  /\ ganador' = NOBODY /\ phase' = "play"
  /\ depth' = depth + 1

ChooseGame(n) ==
  /\ phase = "home"
  /\ game_start(n)
  /\ UNCHANGED current_level

increment_level_Bug == current_level' = current_level + 1

increment_level ==
  current_level' = IF current_level + 1 > MAX_OBSTACLES THEN MAX_OBSTACLES ELSE current_level + 1

\* SPACE or ENTER under the message of a decided round.
NextRound_Bug ==            \* the level of a lost round is taken for passed as well
  /\ phase \in {"over", "failed"} /\ depth < MAX_ROUNDS
  /\ game_start(num_players)
  /\ increment_level

NextRound ==
  /\ phase = "over" /\ depth < MAX_ROUNDS
  /\ game_start(num_players)
  /\ IF ganador # DEFEAT THEN increment_level ELSE UNCHANGED current_level

\* SPACE or ENTER under the message of the seventh stroke.
RetryRound ==
  /\ phase = "failed" /\ depth < MAX_ROUNDS
  /\ game_start(num_players)
  /\ UNCHANGED current_level

Quit_Bug ==                 \* leaving in the middle of a round keeps the score
  /\ phase \in {"play", "over", "failed"}
  /\ phase' = "exit" /\ current_level' = 1
  /\ reset_victorias' = (phase # "play")
  /\ UNCHANGED <<num_players, golpes, puede_golpear, moving, ball_in_hole, ganador, victorias,
                 depth, announced, forfeited>>

\* ESC in a frame or under a message: the final score, then the way out.
Quit ==
  /\ phase \in {"play", "over", "failed"}
  /\ phase' = "exit" /\ current_level' = 1 /\ reset_victorias' = TRUE
  /\ UNCHANGED <<num_players, golpes, puede_golpear, moving, ball_in_hole, ganador, victorias,
                 depth, announced, forfeited>>

\* Every call of game_start returns right after the one it made.
Return ==
  /\ phase = "exit"
  /\ depth' = depth - 1
  /\ phase' = IF depth = 1 THEN "shell" ELSE "exit"
  /\ UNCHANGED <<num_players, golpes, puede_golpear, moving, ball_in_hole, ganador, victorias,
                 current_level, reset_victorias, announced, forfeited>>

\* The message names i the winner: "VICTORIA!" alone, "GANA ..." in pairs.  The
\* seventh stroke names the other player, and nobody in a game for one.
Announces(i) ==
  /\ ganador' = i
  /\ phase' = "over" \/ (phase' = "failed" /\ num_players = 2)

GameFrame ==
  /\ Frame
  /\ announced' = [i \in Both |-> IF Announces(i) THEN announced[i] + 1 ELSE announced[i]]
  /\ forfeited' = [i \in Both |-> IF Announces(i) /\ phase' = "failed"
                                   THEN forfeited[i] + 1 ELSE forfeited[i]]
  /\ UNCHANGED <<current_level, reset_victorias, depth>>

Next ==
  \/ game_main_screen \/ LeaveHome \/ (\E n \in {1, 2} : ChooseGame(n))
  \/ GameFrame \/ NextRound \/ RetryRound \/ Quit \/ Return

Spec == Init /\ [][Next]_vars

-----------------------------------------------------------------------------
(* Properties.                                                             *)

InRound == phase \in {"play", "over", "failed"}

\* The variables have the types of their declarations; the level stays in the
\* range the hole radius and the obstacle array are made for.
TypeOK ==
  /\ num_players \in {1, 2} /\ golpes \in [Both -> 0 .. MAX_HITS]
  /\ puede_golpear \in [Both -> BOOLEAN] /\ moving \in [Both -> BOOLEAN]
  /\ ball_in_hole \in [Both -> BOOLEAN] /\ ganador \in {DEFEAT, NOBODY, 0, 1}
  /\ victorias \in [Both -> Nat]
  /\ announced \in [Both -> Nat] /\ forfeited \in [Both -> Nat]
  /\ phase \in {"shell", "home", "play", "over", "failed", "exit"}
  /\ current_level \in 1 .. MAX_OBSTACLES
  /\ reset_victorias \in BOOLEAN /\ depth \in Nat

\* A match starts at level 1 and with an empty score whatever way the previous
\* one was left, in the middle of a round or under any of its messages.
MatchStartsClean ==
  /\ (phase = "play" /\ depth = 1) => (current_level = 1 /\ victorias = Zero)
  /\ phase = "home" => (current_level = 1 /\ reset_victorias)

\* Rounds won by a ball in the hole or by the spent strokes of the other player.
Earned(i) == announced[i] - forfeited[i]

\* The score under the message: playing alone, the rounds of this match whose
\* ball went into the hole.  In pairs, where such a victory is counted twice
\* (game.c:382-404 and 449-463) and the one a seventh stroke announces not at all
\* (game.c:243-252), it puts the player ahead who has won more rounds, those
\* ended by a seventh stroke left out.
ScoreIsRight ==
  InRound =>
    /\ num_players = 1 => victorias[0] = announced[0] /\ victorias[1] = 0
    /\ num_players = 2 =>
         \A i \in Both : victorias[i] > victorias[Other(i)] <=> Earned(i) > Earned(Other(i))

\* Within a match the level rises by at most one per round, only when the round
\* was decided by its frames, never by the message of a seventh stroke, and
\* falls only on the way out.
LevelFollowsRounds ==
  [][ /\ current_level' > current_level =>
           phase = "over" /\ ganador # DEFEAT /\ current_level' = current_level + 1
      /\ current_level' < current_level => phase' \in {"exit", "home"} ]_vars
=============================================================================
