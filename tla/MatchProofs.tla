----------------------------- MODULE MatchProofs -----------------------------
(***************************************************************************)
(* Proofs about Match, for any number of strokes, levels and rounds.  The  *)
(* score is right only because a round that goes on has no winner yet and  *)
(* because reset_victorias is off exactly while a match is being played;   *)
(* a match starts clean because it is on again on every way out.           *)
(***************************************************************************)
EXTENDS Match, TLAPS

\* Which values of depth, level, score flag and winner go with each phase.
PhaseInv ==
  /\ phase \in {"shell", "home"} => depth = 0 /\ reset_victorias
  /\ phase = "home" => current_level = 1
  /\ InRound => depth >= 1 /\ ~reset_victorias
  /\ phase = "exit" => depth >= 1 /\ reset_victorias
  /\ phase = "play" => ganador = NOBODY
  /\ phase = "play" /\ depth = 1 => current_level = 1 /\ victorias = Zero

\* In pairs a round is counted twice, when the ball drops or the strokes are
\* used up and when the message is written, or not at all: a seventh stroke.
ScoreInv ==
  InRound =>
    /\ num_players = 1 => victorias[0] = announced[0] /\ victorias[1] = 0
    /\ num_players = 2 => \A i \in Both : victorias[i] = 2 * (announced[i] - forfeited[i])

IInv == TypeOK /\ PhaseInv /\ ScoreInv

-----------------------------------------------------------------------------
(* One round.                                                              *)

\* A frame keeps the types of the round's variables.
LEMMA FrameTypes ==
  ASSUME TypeOK, Frame
  PROVE  /\ num_players' \in {1, 2} /\ golpes' \in [Both -> 0 .. MAX_HITS]
         /\ puede_golpear' \in [Both -> BOOLEAN] /\ moving' \in [Both -> BOOLEAN]
         /\ ball_in_hole' \in [Both -> BOOLEAN] /\ ganador' \in {DEFEAT, NOBODY, 0, 1}
         /\ victorias' \in [Both -> Nat] /\ phase' \in {"play", "over", "failed"}
<1> USE DEF TypeOK, Both, P, NOBODY, DEFEAT, Other
<1>0. MAX_HITS \in Nat
  BY HitsAssumption
<1>s. ASSUME NEW touch, NEW n \in {0, 1, 2}
      PROVE  Strokes(touch, n) \in [Both -> 0 .. MAX_HITS]
  BY <1>0 DEF Strokes
<1> PICK touch \in SUBSET (P \X P) :
         \/ FailedRound(touch)
         \/ PlayStrokes(touch) /\ \E stop, drop \in SUBSET P : Settle(touch, stop, drop)
  BY DEF Frame
<1>1. CASE FailedRound(touch)
  <2> PICK i \in P : /\ ganador' = Other(i) /\ golpes' = Strokes(touch, i)
                     /\ puede_golpear' = [k \in Both |-> puede_golpear[k]
                                            /\ ~(k < i /\ \E j \in P : Strikes(k, j, touch))]
                     /\ moving' = [j \in Both |-> moving[j] \/ Driven(j, touch, i)]
    BY <1>1 DEF FailedRound
  <2>1. golpes' \in [Both -> 0 .. MAX_HITS]
    BY <1>s
  <2> QED BY <1>1, <2>1 DEF FailedRound
<1>2. CASE PlayStrokes(touch) /\ \E stop, drop \in SUBSET P : Settle(touch, stop, drop)
  <2> PICK stop \in SUBSET P, drop \in SUBSET P : Settle(touch, stop, drop)
    BY <1>2
  <2>1. num_players' = num_players /\ golpes' \in [Both -> 0 .. MAX_HITS]
    BY <1>2, <1>s DEF PlayStrokes, Settle
  <2>2. puede_golpear' \in [Both -> BOOLEAN]
    BY <1>2 DEF PlayStrokes, Armed
  <2>3. ball_in_hole' \in [Both -> BOOLEAN] /\ moving' \in [Both -> BOOLEAN]
    BY DEF Settle
  <2>4. ganador' \in {DEFEAT, NOBODY, 0, 1}
    BY DEF Settle, Result, First
  <2>5. victorias' \in [Both -> Nat]
    BY DEF Settle, CountedAtDecision, CountedAtMessage
  <2>6. phase' \in {"play", "over", "failed"}
    BY DEF Settle
  <2> QED BY <2>1, <2>2, <2>3, <2>4, <2>5, <2>6
<1> QED BY <1>1, <1>2

\* What a frame of an undecided round adds to the score.
LEMMA FrameScore ==
  ASSUME TypeOK, phase = "play", ganador = NOBODY, Frame
  PROVE  /\ num_players' = num_players
         /\ phase' = "play" => ganador' = NOBODY
         /\ phase' \in {"play", "failed"} => victorias' = victorias
         /\ phase' = "over" /\ num_players = 1 => ganador' # 1
         /\ phase' = "over" => \A i \in Both :
              victorias'[i] = victorias[i] + IF ganador' = i THEN num_players ELSE 0
<1> USE DEF TypeOK, Both, P, NOBODY, DEFEAT, Other
<1> PICK touch \in SUBSET (P \X P) :
         \/ FailedRound(touch)
         \/ PlayStrokes(touch) /\ \E stop, drop \in SUBSET P : Settle(touch, stop, drop)
  BY DEF Frame
<1>1. CASE FailedRound(touch)
  BY <1>1 DEF FailedRound
<1>2. CASE PlayStrokes(touch) /\ \E stop, drop \in SUBSET P : Settle(touch, stop, drop)
  <2> PICK stop \in SUBSET P, drop \in SUBSET P : Settle(touch, stop, drop)
    BY <1>2
  <2>1. ASSUME num_players = 1, ganador' = 0
        PROVE  ball_in_hole'[0]
    <3>1. First(Sinking(drop), 0)
      BY <2>1 DEF Settle, Result
    <3>2. ball_in_hole' = [i \in Both |-> ball_in_hole[i] \/ First(Sinking(drop), i)]
      BY DEF Settle
    <3> QED BY <3>1, <3>2
  <2>2. ganador' \in {DEFEAT, NOBODY, 0, 1} /\ (num_players = 1 => ganador' # 1)
    BY DEF Settle, Result, First
  <2>3. ASSUME ganador' # NOBODY, NEW i \in Both
        PROVE  victorias'[i] = victorias[i] + IF ganador' = i THEN num_players ELSE 0
    BY <2>1, <2>2, <2>3 DEF Settle, CountedAtDecision, CountedAtMessage
  <2>4. ganador' = NOBODY => victorias' = victorias
    BY DEF Settle
  <2> QED BY <2>2, <2>3, <2>4 DEF Settle
<1> QED BY <1>1, <1>2

-----------------------------------------------------------------------------
(* The match.                                                              *)

LEMMA InitInv == Init => IInv
BY HitsAssumption, LevelAssumption
   DEF Init, IInv, TypeOK, PhaseInv, ScoreInv, InRound, Both, Zero, NOBODY, DEFEAT

\* A call of game_start begins an undecided round with the score it was given.
LEMMA StartInv ==
  ASSUME IInv, NEW n \in {1, 2}, game_start(n), current_level' \in 1 .. MAX_OBSTACLES,
         \/ phase = "home" /\ current_level' = current_level
         \/ phase \in {"over", "failed"} /\ n = num_players
  PROVE  IInv'
<1> USE DEF IInv, PhaseInv, InRound, game_start, NOBODY, DEFEAT, Both
<1>1. TypeOK'
  <2>1. golpes' \in [Both -> 0 .. MAX_HITS] /\ victorias' \in [Both -> Nat]
        /\ announced' \in [Both -> Nat] /\ forfeited' \in [Both -> Nat]
    BY HitsAssumption DEF TypeOK, Zero
  <2>2. /\ puede_golpear' \in [Both -> BOOLEAN] /\ moving' \in [Both -> BOOLEAN]
        /\ ball_in_hole' \in [Both -> BOOLEAN]
    <3>1. \A i \in Both : (i < n) \in BOOLEAN
      OBVIOUS
    <3>2. puede_golpear' \in [Both -> BOOLEAN]
      BY <3>1, Zenon
    <3> QED BY <3>2
  <2>3. /\ num_players' \in {1, 2} /\ ganador' \in {DEFEAT, NOBODY, 0, 1} /\ phase' = "play"
        /\ depth' \in Nat
    BY DEF TypeOK
  <2>4. reset_victorias' \in BOOLEAN
    BY Zenon
  <2> HIDE DEF game_start, Both
  <2> QED BY <2>1, <2>2, <2>3, <2>4 DEF TypeOK
<1>2. PhaseInv'
  <2>1. depth' >= 1 /\ (phase # "home" => depth' >= 2)
    BY DEF TypeOK
  <2>2. phase = "home" => current_level' = 1 /\ victorias' = Zero
    OBVIOUS
  <2> QED BY <2>1, <2>2
<1>3. ScoreInv'
  BY DEF TypeOK, ScoreInv, Zero
<1> QED BY <1>1, <1>2, <1>3

LEMMA FrameInv ==
  ASSUME IInv, GameFrame
  PROVE  IInv'
<1>0. phase = "play"
  BY DEF GameFrame, Frame, FailedRound, PlayStrokes
<1> USE DEF IInv, GameFrame
<1>1. announced' \in [Both -> Nat] /\ forfeited' \in [Both -> Nat]
  BY DEF TypeOK
<1>2. TypeOK'
  BY <1>1, FrameTypes DEF TypeOK
<1>3. PhaseInv'
  BY <1>0, FrameTypes, FrameScore DEF PhaseInv, InRound, TypeOK
<1>4. ScoreInv'
  <2>1. ganador = NOBODY
    BY <1>0 DEF PhaseInv
  <2>2. /\ num_players = 1 => victorias[0] = announced[0] /\ victorias[1] = 0
        /\ num_players = 2 => \A i \in Both : victorias[i] = 2 * (announced[i] - forfeited[i])
    BY <1>0 DEF ScoreInv, InRound
  <2>3. CASE phase' = "over"
    <3>1. /\ \A i \in Both : announced'[i] = IF ganador' = i THEN announced[i] + 1 ELSE announced[i]
          /\ \A i \in Both : forfeited'[i] = forfeited[i]
      BY <2>3 DEF Announces
    <3>2. /\ num_players' = num_players /\ (num_players = 1 => ganador' # 1)
          /\ \A i \in Both : victorias'[i] = victorias[i] + IF ganador' = i THEN num_players ELSE 0
      BY <1>0, <2>1, <2>3, FrameScore
    <3> QED BY <2>2, <3>1, <3>2 DEF ScoreInv, TypeOK, Both
  <2>4. CASE phase' = "failed"
    <3>1. num_players' = num_players /\ victorias' = victorias
      BY <1>0, <2>1, <2>4, FrameScore
    <3>2. \A i \in Both : announced'[i] - forfeited'[i] = announced[i] - forfeited[i]
      BY <2>4 DEF Announces, TypeOK
    <3>3. num_players = 1 => announced' = announced
      BY <2>4, <3>1 DEF Announces, TypeOK
    <3> QED BY <2>2, <3>1, <3>2, <3>3 DEF ScoreInv
  <2>5. CASE phase' = "play"
    <3>1. announced' = announced /\ forfeited' = forfeited
      BY <2>5 DEF Announces, TypeOK
    <3>2. num_players' = num_players /\ victorias' = victorias
      BY <1>0, <2>1, <2>5, FrameScore
    <3> QED BY <2>2, <3>1, <3>2 DEF ScoreInv
  <2> QED BY <2>3, <2>4, <2>5, FrameTypes
<1> QED BY <1>2, <1>3, <1>4

LEMMA StepInv == IInv /\ [Next]_vars => IInv'
<1> SUFFICES ASSUME IInv, [Next]_vars PROVE IInv'
  OBVIOUS
<1>0. MAX_OBSTACLES \in Nat /\ MAX_OBSTACLES >= 1 /\ MAX_HITS \in Nat
  BY LevelAssumption, HitsAssumption
<1>1. CASE game_main_screen
  BY <1>0, <1>1 DEF game_main_screen, IInv, TypeOK, PhaseInv, ScoreInv, InRound
<1>2. CASE LeaveHome
  BY <1>2 DEF LeaveHome, matchVars, IInv, TypeOK, PhaseInv, ScoreInv, InRound
<1>3. CASE \E n \in {1, 2} : ChooseGame(n)
  BY <1>3, StartInv DEF ChooseGame, IInv, TypeOK
<1>4. CASE GameFrame
  BY <1>4, FrameInv
<1>5. CASE NextRound
  <2>1. current_level' \in 1 .. MAX_OBSTACLES
    BY <1>0, <1>5 DEF NextRound, increment_level, IInv, TypeOK
  <2> QED BY <1>5, <2>1, StartInv DEF NextRound, IInv, TypeOK
<1>6. CASE RetryRound
  BY <1>6, StartInv DEF RetryRound, IInv, TypeOK
<1>7. CASE Quit
  BY <1>0, <1>7 DEF Quit, IInv, TypeOK, PhaseInv, ScoreInv, InRound
<1>8. CASE Return
  BY <1>8 DEF Return, IInv, TypeOK, PhaseInv, ScoreInv, InRound
<1>9. CASE UNCHANGED vars
  BY <1>9 DEF vars, IInv, TypeOK, PhaseInv, ScoreInv, InRound
<1> QED
  BY <1>1, <1>2, <1>3, <1>4, <1>5, <1>6, <1>7, <1>8, <1>9 DEF Next

\* The inductive invariant of the match.
THEOREM Invariance == Spec => []IInv
BY InitInv, StepInv, PTL DEF Spec

\* Types, and a level within the range of hole radius and obstacle array
\* (game_functions.c:379-401), whatever is won, lost, repeated or left.
THEOREM TypeCorrect == Spec => []TypeOK
<1>1. IInv => TypeOK
  BY DEF IInv
<1> QED BY <1>1, Invariance, PTL

\* A match starts at level 1 with an empty score (reset_victorias, game.c:53-57).
THEOREM StartsClean == Spec => []MatchStartsClean
<1>1. IInv => MatchStartsClean
  BY DEF IInv, PhaseInv, MatchStartsClean
<1> QED BY <1>1, Invariance, PTL

\* The score shown ranks the players by the rounds they won (game.c:449-463)
\* otherwise than by a seventh stroke, and alone it counts them.
THEOREM ScoreCorrect == Spec => []ScoreIsRight
<1>1. IInv => ScoreIsRight
  BY DEF IInv, ScoreInv, ScoreIsRight, Earned, TypeOK, Both, Other
<1> QED BY <1>1, Invariance, PTL

\* The level rises by one, after a round that was won, and falls on leaving.
THEOREM LevelCorrect == Spec => LevelFollowsRounds
<1> DEFINE Levelled ==
      /\ current_level' > current_level =>
           phase = "over" /\ ganador # DEFEAT /\ current_level' = current_level + 1
      /\ current_level' < current_level => phase' \in {"exit", "home"}
<1>1. IInv /\ [Next]_vars => [Levelled]_vars
  <2> SUFFICES ASSUME IInv, Next PROVE Levelled
    BY DEF vars
  <2>0. current_level \in 1 .. MAX_OBSTACLES /\ MAX_OBSTACLES \in Nat
    BY LevelAssumption DEF IInv, TypeOK
  <2>1. CASE game_main_screen \/ Quit
    BY <2>0, <2>1 DEF game_main_screen, Quit
  <2>2. CASE NextRound
    BY <2>0, <2>2 DEF NextRound, increment_level
  <2>3. CASE LeaveHome \/ (\E n \in {1, 2} : ChooseGame(n)) \/ RetryRound \/ Return
    BY <2>0, <2>3 DEF LeaveHome, matchVars, ChooseGame, RetryRound, Return
  <2>4. CASE GameFrame
    BY <2>0, <2>4 DEF GameFrame
  <2> QED BY <2>1, <2>2, <2>3, <2>4 DEF Next
<1> QED BY <1>1, Invariance, PTL DEF Spec, LevelFollowsRounds
=============================================================================
