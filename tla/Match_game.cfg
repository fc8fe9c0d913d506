SPECIFICATION Spec
CONSTANTS
  MAX_HITS = 3
  MAX_OBSTACLES = 3
  MAX_ROUNDS = 4
INVARIANTS TypeOK MatchStartsClean ScoreIsRight
PROPERTY LevelFollowsRounds
