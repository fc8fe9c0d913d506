SPECIFICATION FairSpec
CONSTANTS
  SCREEN_WIDTH = 1024
  SCREEN_HEIGHT = 768
  MAX_HITS = 2
  PlayerCounts = {1, 2}
  Levels = {2}
  HoleSpots <- HolesTried
  PlayerSpots <- PlayersTried
  BallSpots <- BallsTried
  ObstacleSpots <- ObstaclesTried
  Angles <- East
INVARIANTS OnField BallReachable
PROPERTIES ImplementsRound BallStops
CHECK_DEADLOCK FALSE
