SPECIFICATION Spec
CONSTANTS
  WIDTH = 14
  HEIGHT = 10
  PLAYER_RADIUS = 2
  BALL_RADIUS = 1
  ARROW_LEN = 5
  ARROW_MARGIN = 1
  hole <- HoleAt
  hole_radius = 1
  HOLE_AT_LEVEL_1 = 2
  obstacles <- Square
  Players <- OnePlayer
  PlayerSpots <- PlayerStarts
  BallSpots <- BallPlaces
  STEP = 4
  Angles <- Headings
INVARIANTS ShowsScene
