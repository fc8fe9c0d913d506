SPECIFICATION FairSpec
CONSTANTS
  Durations = {20, 60, 100, 150}
  PERIOD = 5
  INT_SPAN = 64
  LONG_SPAN = 128
  TickLimit = 8
  TimeLimit = 20
INVARIANTS TypeOK SleepLasts SpeakerOnlyInBeep WakesInTime
PROPERTY SleepReturns
