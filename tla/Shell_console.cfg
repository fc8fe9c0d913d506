SPECIFICATION Spec
CONSTANTS
  WIDTH = 4
  HEIGHT = 12
  FONT_WIDTH = 1
  FONT_HEIGHT = 2
  TAB_CELLS = 2
  Keys <- KeySet
  Texts <- Sayings
  Words <- Names
  Lower <- LowerCase
  Digit <- DigitValue
  MAX_LINE_LENGTH = 5
  MAX_USER_LENGTH = 3
  SIZE_INPUT = 3
  MAX_ARGS = 3
  HOURS = 3
  MINUTES = 2
  SECONDS = 4
  MAX_KEYS = 8
  MAX_TICKS = 2
INVARIANTS CursorOnScreen LineOnScreen FontsAgree TimeNotBehind
CHECK_DEADLOCK FALSE
