CONSTANTS
  Lower_case <- MCLower
  Upper_case <- MCUpper
  KeyL = "l"
  Alphabetic = {"l"}
  BUF_SIZE = 3
  NUM_ROWS = 2
  NUM_COLS = 2
  Keys = {"l"}
  Modifiers = {"cap", "right_shift"}
  Output = {}
  Sizes = {1, 4}
  EarlyKeys = TRUE
SPECIFICATION Spec
INVARIANTS TypeOK EchoMatchesLine NoErasedBytes
PROPERTY ImplementsLines
CHECK_DEADLOCK FALSE
