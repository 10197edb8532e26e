CONSTANTS
  Lower_case <- MCLower
  Upper_case <- MCUpper
  KeyL = "l"
  Alphabetic = {"l"}
  BUF_SIZE = 4
  NUM_ROWS = 2
  NUM_COLS = 3
  Keys = {"l"}
  Modifiers = {}
  Output = {}
  Sizes = {4}
  EarlyKeys = FALSE
SPECIFICATION Spec
INVARIANT ReadsEnteredLine
