CONSTANTS
  Lower_case <- MCLower
  Upper_case <- MCUpper
  KeyL = "l"
  Alphabetic = {"l"}
  BUF_SIZE = 4
  NUM_ROWS = 2
  NUM_COLS = 3
  Keys = {"l"}
  Modifiers = {"ctrl"}
  Output = {"l", "newline"}
  Sizes = {2}
  EarlyKeys = FALSE
SPECIFICATION FairSpec
INVARIANTS CursorOnScreen EchoMatchesLine
PROPERTY ReadCompletes
