CONSTANTS
  IntN = {3, 33, 39, 128}
  MaxFrames = 6
SPECIFICATION FairSpec
INVARIANTS TypeOK ResetOffScreen CallsRunAlone NestingBounded ProgramsInterruptible
PROPERTIES DevicesRunHandlers ShellStarts
CHECK_DEADLOCK FALSE
