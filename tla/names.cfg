CONSTANTS
  NAME_SIZE = 2
  ARG_SIZE = 6
  BUF_SIZE = 3
  names <- MCnames
  dir_count = 3
  Commands <- MCCommands
  FileNames <- MCFileNames
  Readers = {1, 2}
  Reads = {1, 3}
SPECIFICATION Spec
INVARIANTS LooksUpName HoldsArguments
PROPERTIES  ListsDirectory
