CONSTANTS
  BLOCK_SIZE = 4
  data_count = 4
  BLOCKS = 3
  data_word = 0
  FileNames <- MCnames
  direntries <- MCfewslots
  dir_count = 3
  inodes <- MCinodes
  Elf <- MCElf
  U32 = 64
  NPROC = 2
  MAXFILE = 4
  Names = {"shell", "txt", "rtc", "dir", "dev"}
  NoArgs = ""
  Args = {""}
  Reads = {3}
  Statuses = {0}
  BootRam = {0}
  MaxSpill = 0
SPECIFICATION FairSpec
INVARIANTS TypeOK StdioStaysOpen FilePositionInFile ReadsFileBytes
PROPERTIES ImplementsTable ImplementsClock OpenDescriptorStable UnmaskedReaderWakes LineEndsRead
CHECK_DEADLOCK FALSE
