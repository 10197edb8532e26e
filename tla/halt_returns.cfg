CONSTANTS
  BLOCK_SIZE = 4
  data_count = 4
  BLOCKS = 3
  data_word = 0
  FileNames <- MCnames
  direntries <- MCdirentries
  dir_count = 3
  inodes <- MCinodes
  Elf <- MCElf
  U32 = 64
  NPROC = 3
  MAXFILE = 4
  Names = {"shell", "rtc"}
  NoArgs = ""
  Args = {"", "a"}
  Reads = {3}
  Statuses = {0}
  BootRam = {0}
  MaxSpill = 1
SPECIFICATION Spec
INVARIANT RunsInOwnPage
CHECK_DEADLOCK FALSE
