CONSTANTS
  BLOCK_SIZE = 4
  data_count = 4
  BLOCKS = 3
  data_word = 0
  FileNames <- MCnames
  direntries <- MCdirentries
  dir_count = 3
  inodes <- MCinodes
  Elf <- MCElf
  U32 = 64
  NPROC = 3
  MAXFILE = 3
  Names = {"shell", "cat", "bad"}
  NoArgs = ""
  Args = {""}
  Reads = {}
  Statuses = {1}
  BootRam = {0, 1}
  MaxSpill = 1
SPECIFICATION Spec
INVARIANTS PageMatchesPcb NoProgramOnKernelPage SlotsInOrder ProcessInv
PROPERTIES ImagesStay LostThroughLeftovers
CHECK_DEADLOCK FALSE
