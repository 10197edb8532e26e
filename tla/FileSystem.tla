----------------------------- MODULE FileSystem -----------------------------
(***************************************************************************)
(* The read-only file system image and the look-up and read routines of    *)
(* file_system.c.  The image is loaded once by fs_init and never written,  *)
(* so it is a set of constants:                                            *)
(*   direntries   the slots of the directory, in order; the first          *)
(*                dir_count are its entries, the others hold anything      *)
(*   inodes       inode number -> its length in bytes and the data block   *)
(*                number of every block index the inode can hold           *)
(*   data_count   the number of data blocks of the image                   *)
(* File names are values compared for equality: strncmp over 32 bytes, a   *)
(* file name being at most 32 bytes long.  A byte of a file is known by    *)
(* its place in the image, <<block number, index in the block>>.           *)
(***************************************************************************)
EXTENDS Integers, Sequences, FiniteSets

CONSTANTS
  BLOCK_SIZE,   (* bytes in a block; 4096 in the code                      *)
  FileNames,    (* what may be written in the name of a slot               *)
  direntries,   (* 63 slots in the code                                    *)
  dir_count,
  inodes,
  BLOCKS,       (* the block numbers an inode holds; 1023 in the code      *)
  data_count,
  data_word     (* what a word of the first data block holds               *)

(* What a dentry's filetype says the file is, if open knows the type.      *)
FileTypes == {"rtc", "dir", "file"}
UnknownType == "unknown"

BlockIndex(n) == n \div BLOCK_SIZE

ASSUME ImageAssumption ==
  /\ BLOCK_SIZE \in Nat \ {0}
  /\ data_count \in Nat
  /\ BLOCKS \in Nat \ {0} /\ data_word \in Nat
  /\ DOMAIN inodes \subseteq Nat
  /\ \A n \in DOMAIN inodes : inodes[n].length \in Nat
  /\ direntries \in Seq([filename : FileNames, filetype : FileTypes \union {UnknownType},
                         inode_num : Nat])
  /\ dir_count \in 0 .. Len(direntries)

(* The slot read_dentry_by_name returns for a name that is not empty: the  *)
(* first that matches.  It compares every slot, those past dir_count too.  *)
NamesFound(fname) ==
  { i \in DOMAIN direntries :
      /\ direntries[i].filename = fname
      /\ \A j \in 1 .. i - 1 : direntries[j].filename # fname }

(* data_block_number[index] of an inode.  The inodes lie one after the     *)
(* other in the image, each a length and its block numbers, and the data   *)
(* blocks behind them: an index past the array reads what follows.         *)
data_block_number(inode, index) ==
  LET next == inode + 1 + (index - BLOCKS) \div (BLOCKS + 1)
      word == (index - BLOCKS) % (BLOCKS + 1)
  IN  IF index < BLOCKS THEN inodes[inode].blocks[index]
      ELSE IF next \notin DOMAIN inodes THEN data_word
      ELSE IF word = 0 THEN inodes[next].length
      ELSE inodes[next].blocks[word - 1]

(* A data block number read_data accepts: both sides are signed.           *)
BlockNumberOk(inode, index) == data_block_number(inode, index) \in 0 .. data_count

(* What is left of the file when less than the length is.                  *)
BytesCopied_PastEnd(inode, offset, length) == length     (* a mutant: no clipping *)
BytesCopied(inode, offset, length) ==
  IF offset + length <= inodes[inode].length
  THEN length ELSE inodes[inode].length - offset

(***************************************************************************)
(* The value read_data returns: the number of bytes copied, 0 at the end   *)
(* of the file, -1 if the inode or a block number it may touch is bad.     *)
(* Every block from that of the first byte to that of offset + length is   *)
(* checked, past the end of the file too, before any byte is copied.       *)
(***************************************************************************)
ReadData(inode, offset, length) ==
  IF inode \notin DOMAIN inodes THEN -1
  ELSE IF length = 0 \/ offset >= inodes[inode].length THEN 0
  ELSE IF \E i \in BlockIndex(offset) .. BlockIndex(offset + length) :
            ~ BlockNumberOk(inode, i)
       THEN -1
  ELSE BytesCopied(inode, offset, length)

(***************************************************************************)
(* The copy of read_data: buffer index and source of every byte it writes. *)
(* It goes on to offset + length where the file ends before: the bytes     *)
(* past the end are copied and not counted.                                *)
(***************************************************************************)
Written(to, inode, index, byte) ==
  [to |-> to, from |-> <<data_block_number(inode, index), byte>>]

(* A mutant: the last block is copied whole.                               *)
Remainder_Whole(offset, length) == BLOCK_SIZE
Remainder(offset, length) == (offset + length) % BLOCK_SIZE

Copied(inode, offset, length) ==
  LET first    == BlockIndex(offset)
      last     == BlockIndex(offset + length)
      in_first == offset % BLOCK_SIZE
      place(i, j) == (i - first) * BLOCK_SIZE - in_first + j
  IN  IF last > first
      THEN { Written(k, inode, first, in_first + k) : k \in 0 .. BLOCK_SIZE - in_first - 1 }
             \union { Written(place(i, j), inode, i, j) :
                         i \in first + 1 .. last - 1, j \in 0 .. BLOCK_SIZE - 1 }
             \union { Written(place(last, j), inode, last, j) :
                         j \in 0 .. Remainder(offset, length) - 1 }
      ELSE { Written(k, inode, first, in_first + k) :
               k \in 0 .. Remainder(offset, length) - in_first - 1 }

(* What a caller expects in its buffer: byte k of it is byte offset + k of *)
(* the file.                                                               *)
FileByte(inode, k) == <<inodes[inode].blocks[BlockIndex(k)], k % BLOCK_SIZE>>

Delivers(inode, offset, length, sum) ==
  LET copied == Copied(inode, offset, length)
  IN  /\ { c.to : c \in copied } = 0 .. length - 1
      /\ \A c \in copied : c.to < sum => c.from = FileByte(inode, offset + c.to)

=============================================================================
