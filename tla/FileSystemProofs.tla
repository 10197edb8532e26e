-------------------------- MODULE FileSystemProofs --------------------------
(***************************************************************************)
(* What the copy loops of read_data put in the caller's buffer, for every  *)
(* block size, file, position and count: whether a read begins or ends     *)
(* inside a block, at its edge, or spans blocks between.                   *)
(***************************************************************************)
EXTENDS FileSystem, Induction, TLAPS

LEMMA BlockSize == BLOCK_SIZE \in Nat /\ BLOCK_SIZE > 0
BY ImageAssumption

LEMMA Product ==
  ASSUME NEW a \in Nat, NEW b \in Nat
  PROVE  BLOCK_SIZE * a \in Nat /\ (a <= b => BLOCK_SIZE * a <= BLOCK_SIZE * b)
         /\ (a < b => BLOCK_SIZE * a + BLOCK_SIZE <= BLOCK_SIZE * b)
BY BlockSize

(* A byte is found in one block only.                                      *)
LEMMA Division ==
  ASSUME NEW n \in Nat
  PROVE  /\ BlockIndex(n) \in Nat /\ n % BLOCK_SIZE \in 0 .. BLOCK_SIZE - 1
         /\ n = BLOCK_SIZE * BlockIndex(n) + (n % BLOCK_SIZE)
BY BlockSize DEF BlockIndex

LEMMA OneBlock ==
  ASSUME NEW n \in Nat, NEW i \in Nat, NEW j \in 0 .. BLOCK_SIZE - 1,
         n = BLOCK_SIZE * i + j
  PROVE  BlockIndex(n) = i /\ n % BLOCK_SIZE = j
<1> DEFINE q == BlockIndex(n)
           r == n % BLOCK_SIZE
<1>1. q \in Nat /\ r \in 0 .. BLOCK_SIZE - 1 /\ n = BLOCK_SIZE * q + r
  BY Division
<1> HIDE DEF q, r
<1>2. ~ (q < i)
  BY <1>1, Product, BlockSize
<1>3. ~ (i < q)
  BY <1>1, Product, BlockSize
<1>4. q = i
  BY <1>1, <1>2, <1>3
<1>5. r = j
  BY <1>1, <1>4, Product, BlockSize
<1> QED
  BY <1>4, <1>5 DEF q, r

-----------------------------------------------------------------------------
(* The three loops copy every byte of the read once, each from its block.  *)
ByteOf(inode, offset, k) ==
  Written(k, inode, BlockIndex(offset + k), (offset + k) % BLOCK_SIZE)

(* The blocks and indices of the first byte and of that behind the last.   *)
LEMMA Ends ==
  ASSUME NEW offset \in Nat, NEW length \in Nat
  PROVE  LET first    == BlockIndex(offset)
             last     == BlockIndex(offset + length)
             in_first == offset % BLOCK_SIZE
             rest     == Remainder(offset, length)
         IN  /\ first \in Nat /\ last \in Nat /\ first <= last
             /\ in_first \in 0 .. BLOCK_SIZE - 1 /\ rest \in 0 .. BLOCK_SIZE - 1
             /\ offset = BLOCK_SIZE * first + in_first
             /\ offset + length = BLOCK_SIZE * last + rest
<1> DEFINE first    == BlockIndex(offset)
           last     == BlockIndex(offset + length)
           in_first == offset % BLOCK_SIZE
           rest     == Remainder(offset, length)
<1>1. /\ first \in Nat /\ in_first \in 0 .. BLOCK_SIZE - 1
      /\ offset = BLOCK_SIZE * first + in_first
  BY Division
<1>2. /\ last \in Nat /\ rest \in 0 .. BLOCK_SIZE - 1
      /\ offset + length = BLOCK_SIZE * last + rest
  <2>1. offset + length \in Nat
    OBVIOUS
  <2> QED
    BY <2>1, Division DEF Remainder
<1> HIDE DEF first, last, in_first, rest
<1>3. ~ (last < first)
  BY <1>1, <1>2, Product, BlockSize
<1>4. first <= last
  BY <1>1, <1>2, <1>3
<1> QED
  BY <1>1, <1>2, <1>4 DEF first, last, in_first, rest

(* A byte of the read lies in one of its blocks, and is known by the place *)
(* where a loop finds it.                                                  *)
LEMMA BytePlace ==
  ASSUME NEW inode, NEW offset \in Nat, NEW k \in Nat,
         NEW i \in Nat, NEW j \in 0 .. BLOCK_SIZE - 1,
         offset + k = BLOCK_SIZE * i + j
  PROVE  ByteOf(inode, offset, k) = Written(k, inode, i, j)
<1>1. offset + k \in Nat
  OBVIOUS
<1>2. BlockIndex(offset + k) = i /\ (offset + k) % BLOCK_SIZE = j
  BY <1>1, OneBlock
<1> QED
  BY <1>2 DEF ByteOf

(* A read inside one block.                                                *)
LEMMA CopiedInOne ==
  ASSUME NEW inode, NEW offset \in Nat, NEW length \in Nat,
         ~ (BlockIndex(offset + length) > BlockIndex(offset))
  PROVE  Copied(inode, offset, length)
           = { ByteOf(inode, offset, k) : k \in 0 .. length - 1 }
<1> DEFINE first    == BlockIndex(offset)
           last     == BlockIndex(offset + length)
           in_first == offset % BLOCK_SIZE
           rest     == Remainder(offset, length)
<1>1. /\ first \in Nat /\ last \in Nat /\ first <= last
      /\ in_first \in 0 .. BLOCK_SIZE - 1 /\ rest \in 0 .. BLOCK_SIZE - 1
      /\ offset = BLOCK_SIZE * first + in_first
      /\ offset + length = BLOCK_SIZE * last + rest
  BY Ends
<1>2. Copied(inode, offset, length)
        = { Written(k, inode, first, in_first + k) : k \in 0 .. rest - in_first - 1 }
  BY DEF Copied
<1>3. ~ (last > first)
  OBVIOUS
<1> HIDE DEF first, last, in_first, rest
<1>4. last = first /\ rest - in_first = length
  <2>1. last = first
    BY <1>1, <1>3
  <2> QED
    BY <1>1, <2>1, Product, BlockSize
<1>5. \A k \in 0 .. length - 1 :
        ByteOf(inode, offset, k) = Written(k, inode, first, in_first + k)
  <2> SUFFICES ASSUME NEW k \in 0 .. length - 1
               PROVE  ByteOf(inode, offset, k) = Written(k, inode, first, in_first + k)
    OBVIOUS
  <2>1. in_first + k \in 0 .. BLOCK_SIZE - 1
    BY <1>1, <1>4, BlockSize
  <2>2. offset + k = BLOCK_SIZE * first + (in_first + k)
    BY <1>1, Product, BlockSize
  <2> QED
    BY <1>1, <2>1, <2>2, BytePlace
<1> QED
  BY <1>2, <1>4, <1>5

(* A read that goes on into a later block.                                 *)
LEMMA CopiedInMore ==
  ASSUME NEW inode, NEW offset \in Nat, NEW length \in Nat,
         BlockIndex(offset + length) > BlockIndex(offset)
  PROVE  Copied(inode, offset, length)
           = { ByteOf(inode, offset, k) : k \in 0 .. length - 1 }
<1> DEFINE first    == BlockIndex(offset)
           last     == BlockIndex(offset + length)
           in_first == offset % BLOCK_SIZE
           rest     == Remainder(offset, length)
           place(i, j) == (i - first) * BLOCK_SIZE - in_first + j
           head   == { Written(k, inode, first, in_first + k) :
                         k \in 0 .. BLOCK_SIZE - in_first - 1 }
           middle == { Written(place(i, j), inode, i, j) :
                         i \in first + 1 .. last - 1, j \in 0 .. BLOCK_SIZE - 1 }
           tail   == { Written(place(last, j), inode, last, j) : j \in 0 .. rest - 1 }
           bytes  == { ByteOf(inode, offset, k) : k \in 0 .. length - 1 }
<1>1. /\ first \in Nat /\ last \in Nat
      /\ in_first \in 0 .. BLOCK_SIZE - 1 /\ rest \in 0 .. BLOCK_SIZE - 1
      /\ offset = BLOCK_SIZE * first + in_first
      /\ offset + length = BLOCK_SIZE * last + rest
  BY Ends
<1>2. Copied(inode, offset, length) = head \union middle \union tail
  BY DEF Copied
<1>3. last > first
  OBVIOUS
<1> HIDE DEF first, last, in_first, rest
(* Where the byte at index j of block i goes.                              *)
<1>4. ASSUME NEW i \in Nat, NEW j \in 0 .. BLOCK_SIZE - 1, first < i
      PROVE  place(i, j) \in Nat /\ offset + place(i, j) = BLOCK_SIZE * i + j
  <2>1. (i - first) * BLOCK_SIZE = BLOCK_SIZE * i - BLOCK_SIZE * first
    BY <1>1, BlockSize
  <2>2. BLOCK_SIZE * first + BLOCK_SIZE <= BLOCK_SIZE * i
    BY <1>1, <1>4, Product
  <2>3. BLOCK_SIZE * first \in Nat /\ BLOCK_SIZE * i \in Nat
    BY <1>1, Product
  <2> QED
    BY <1>1, <2>1, <2>2, <2>3, BlockSize
<1>5. ASSUME NEW i \in Nat, NEW j \in 0 .. BLOCK_SIZE - 1, first < i,
             i < last \/ (i = last /\ j < rest)
      PROVE  place(i, j) \in 0 .. length - 1
  <2>1. BLOCK_SIZE * i \in Nat /\ BLOCK_SIZE * last \in Nat
    BY <1>1, Product
  <2>2. BLOCK_SIZE * i + j < BLOCK_SIZE * last + rest
    <3>1. CASE i < last
      BY <1>1, <2>1, <3>1, Product, BlockSize
    <3>2. CASE i = last /\ j < rest
      BY <1>1, <2>1, <3>2
    <3> QED
      BY <1>5, <3>1, <3>2
  <2>3. place(i, j) \in Nat /\ offset + place(i, j) = BLOCK_SIZE * i + j
    BY <1>4, <1>5
  <2> HIDE DEF place
  <2> QED
    BY <1>1, <2>1, <2>2, <2>3
<1>6. head \subseteq bytes
  <2> SUFFICES ASSUME NEW k \in 0 .. BLOCK_SIZE - in_first - 1
               PROVE  Written(k, inode, first, in_first + k) \in bytes
    OBVIOUS
  <2>1. in_first + k \in 0 .. BLOCK_SIZE - 1
    BY <1>1, BlockSize
  <2>2. offset + k = BLOCK_SIZE * first + (in_first + k)
    BY <1>1, Product, BlockSize
  <2>3. k \in 0 .. length - 1
    <3>1. BLOCK_SIZE * first + BLOCK_SIZE <= BLOCK_SIZE * last
      BY <1>1, <1>3, Product
    <3>2. BLOCK_SIZE * first \in Nat /\ BLOCK_SIZE * last \in Nat
      BY <1>1, Product
    <3> QED
      BY <1>1, <2>1, <2>2, <3>1, <3>2, BlockSize
  <2>4. ByteOf(inode, offset, k) = Written(k, inode, first, in_first + k)
    BY <1>1, <2>1, <2>2, BytePlace
  <2> QED
    BY <2>3, <2>4
<1>7. middle \subseteq bytes
  <2> SUFFICES ASSUME NEW i \in first + 1 .. last - 1, NEW j \in 0 .. BLOCK_SIZE - 1
               PROVE  Written(place(i, j), inode, i, j) \in bytes
    OBVIOUS
  <2>1. i \in Nat /\ first < i /\ i < last
    BY <1>1
  <2>2. place(i, j) \in 0 .. length - 1 /\ offset + place(i, j) = BLOCK_SIZE * i + j
    BY <2>1, <1>4, <1>5
  <2> HIDE DEF place
  <2>3. ByteOf(inode, offset, place(i, j)) = Written(place(i, j), inode, i, j)
    BY <2>1, <2>2, BytePlace
  <2> QED
    BY <2>2, <2>3
<1>8. tail \subseteq bytes
  <2> SUFFICES ASSUME NEW j \in 0 .. rest - 1
               PROVE  Written(place(last, j), inode, last, j) \in bytes
    OBVIOUS
  <2>1. j \in 0 .. BLOCK_SIZE - 1 /\ j < rest
    BY <1>1, BlockSize
  <2>2. place(last, j) \in 0 .. length - 1 /\ offset + place(last, j) = BLOCK_SIZE * last + j
    BY <1>1, <1>3, <2>1, <1>4, <1>5
  <2> HIDE DEF place
  <2>3. ByteOf(inode, offset, place(last, j)) = Written(place(last, j), inode, last, j)
    BY <1>1, <2>1, <2>2, BytePlace
  <2> QED
    BY <2>2, <2>3
<1>9. bytes \subseteq head \union middle \union tail
  <2> SUFFICES ASSUME NEW k \in 0 .. length - 1
               PROVE  ByteOf(inode, offset, k) \in head \union middle \union tail
    OBVIOUS
  <2> DEFINE i == BlockIndex(offset + k)
             j == (offset + k) % BLOCK_SIZE
  <2>1. /\ i \in Nat /\ j \in 0 .. BLOCK_SIZE - 1
        /\ offset + k = BLOCK_SIZE * i + j
    <3>1. offset + k \in Nat
      OBVIOUS
    <3> QED
      BY <3>1, Division
  <2>2. ByteOf(inode, offset, k) = Written(k, inode, i, j)
    BY DEF ByteOf
  <2> HIDE DEF i, j
  <2>3. first <= i /\ i <= last
    <3>1. ~ (i < first)
      BY <1>1, <2>1, Product, BlockSize
    <3>2. ~ (last < i)
      BY <1>1, <2>1, Product, BlockSize
    <3> QED
      BY <1>1, <2>1, <3>1, <3>2
  <2>4. CASE i = first
    <3>1. j = in_first + k
      BY <1>1, <2>1, <2>4, Product, BlockSize
    <3>2. k \in 0 .. BLOCK_SIZE - in_first - 1
      BY <1>1, <2>1, <3>1, BlockSize
    <3>3. ByteOf(inode, offset, k) = Written(k, inode, first, in_first + k)
      BY <2>2, <2>4, <3>1
    <3> QED
      BY <3>2, <3>3
  <2>5. CASE first < i
    <3>1. k = place(i, j)
      <4>1. place(i, j) \in Nat /\ offset + place(i, j) = BLOCK_SIZE * i + j
        BY <2>1, <2>5, <1>4
      <4> HIDE DEF place
      <4> QED
        BY <2>1, <4>1
    <3>2. ByteOf(inode, offset, k) = Written(place(i, j), inode, i, j)
      BY <2>2, <3>1
    <3>3. CASE i < last
      <4>1. i \in first + 1 .. last - 1
        BY <1>1, <2>1, <2>5, <3>3
      <4> QED
        BY <2>1, <3>2, <4>1
    <3>4. CASE i = last
      <4>1. j \in 0 .. rest - 1
        <5>1. BLOCK_SIZE * last \in Nat
          BY <1>1, Product
        <5> QED
          BY <1>1, <2>1, <3>4, <5>1, BlockSize
      <4> QED
        BY <3>2, <3>4, <4>1
    <3> QED
      BY <1>1, <2>1, <2>3, <3>3, <3>4
  <2>6. i = first \/ first < i
    BY <1>1, <2>1, <2>3
  <2> HIDE DEF head, middle, tail
  <2> QED
    BY <2>4, <2>5, <2>6
<1> HIDE DEF head, middle, tail, bytes
<1>10. Copied(inode, offset, length) = bytes
  BY <1>2, <1>6, <1>7, <1>8, <1>9
<1> QED
  BY <1>10 DEF bytes

(* Every byte asked for is copied, to its place, and none further on.      *)
LEMMA CopiedBytes ==
  ASSUME NEW inode, NEW offset \in Nat, NEW length \in Nat
  PROVE  Copied(inode, offset, length)
           = { ByteOf(inode, offset, k) : k \in 0 .. length - 1 }
BY CopiedInOne, CopiedInMore

-----------------------------------------------------------------------------
(* What is counted of a read is in the file.                               *)

(* The block numbers of an inode are enough for its length.                *)
Fits(inode) == inodes[inode].length <= BLOCK_SIZE * BLOCKS
FilesFit == \A n \in DOMAIN inodes : Fits(n)

LEMMA InFile ==
  ASSUME NEW inode \in DOMAIN inodes, Fits(inode),
         NEW n \in Nat, n < inodes[inode].length
  PROVE  data_block_number(inode, BlockIndex(n)) = inodes[inode].blocks[BlockIndex(n)]
<1> DEFINE q == BlockIndex(n)
<1>1. q \in Nat /\ n % BLOCK_SIZE \in 0 .. BLOCK_SIZE - 1
      /\ n = BLOCK_SIZE * q + (n % BLOCK_SIZE)
  BY Division
<1>2. BLOCKS \in Nat /\ inodes[inode].length \in Nat
  BY ImageAssumption
<1>3. n < BLOCK_SIZE * BLOCKS
  BY <1>2, Product, BlockSize DEF Fits
<1> HIDE DEF q
<1>4. ~ (BLOCKS <= q)
  BY <1>1, <1>2, <1>3, Product, BlockSize
<1>5. q < BLOCKS
  BY <1>1, <1>2, <1>4
<1> QED
  BY <1>5 DEF data_block_number, q

(* read_data returns at most what was asked for and what the file has.     *)
LEMMA SumInFile ==
  ASSUME NEW inode \in DOMAIN inodes, NEW offset \in Nat, NEW length \in Nat,
         NEW sum, sum = ReadData(inode, offset, length), sum > 0
  PROVE  sum \in Nat /\ sum <= length /\ offset + sum <= inodes[inode].length
<1>1. inodes[inode].length \in Nat
  BY ImageAssumption
<1>2. sum = IF offset + length <= inodes[inode].length
            THEN length ELSE inodes[inode].length - offset
  BY DEF ReadData, BytesCopied
<1> QED
  BY <1>1, <1>2

(* A read that returns a count delivers: byte k of the buffer is byte      *)
(* offset + k of the file for every counted byte, and nothing is written   *)
(* past what was asked for.  For every block size, file, position, count.  *)
THEOREM ReadDelivers ==
  ASSUME NEW inode \in DOMAIN inodes, Fits(inode), NEW offset \in Nat, NEW length \in Nat,
         ReadData(inode, offset, length) > 0
  PROVE  Delivers(inode, offset, length, ReadData(inode, offset, length))
<1> DEFINE sum    == ReadData(inode, offset, length)
           copied == Copied(inode, offset, length)
<1>1. sum \in Nat /\ sum <= length /\ offset + sum <= inodes[inode].length
  BY SumInFile
<1>2. copied = { ByteOf(inode, offset, k) : k \in 0 .. length - 1 }
  BY CopiedBytes
<1>3. \A k : ByteOf(inode, offset, k).to = k
  BY DEF ByteOf, Written
<1>4. ASSUME NEW k \in 0 .. length - 1, k < sum
      PROVE  ByteOf(inode, offset, k).from = FileByte(inode, offset + k)
  <2>1. offset + k \in Nat /\ offset + k < inodes[inode].length
    BY <1>1, <1>4, ImageAssumption
  <2>2. data_block_number(inode, BlockIndex(offset + k))
          = inodes[inode].blocks[BlockIndex(offset + k)]
    BY <2>1, InFile
  <2> QED
    BY <2>2 DEF ByteOf, Written, FileByte
<1> HIDE DEF copied, sum
<1>5. { c.to : c \in copied } = 0 .. length - 1
  BY <1>2, <1>3
<1>6. ASSUME NEW c \in copied, c.to < sum
      PROVE  c.from = FileByte(inode, offset + c.to)
  <2>1. PICK k \in 0 .. length - 1 : c = ByteOf(inode, offset, k)
    BY <1>2
  <2>2. c.to = k
    BY <1>3, <2>1
  <2> QED
    BY <1>4, <1>6, <2>1, <2>2
<1> QED
  BY <1>5, <1>6 DEF Delivers, copied, sum

(* A file whose inode is in order: its block numbers, those it does not    *)
(* use too, are of the image, and it is that much shorter than they would  *)
(* allow, since read_data looks at the block behind the last byte asked    *)
(* for before it looks where the file ends.                                *)
InOrder(inode, count) ==
  /\ inode \in DOMAIN inodes
  /\ \A index \in 0 .. BLOCKS - 1 : inodes[inode].blocks[index] \in 0 .. data_count
  /\ inodes[inode].length + count <= BLOCK_SIZE * BLOCKS

(* Such a file is never refused, wherever it is read.                      *)
LEMMA OrderedFileReads ==
  ASSUME NEW inode, NEW count \in Nat, InOrder(inode, count), NEW offset \in Nat
  PROVE  ReadData(inode, offset, count) # -1
<1>1. inode \in DOMAIN inodes /\ inodes[inode].length \in Nat /\ BLOCKS \in Nat
  BY ImageAssumption DEF InOrder
<1>2. ASSUME ~ (count = 0 \/ offset >= inodes[inode].length),
             NEW i \in BlockIndex(offset) .. BlockIndex(offset + count)
      PROVE  BlockNumberOk(inode, i)
  <2> DEFINE end == offset + count
             q   == BlockIndex(end)
  <2>1. end \in Nat /\ end < BLOCK_SIZE * BLOCKS
    BY <1>1, <1>2, Product, BlockSize DEF InOrder
  <2>2. q \in Nat /\ end % BLOCK_SIZE \in 0 .. BLOCK_SIZE - 1
        /\ end = BLOCK_SIZE * q + (end % BLOCK_SIZE)
    BY <2>1, Division
  <2>3. BlockIndex(offset) \in Nat
    BY Division
  <2>4. i \in Nat /\ i <= q
    BY <1>2, <2>2, <2>3
  <2> HIDE DEF q, end
  <2>5. ~ (BLOCKS <= q)
    BY <1>1, <2>1, <2>2, Product, BlockSize
  <2>6. i \in 0 .. BLOCKS - 1 /\ i < BLOCKS
    BY <1>1, <2>2, <2>4, <2>5
  <2>7. inodes[inode].blocks[i] \in 0 .. data_count
    BY <2>6 DEF InOrder
  <2> QED
    BY <2>6, <2>7 DEF BlockNumberOk, data_block_number
<1>3. CASE count = 0 \/ offset >= inodes[inode].length
  BY <1>1, <1>3 DEF ReadData
<1>4. CASE ~ (count = 0 \/ offset >= inodes[inode].length)
  <2>1. ReadData(inode, offset, count) = BytesCopied(inode, offset, count)
    BY <1>1, <1>2, <1>4 DEF ReadData
  <2> QED
    BY <1>1, <1>4, <2>1 DEF BytesCopied
<1> QED
  BY <1>3, <1>4

-----------------------------------------------------------------------------
(* A file that is read on.                                                 *)

(* n reads, one after the other, the k-th at pos[k] with the count         *)
(* nbytes[k]: file_read adds what a read returns to the position.          *)
ReadOn(inode, n, pos, nbytes) ==
  /\ inode \in DOMAIN inodes /\ n \in Nat /\ pos[0] = 0
  /\ \A k \in 0 .. n - 1 :
       /\ nbytes[k] \in Nat
       /\ ReadData(inode, pos[k], nbytes[k]) >= 0
       /\ pos[k + 1] = pos[k] + ReadData(inode, pos[k], nbytes[k])

(* The read that returns byte b of the file.                               *)
Returns(pos, k, b) == pos[k] <= b /\ b < pos[k + 1]

LEMMA ReadMoves ==
  ASSUME NEW inode, NEW n, NEW pos, NEW nbytes, ReadOn(inode, n, pos, nbytes),
         NEW k \in 0 .. n - 1, pos[k] \in 0 .. inodes[inode].length
  PROVE  /\ pos[k + 1] \in 0 .. inodes[inode].length /\ pos[k] <= pos[k + 1]
         /\ pos[k + 1] = pos[k] /\ nbytes[k] > 0 => pos[k] = inodes[inode].length
<1> DEFINE sum == ReadData(inode, pos[k], nbytes[k])
<1>1. /\ nbytes[k] \in Nat /\ sum >= 0 /\ pos[k + 1] = pos[k] + sum
      /\ inode \in DOMAIN inodes
  BY DEF ReadOn
<1>2. inodes[inode].length \in Nat
  BY <1>1, ImageAssumption
<1>3. \/ sum = 0 /\ (nbytes[k] = 0 \/ pos[k] >= inodes[inode].length)
      \/ sum = -1
      \/ /\ ~ (nbytes[k] = 0 \/ pos[k] >= inodes[inode].length)
         /\ sum = IF pos[k] + nbytes[k] <= inodes[inode].length
                  THEN nbytes[k] ELSE inodes[inode].length - pos[k]
  BY <1>1 DEF ReadData, BytesCopied
<1> HIDE DEF sum
<1> QED
  BY <1>1, <1>2, <1>3

LEMMA PositionsRise ==
  ASSUME NEW inode, NEW n, NEW pos, NEW nbytes, ReadOn(inode, n, pos, nbytes)
  PROVE  /\ \A k \in 0 .. n : pos[k] \in 0 .. inodes[inode].length
         /\ \A k \in 0 .. n : \A j \in k .. n : pos[k] <= pos[j]
<1> DEFINE inside == { k \in 0 .. n : pos[k] \in 0 .. inodes[inode].length }
<1>1. n \in Nat /\ inodes[inode].length \in Nat /\ pos[0] = 0
  BY ImageAssumption DEF ReadOn
<1>2. 0 \in inside
  BY <1>1
<1>3. ASSUME NEW k \in 0 .. n - 1, k \in inside PROVE k + 1 \in inside
  BY <1>1, <1>3, ReadMoves
<1>4. 0 .. n \subseteq inside
  <2> HIDE DEF inside
  <2> QED
    BY <1>1, <1>2, <1>3, InductionUpTo
<1>5. \A k \in 0 .. n : pos[k] \in 0 .. inodes[inode].length
  BY <1>4
<1>6. ASSUME NEW k \in 0 .. n, NEW j \in k .. n PROVE pos[k] <= pos[j]
  <2> DEFINE above == { d \in 0 .. n - k : pos[k] <= pos[k + d] }
  <2>1. n - k \in Nat /\ 0 \in above
    BY <1>1, <1>5
  <2>2. ASSUME NEW d \in 0 .. n - k - 1, d \in above PROVE d + 1 \in above
    <3>1. k + d \in 0 .. n - 1 /\ k + (d + 1) = k + d + 1 /\ d + 1 \in 0 .. n - k
      BY <1>1
    <3>2. pos[k + d] <= pos[k + d + 1] /\ k + d \in 0 .. n /\ k + d + 1 \in 0 .. n
      BY <1>1, <1>5, <3>1, ReadMoves
    <3>3. pos[k] <= pos[k + d]
      BY <2>2
    <3>4. /\ pos[k] \in Int /\ pos[k + d] \in Int /\ pos[k + d + 1] \in Int
      BY <1>1, <1>5, <3>2
    <3>5. pos[k] <= pos[k + (d + 1)]
      BY <3>1, <3>2, <3>3, <3>4
    <3> QED
      BY <3>1, <3>5
  <2>3. 0 .. n - k \subseteq above
    <3> HIDE DEF above
    <3> QED
      BY <2>1, <2>2, InductionUpTo
  <2>4. j - k \in 0 .. n - k /\ k + (j - k) = j
    BY <1>1
  <2> QED
    BY <2>3, <2>4
<1> QED
  BY <1>5, <1>6

(* file_system.c, read_data: a program that reads a file on, in counts of  *)
(* any size, gets every byte up to the position by exactly one read, from  *)
(* the place in the image and at the place in the buffer where it belongs; *)
(* and when a read of more than 0 bytes returns 0, that is the whole file. *)
THEOREM ReadsWholeFile ==
  ASSUME NEW inode, Fits(inode), NEW n, NEW pos, NEW nbytes, ReadOn(inode, n, pos, nbytes)
  PROVE  /\ \A b \in 0 .. pos[n] - 1 :
              \E k \in 0 .. n - 1 :
                /\ Returns(pos, k, b) /\ \A j \in 0 .. n - 1 : Returns(pos, j, b) => j = k
                /\ \E c \in Copied(inode, pos[k], nbytes[k]) : c.to = b - pos[k]
                /\ \A c \in Copied(inode, pos[k], nbytes[k]) :
                     c.to = b - pos[k] => c.from = FileByte(inode, b)
         /\ \A k \in 0 .. n - 1 :
              nbytes[k] > 0 /\ pos[k + 1] = pos[k] => pos[k] = inodes[inode].length
<1>1. /\ n \in Nat /\ inode \in DOMAIN inodes /\ inodes[inode].length \in Nat /\ pos[0] = 0
      /\ \A k \in 0 .. n - 1 : nbytes[k] \in Nat
  BY ImageAssumption DEF ReadOn
<1>2. /\ \A k \in 0 .. n : pos[k] \in Nat
      /\ \A k \in 0 .. n : \A j \in k .. n : pos[k] <= pos[j]
  BY <1>1, PositionsRise
<1>3. ASSUME NEW b \in 0 .. pos[n] - 1 PROVE \E k \in 0 .. n - 1 : Returns(pos, k, b)
  <2> DEFINE beyond == { k \in 0 .. n : b < pos[k] }
  <2>1. beyond \subseteq Nat /\ n \in beyond
    BY <1>1, <1>2
  <2>2. PICK k \in beyond : \A j \in beyond : k <= j
    <3> HIDE DEF beyond
    <3> QED
      BY <2>1, LeastNatural
  <2>3. k # 0 /\ k - 1 \in 0 .. n - 1 /\ (k - 1) + 1 = k
    BY <1>1, <2>2
  <2>4. k - 1 \notin beyond
    BY <1>1, <2>2, <2>3
  <2>5. ~ (b < pos[k - 1]) /\ b < pos[k] /\ pos[k - 1] \in Nat
    BY <1>1, <1>2, <2>2, <2>3, <2>4
  <2> QED
    BY <2>3, <2>5 DEF Returns
<1>4. ASSUME NEW b \in 0 .. pos[n] - 1, NEW k \in 0 .. n - 1, Returns(pos, k, b),
             NEW j \in 0 .. n - 1, Returns(pos, j, b)
      PROVE  j = k
  <2>1. /\ k \in 0 .. n /\ k + 1 \in 0 .. n /\ j \in 0 .. n /\ j + 1 \in 0 .. n
    BY <1>1
  <2>2. /\ pos[k] \in Nat /\ pos[k + 1] \in Nat /\ pos[j] \in Nat /\ pos[j + 1] \in Nat
        /\ pos[n] \in Nat
    BY <1>1, <1>2, <2>1
  <2>3. ASSUME k < j PROVE FALSE
    <3>1. pos[k + 1] <= pos[j]
      BY <1>1, <1>2, <2>1, <2>3
    <3> QED
      BY <1>4, <2>2, <3>1 DEF Returns
  <2>4. ASSUME j < k PROVE FALSE
    <3>1. pos[j + 1] <= pos[k]
      BY <1>1, <1>2, <2>1, <2>4
    <3> QED
      BY <1>4, <2>2, <3>1 DEF Returns
  <2> QED
    BY <2>1, <2>3, <2>4
<1>5. ASSUME NEW b \in 0 .. pos[n] - 1, NEW k \in 0 .. n - 1, Returns(pos, k, b)
      PROVE  /\ \E c \in Copied(inode, pos[k], nbytes[k]) : c.to = b - pos[k]
             /\ \A c \in Copied(inode, pos[k], nbytes[k]) :
                  c.to = b - pos[k] => c.from = FileByte(inode, b)
  <2> DEFINE sum    == ReadData(inode, pos[k], nbytes[k])
             copied == Copied(inode, pos[k], nbytes[k])
  <2>1. /\ pos[k] \in Nat /\ pos[n] \in Nat /\ nbytes[k] \in Nat
        /\ sum >= 0 /\ pos[k + 1] = pos[k] + sum
    BY <1>1, <1>2 DEF ReadOn
  <2>2. pos[k + 1] \in Nat
    BY <1>1, <1>2
  <2> HIDE DEF sum, copied
  <2>3. pos[k] <= b /\ b < pos[k] + sum
    BY <1>5, <2>1 DEF Returns
  <2>4. sum > 0
    BY <1>1, <2>1, <2>2, <2>3 DEF sum, ReadData, BytesCopied
  <2>5. sum <= nbytes[k] /\ sum \in Nat
    BY <1>1, <2>1, <2>4, SumInFile DEF sum
  <2>6. Delivers(inode, pos[k], nbytes[k], sum)
    BY <1>1, <2>1, <2>4, ReadDelivers DEF sum
  <2>7. /\ { c.to : c \in copied } = 0 .. nbytes[k] - 1
        /\ \A c \in copied : c.to < sum => c.from = FileByte(inode, pos[k] + c.to)
    BY <2>6 DEF Delivers, copied
  <2>8. b - pos[k] \in 0 .. nbytes[k] - 1 /\ b - pos[k] < sum /\ pos[k] + (b - pos[k]) = b
    BY <2>1, <2>3, <2>5
  <2>9. \E c \in copied : c.to = b - pos[k]
    BY <2>7, <2>8
  <2>10. ASSUME NEW c \in copied, c.to = b - pos[k] PROVE c.from = FileByte(inode, b)
    BY <2>7, <2>8, <2>10
  <2> QED
    BY <2>9, <2>10 DEF copied
<1>6. ASSUME NEW k \in 0 .. n - 1, nbytes[k] > 0, pos[k + 1] = pos[k]
      PROVE  pos[k] = inodes[inode].length
  BY <1>1, <1>6, PositionsRise, ReadMoves
<1> QED
  BY <1>3, <1>4, <1>5, <1>6

=============================================================================
