-------------------------- MODULE DescriptorProofs --------------------------
(***************************************************************************)
(* Proofs about the descriptors and the memory of programs in Syscalls:    *)
(* what an open descriptor keeps, that the terminal stays at descriptors   *)
(* 0 and 1, what reads deliver, that images stay loaded and when the       *)
(* kernel may be lost.  With one kernel stack there is one PCB in use      *)
(* (ProcessInv), and every step changes its descriptors in one of six ways.*)
(***************************************************************************)
EXTENDS SyscallsProofs, FileSystemProofs

OpenedFrom(i) ==
  Descriptor(direntries[i].filetype,
             IF direntries[i].filetype = "file" THEN direntries[i].inode_num ELSE 0)

Closed(d) == [d EXCEPT !.flag = 0, !.file_pos = IF d.ops = "file" THEN 0 ELSE @]

Moved(d, nbytes) == (d.file_pos + ReadData(d.inode, d.file_pos, nbytes)) % U32

SameFiles == Pcb'.file = Pcb.file

StdioOpened ==
  Pcb'.file = [Pcb.file EXCEPT ![0] = Descriptor("stdin", 0), ![1] = Descriptor("stdout", 0)]

AllClosed ==
  Pcb'.file = [fd \in Fds |-> IF fd < 2 THEN Pcb.file[fd]
                              ELSE [Pcb.file[fd] EXCEPT !.flag = 0]]

OneOpened ==
  \E fd \in TableFds, i \in DOMAIN direntries :
    /\ ~ IsOpen(fd)
    /\ direntries[i].filetype \in FileTypes
    /\ Pcb'.file = [Pcb.file EXCEPT ![fd] = OpenedFrom(i)]

OneClosed ==
  \E fd \in TableFds : Pcb'.file = [Pcb.file EXCEPT ![fd] = Closed(Pcb.file[fd])]

OneRead ==
  \E fd \in Fds, nbytes \in Reads :
    /\ Pcb.file[fd].ops = "file"
    /\ Pcb'.file = [Pcb.file EXCEPT ![fd] =
                      [Pcb.file[fd] EXCEPT !.file_pos = Moved(Pcb.file[fd], nbytes)]]

(* Only a start of a program gets to a program from anywhere else.         *)
FilesChange ==
  \/ StdioOpened
  \/ /\ SameFiles \/ AllClosed \/ OneOpened \/ OneClosed \/ OneRead
     /\ InProgram' => InProgram

LEMMA TableInFds == TableFds \subseteq Fds /\ 0 \in Fds /\ 1 \in Fds
BY Constants DEF TableFds, Fds

(* A descriptor call replaces one descriptor of the PCB in use.            *)
LEMMA FileReplaced ==
  ASSUME TypeOK, tss_esp0' = tss_esp0, NEW fd, NEW d, SetFile(fd, d)
  PROVE  /\ Pcb'.file = [Pcb.file EXCEPT ![fd] = d]
         /\ Pcb'.status_halt = Pcb.status_halt
<1> DEFINE p == [Pcb EXCEPT !.file = [@ EXCEPT ![fd] = d]]
<1>1. p.file = [Pcb.file EXCEPT ![fd] = d] /\ p.status_halt = Pcb.status_halt
  BY CurrentPcbType DEF Pcbs
<1>2. SetPcb(p)
  BY DEF SetFile
<1> HIDE DEF p
<1> QED
  BY <1>1, <1>2, SetPcbFound

LEMMA OpenChange ==
  ASSUME TypeOK, NEW fname, Open(fname)
  PROVE  OneOpened /\ cpu' = cpu /\ Pcb'.status_halt = Pcb.status_halt
<1>1. PICK i \in NamesFound(fname), fd \in NextFd :
        direntries[i].filetype \in FileTypes /\ SetFile(fd, OpenedFrom(i))
  BY DEF Open, OpenedFrom
<1>2. fd \in TableFds /\ ~ IsOpen(fd)
  BY DEF NextFd, Lowest, FreeFds, TableFds
<1>3. i \in DOMAIN direntries /\ direntries[i].filetype \in FileTypes
  BY <1>1, EntryType
<1>4. tss_esp0' = tss_esp0 /\ cpu' = cpu
  BY DEF Open, stackVars
<1> QED
  BY <1>1, <1>2, <1>3, <1>4, FileReplaced DEF OneOpened

LEMMA CloseChange ==
  ASSUME TypeOK, NEW fd \in Fds, Close(fd)
  PROVE  /\ OneClosed /\ cpu = "user" /\ Pcb'.status_halt = Pcb.status_halt
         /\ cpu' = "lost" => Pcb.file[fd].flag # 0 /\ Pcb.file[fd].ops = "none"
<1>1. fd \in TableFds /\ Pcb.file[fd].flag # 0
  BY DEF Close, Closable, IsOpen, TableFds, Fds
<1>2. SetFile(fd, Closed(Pcb.file[fd])) /\ tss_esp0' = tss_esp0
  <2>1. Closed(Pcb.file[fd]) = [Pcb.file[fd] EXCEPT !.flag = 0,
                                  !.file_pos = IF Pcb.file[fd].ops = "file" THEN 0 ELSE @]
    BY DEF Closed
  <2> QED
    BY <2>1 DEF Close, stackVars
<1>3. OneClosed /\ Pcb'.status_halt = Pcb.status_halt
  BY <1>1, <1>2, FileReplaced DEF OneClosed
<1> QED
  BY <1>1, <1>3 DEF Close, EntersKernel

LEMMA ReadChange ==
  ASSUME TypeOK, NEW fd \in Fds, NEW nbytes \in Reads, FileRead(fd, nbytes)
  PROVE  OneRead /\ cpu' = cpu /\ Pcb'.status_halt = Pcb.status_halt
<1> DEFINE d == Pcb.file[fd]
<1>1. d \in Descriptors
  BY CurrentPcbType DEF Pcbs
<1> DEFINE after == [d EXCEPT !.file_pos = Moved(d, nbytes)]
<1>2. /\ SetFile(fd, after)
      /\ d.ops = "file" /\ tss_esp0' = tss_esp0 /\ cpu' = cpu
  BY <1>1 DEF FileRead, Reading, Moved, stackVars
<1> HIDE DEF after
<1>3. /\ Pcb'.file = [Pcb.file EXCEPT ![fd] = after]
      /\ Pcb'.status_halt = Pcb.status_halt
  BY <1>2, FileReplaced
<1> QED
  BY <1>2, <1>3 DEF OneRead, after

LEMMA HaltChange ==
  ASSUME TypeOK, ProcessInv, NEW status, Halt(status)
  PROVE  AllClosed /\ cpu = "user" /\ tss_esp0' = tss_esp0
<1> DEFINE p == HaltedPcb(status)
<1>1. Pcb \in Pcbs /\ tss_esp0 \in Stacks
  BY CurrentPcbType DEF TypeOK
<1>2. SetPcb(p) /\ tss_esp0' = tss_esp0
  BY <1>1 DEF Halt, ProcessInv, OneStack, Pcb
<1>3. p.file = [fd \in Fds |-> IF fd < 2 THEN Pcb.file[fd]
                               ELSE [Pcb.file[fd] EXCEPT !.flag = 0]]
  BY <1>1 DEF HaltedPcb, Pcbs
<1> HIDE DEF p
<1>4. AllClosed
  BY <1>2, <1>3, SetPcbFound DEF AllClosed
<1> QED
  BY <1>2, <1>4 DEF Halt, EntersKernel

LEMMA LoadFailsChange ==
  ASSUME TypeOK, NEW fname, NEW args, NEW slot, ExecuteLoadFails(fname, args, slot)
  PROVE  SameFiles /\ cpu' \in {"idle", "user"} /\ Pcb'.status_halt = Pcb.status_halt
         /\ (cpu' = "user" => cpu = "user")
<1> DEFINE p == [Pcb EXCEPT !.pid = slot, !.parent_pid = parent_pid]
<1>1. SetPcb(p) /\ tss_esp0' = tss_esp0
  BY DEF ExecuteLoadFails, Allocates
<1>2. p.file = Pcb.file /\ p.status_halt = Pcb.status_halt
  BY CurrentPcbType DEF Pcbs
<1> HIDE DEF p
<1>3. SameFiles /\ Pcb'.status_halt = Pcb.status_halt
  BY <1>1, <1>2, SetPcbFound DEF SameFiles
<1> QED
  BY <1>3 DEF ExecuteLoadFails, Caller, CallsExecute, EntersKernel

LEMMA StartsChange ==
  ASSUME TypeOK, NEW fname, NEW args, NEW slot, ExecuteStarts(fname, args, slot)
  PROVE  StdioOpened /\ cpu' = "user" /\ Pcb'.status_halt = Pcb.status_halt
<1> DEFINE p == [Pcb EXCEPT !.pid = slot, !.parent_pid = parent_pid,
                            !.esp0 = tss_esp0, !.parent_frame = CallerFrame,
                            !.file = [@ EXCEPT ![0] = Descriptor("stdin", 0),
                                               ![1] = Descriptor("stdout", 0)]]
<1>1. SetPcb(p) /\ tss_esp0' = tss_esp0
  BY DEF ExecuteStarts, Allocates
<1>2. /\ p.file = [Pcb.file EXCEPT ![0] = Descriptor("stdin", 0),
                                   ![1] = Descriptor("stdout", 0)]
      /\ p.status_halt = Pcb.status_halt
  BY CurrentPcbType DEF Pcbs
<1> HIDE DEF p
<1> QED
  BY <1>1, <1>2, SetPcbFound DEF StdioOpened, ExecuteStarts


(* Every step changes the descriptors in one of the six ways, and a word   *)
(* of status is only written by halt.                                      *)
LEMMA OthersChange ==
  ASSUME TypeOK, NEW fd, NEW fname, NEW args,
         \/ ExecuteRejected(fname, args) \/ ExecuteTooMany(fname, args)
         \/ DirRead(fd) \/ RtcRead(fd) \/ TerminalRead(fd)
         \/ RtcReadReturns \/ TerminalReadReturns
         \/ WildCall \/ Vidmap \/ OtherCall \/ Interrupt
         \/ UNCHANGED vars
  PROVE  SameFiles /\ (InProgram' => InProgram)
<1> USE DEF SameFiles, InProgram, Pcb, stackVars
<1>1. CASE ExecuteRejected(fname, args) \/ ExecuteTooMany(fname, args)
  BY <1>1 DEF ExecuteRejected, ExecuteTooMany, CallsExecute, EntersKernel, Caller
<1>2. CASE DirRead(fd) \/ RtcRead(fd) \/ TerminalRead(fd)
  BY <1>2 DEF DirRead, RtcRead, TerminalRead, Reading, EntersKernel
<1>3. CASE RtcReadReturns \/ TerminalReadReturns
  BY <1>3 DEF RtcReadReturns, TerminalReadReturns
<1>4. CASE WildCall
  <2>1. tss_esp0' = tss_esp0 /\ cpu = "user"
    BY <1>4 DEF WildCall, EntersKernel
  <2>2. CASE SetPcb([Pcb EXCEPT !.status_halt = 0])
    <3>1. Pcb' = [Pcb EXCEPT !.status_halt = 0]
      BY <2>1, <2>2, SetPcbFound
    <3>2. Pcb \in Pcbs
      BY CurrentPcbType
    <3> QED
      BY <2>1, <3>1, <3>2 DEF Pcbs
  <2> QED
    BY <1>4, <2>1, <2>2 DEF WildCall
<1>5. CASE Vidmap \/ OtherCall \/ Interrupt
  BY <1>5 DEF Vidmap, OtherCall, Interrupt, RTC_int, EnterKey, Exception,
              Interrupted, EntersKernel
<1>6. CASE UNCHANGED vars
  BY <1>6 DEF vars
<1> QED
  BY <1>1, <1>2, <1>3, <1>4, <1>5, <1>6

LEMMA StepChange ==
  ASSUME TypeOK, ProcessInv, [Next]_vars
  PROVE  FilesChange
<1>1. ASSUME NEW fname, NEW args, Execute(fname, args) PROVE FilesChange
  <2>1. ASSUME NEW slot, ExecuteLoadFails(fname, args, slot) PROVE FilesChange
    BY <2>1, LoadFailsChange DEF FilesChange, InProgram
  <2>2. ASSUME NEW slot, ExecuteStarts(fname, args, slot) PROVE FilesChange
    BY <2>2, StartsChange DEF FilesChange
  <2> QED
    BY <1>1, <2>1, <2>2, OthersChange DEF Execute, FilesChange
<1>2. ASSUME NEW status, Halt(status) PROVE FilesChange
  BY <1>2, HaltChange DEF FilesChange, InProgram
<1>3. CASE DescriptorCall
  <2>1. ASSUME NEW fname, Open(fname) PROVE FilesChange
    BY <2>1, OpenChange DEF FilesChange, InProgram
  <2>2. ASSUME NEW fd \in Fds, Close(fd) PROVE FilesChange
    BY <2>2, CloseChange DEF FilesChange, InProgram
  <2>3. ASSUME NEW fd \in Fds, NEW nbytes \in Reads, FileRead(fd, nbytes) PROVE FilesChange
    BY <2>3, ReadChange DEF FilesChange, InProgram
  <2> QED
    BY <1>3, <2>1, <2>2, <2>3, OthersChange DEF DescriptorCall, FilesChange
<1> QED
  BY <1>1, <1>2, <1>3, OthersChange DEF Next, FilesChange

-----------------------------------------------------------------------------
(* The terminal stays open.                                                *)

(* A program always finds the terminal open at descriptors 0 and 1: open   *)
(* and close never reach them, a position only moves where a file is, and  *)
(* halt of a nested program leaves them to its parent.                     *)
THEOREM StdioCorrect == Spec => []StdioStaysOpen
<1>1. Init => StdioStaysOpen
  BY DEF Init, StdioStaysOpen, InProgram
<1>2. TypeOK /\ ProcessInv /\ StdioStaysOpen /\ [Next]_vars => StdioStaysOpen'
  <2> SUFFICES ASSUME TypeOK, ProcessInv, StdioStaysOpen, [Next]_vars, InProgram'
               PROVE  StdioStaysOpen'
    BY DEF StdioStaysOpen
  <2>1. FilesChange
    BY StepChange
  <2>2. Pcb.file \in [Fds -> Descriptors]
    BY CurrentPcbType DEF Pcbs
  <2>3. CASE StdioOpened
    BY <2>2, <2>3, TableInFds DEF StdioOpened, StdioStaysOpen, IsOpen, Descriptor
  <2>4. ASSUME InProgram, SameFiles \/ AllClosed \/ OneOpened \/ OneClosed \/ OneRead
        PROVE  Pcb'.file[0] = Pcb.file[0] /\ Pcb'.file[1] = Pcb.file[1]
    <3>1. CASE SameFiles
      BY <3>1 DEF SameFiles
    <3>2. CASE AllClosed
      BY <2>2, <3>2, TableInFds DEF AllClosed
    <3>3. CASE OneOpened \/ OneClosed
      <4>1. PICK e \in TableFds : \E d : Pcb'.file = [Pcb.file EXCEPT ![e] = d]
        BY <3>3 DEF OneOpened, OneClosed
      <4>2. e # 0 /\ e # 1
        BY Constants DEF TableFds
      <4> QED
        BY <2>2, <4>1, <4>2, TableInFds
    <3>4. CASE OneRead
      <4>1. PICK e \in Fds, nbytes \in Reads :
              /\ Pcb.file[e].ops = "file"
              /\ Pcb'.file = [Pcb.file EXCEPT ![e] =
                                [Pcb.file[e] EXCEPT !.file_pos = Moved(Pcb.file[e], nbytes)]]
        BY <3>4 DEF OneRead
      <4>2. e # 0 /\ e # 1
        BY <2>4, <4>1 DEF StdioStaysOpen
      <4> QED
        BY <2>2, <4>1, <4>2, TableInFds
    <3> QED
      BY <2>4, <3>1, <3>2, <3>3, <3>4
  <2>5. CASE InProgram /\ (SameFiles \/ AllClosed \/ OneOpened \/ OneClosed \/ OneRead)
    BY <2>4, <2>5 DEF StdioStaysOpen, IsOpen
  <2> QED
    BY <2>1, <2>3, <2>5 DEF FilesChange
<1> QED
  BY <1>1, <1>2, TypeCorrect, ProcessesSafe, PTL DEF Spec

-----------------------------------------------------------------------------
(* Positions.  They are only as good as the image: a read of a damaged     *)
(* file adds -1 to its position.  What is proved of a sound file holds     *)
(* whatever other files of the image are damaged.                          *)

(* A file that can be read, everywhere, in the counts programs use.        *)
Sound(inode) ==
  /\ inode \in DOMAIN inodes
  /\ \A offset \in Nat, nbytes \in Reads : ReadData(inode, offset, nbytes) # -1

(* A file is sound when its inode is in order, and leaves room for the     *)
(* longest read behind it.                                                 *)
THEOREM OrderedIsSound ==
  ASSUME NEW inode, inode \in DOMAIN inodes, \A nbytes \in Reads : InOrder(inode, nbytes)
  PROVE  Sound(inode)
BY OrderedFileReads, SyscallAssumption DEF Sound

ListedFiles ==
  { direntries[i].inode_num : i \in { j \in DOMAIN direntries : direntries[j].filetype = "file" } }

Undamaged == \A inode \in ListedFiles : Sound(inode)

(* A descriptor of a file, open or not, is of a file of the directory, and *)
(* inside it.                                                              *)
InsideFile(d) ==
  d.ops = "file" => /\ d.inode \in ListedFiles
                    /\ Sound(d.inode) => d.file_pos <= inodes[d.inode].length

PositionInv == \A fd \in TableFds : InsideFile(Pcb.file[fd])

(* A read leaves the position in the file and moves it forwards.           *)
LEMMA ReadStaysInside ==
  ASSUME NEW d \in Descriptors, NEW nbytes \in Reads,
         d.ops = "file", InsideFile(d), Sound(d.inode)
  PROVE  /\ Moved(d, nbytes) >= d.file_pos
         /\ Moved(d, nbytes) <= inodes[d.inode].length
<1> DEFINE sum == ReadData(d.inode, d.file_pos, nbytes)
<1>1. /\ d.inode \in DOMAIN inodes
      /\ d.file_pos \in Nat /\ d.file_pos <= inodes[d.inode].length
      /\ nbytes \in Nat
  BY SyscallAssumption, Constants DEF Sound, InsideFile, Descriptors
<1>2. sum # -1
  BY <1>1 DEF Sound
<1>3. inodes[d.inode].length \in Nat /\ inodes[d.inode].length < U32
  BY <1>1, ImageAssumption, SyscallAssumption
<1>4. sum \in Nat /\ d.file_pos + sum <= inodes[d.inode].length
  BY <1>1, <1>2, <1>3 DEF ReadData, BytesCopied
<1>5. Moved(d, nbytes) = d.file_pos + sum
  BY <1>1, <1>3, <1>4, Constants DEF Moved
<1> QED
  BY <1>1, <1>3, <1>4, <1>5

LEMMA PositionInit == Init => PositionInv
<1> SUFFICES ASSUME Init PROVE PositionInv
  OBVIOUS
<1>1. \A fd \in TableFds : Pcb.file[fd].ops = "none"
  BY Constants, TableInFds DEF Init, Pcb
<1> QED
  BY <1>1 DEF PositionInv, InsideFile

LEMMA PositionStep ==
  ASSUME TypeOK, ProcessInv, PositionInv, [Next]_vars
  PROVE  PositionInv'
<1>1. FilesChange
  BY StepChange
<1>2. Pcb.file \in [Fds -> Descriptors]
  BY CurrentPcbType DEF Pcbs
<1>3. SUFFICES ASSUME NEW fd \in TableFds PROVE InsideFile(Pcb'.file[fd])
  BY DEF PositionInv, InsideFile
<1>4. fd \in Fds /\ InsideFile(Pcb.file[fd]) /\ Pcb.file[fd] \in Descriptors
  BY <1>2, TableInFds DEF PositionInv
<1>5. CASE StdioOpened \/ SameFiles
  BY <1>2, <1>4, <1>5 DEF StdioOpened, SameFiles, TableFds
<1>6. CASE AllClosed
  <2>1. Pcb'.file[fd] = [Pcb.file[fd] EXCEPT !.flag = 0]
    BY <1>4, <1>6 DEF AllClosed, TableFds
  <2> QED
    BY <1>4, <2>1 DEF InsideFile, Descriptors
<1>7. CASE OneOpened
  <2>1. PICK e \in TableFds, i \in DOMAIN direntries :
          /\ direntries[i].filetype \in FileTypes
          /\ Pcb'.file = [Pcb.file EXCEPT ![e] = OpenedFrom(i)]
    BY <1>7 DEF OneOpened
  <2>2. InsideFile(OpenedFrom(i))
    <3>1. CASE direntries[i].filetype = "file"
      <4>1. direntries[i].inode_num \in ListedFiles
        BY <3>1 DEF ListedFiles
      <4>2. Sound(direntries[i].inode_num) => inodes[direntries[i].inode_num].length \in Nat
        BY ImageAssumption DEF Sound
      <4> QED
        BY <3>1, <4>1, <4>2 DEF InsideFile, OpenedFrom, Descriptor
    <3> QED
      BY <3>1 DEF InsideFile, OpenedFrom, Descriptor
  <2> QED
    BY <1>2, <1>4, <2>1, <2>2
<1>8. CASE OneClosed
  <2>1. PICK e \in TableFds : Pcb'.file = [Pcb.file EXCEPT ![e] = Closed(Pcb.file[e])]
    BY <1>8 DEF OneClosed
  <2>2. InsideFile(Closed(Pcb.file[fd]))
    <3>1. CASE Pcb.file[fd].ops = "file"
      <4>1. Pcb.file[fd].inode \in ListedFiles
        BY <1>4, <3>1 DEF InsideFile
      <4>2. Sound(Pcb.file[fd].inode) => inodes[Pcb.file[fd].inode].length \in Nat
        BY ImageAssumption DEF Sound
      <4> QED
        BY <1>4, <3>1, <4>1, <4>2 DEF InsideFile, Closed, Descriptors
    <3> QED
      BY <1>4, <3>1 DEF InsideFile, Closed, Descriptors
  <2> QED
    BY <1>2, <1>4, <2>1, <2>2
<1>9. CASE OneRead
  <2>1. PICK e \in Fds, nbytes \in Reads :
          /\ Pcb.file[e].ops = "file"
          /\ Pcb'.file = [Pcb.file EXCEPT ![e] =
                            [Pcb.file[e] EXCEPT !.file_pos = Moved(Pcb.file[e], nbytes)]]
    BY <1>9 DEF OneRead
  <2>2. CASE e = fd
    <3>1. Sound(Pcb.file[fd].inode) =>
            Moved(Pcb.file[fd], nbytes) <= inodes[Pcb.file[fd].inode].length
      BY <1>4, <2>1, <2>2, ReadStaysInside
    <3>2. Pcb'.file[fd] = [Pcb.file[fd] EXCEPT !.file_pos = Moved(Pcb.file[fd], nbytes)]
      BY <1>2, <1>4, <2>1, <2>2
    <3> QED
      BY <1>4, <3>1, <3>2 DEF InsideFile, Descriptors
  <2> QED
    BY <1>2, <1>4, <2>1, <2>2
<1> QED
  BY <1>1, <1>5, <1>6, <1>7, <1>8, <1>9 DEF FilesChange

LEMMA PositionAlways == Spec => []PositionInv
<1>1. TypeOK /\ ProcessInv /\ PositionInv /\ [Next]_vars => PositionInv'
  BY PositionStep
<1> QED
  BY <1>1, PositionInit, TypeCorrect, ProcessesSafe, PTL DEF Spec

(* A step that leaves a descriptor open keeps its file and, unless that is *)
(* damaged, does not move its position back.                               *)
Kept(fd) ==
  IsOpen(fd) /\ IsOpen(fd)' =>
    LET d == Pcb.file[fd]
    IN  /\ Pcb'.file[fd].ops = d.ops /\ Pcb'.file[fd].inode = d.inode
        /\ (d.ops = "file" => Sound(d.inode)) => Pcb'.file[fd].file_pos >= d.file_pos

LEMMA StepKeeps ==
  ASSUME TypeOK, ProcessInv, PositionInv, [Next]_vars, NEW fd \in TableFds
  PROVE  Kept(fd)
<1>1. SUFFICES ASSUME IsOpen(fd), IsOpen(fd)'
               PROVE  /\ Pcb'.file[fd].ops = Pcb.file[fd].ops
                      /\ Pcb'.file[fd].inode = Pcb.file[fd].inode
                      /\ (Pcb.file[fd].ops = "file" => Sound(Pcb.file[fd].inode))
                            => Pcb'.file[fd].file_pos >= Pcb.file[fd].file_pos
  BY DEF Kept
<1>2. FilesChange
  BY StepChange
<1>3. Pcb.file \in [Fds -> Descriptors] /\ fd \in Fds
  BY CurrentPcbType, TableInFds DEF Pcbs
<1>4. Pcb.file[fd].file_pos \in Nat /\ Pcb.file[fd].flag # 0 /\ Pcb'.file[fd].flag # 0
  BY <1>1, <1>3, Constants DEF Descriptors, IsOpen
<1>5. CASE StdioOpened \/ SameFiles
  BY <1>3, <1>4, <1>5 DEF StdioOpened, SameFiles, TableFds
<1>6. CASE AllClosed
  BY <1>3, <1>4, <1>6 DEF AllClosed, Descriptors, TableFds
<1>7. CASE OneOpened
  BY <1>1, <1>3, <1>4, <1>7 DEF OneOpened
<1>8. CASE OneClosed
  BY <1>3, <1>4, <1>8 DEF OneClosed, Closed, Descriptors
<1>9. CASE OneRead
  <2>1. PICK e \in Fds, nbytes \in Reads :
          /\ Pcb.file[e].ops = "file"
          /\ Pcb'.file = [Pcb.file EXCEPT ![e] =
                            [Pcb.file[e] EXCEPT !.file_pos = Moved(Pcb.file[e], nbytes)]]
    BY <1>9 DEF OneRead
  <2>2. CASE e = fd
    <3>1. Sound(Pcb.file[fd].inode) => Moved(Pcb.file[fd], nbytes) >= Pcb.file[fd].file_pos
      BY <1>3, <2>1, <2>2, ReadStaysInside DEF PositionInv
    <3>2. Pcb'.file[fd] = [Pcb.file[fd] EXCEPT !.file_pos = Moved(Pcb.file[fd], nbytes)]
      BY <1>3, <2>1, <2>2
    <3> QED
      BY <1>3, <2>1, <2>2, <3>1, <3>2 DEF Descriptors
  <2> QED
    BY <1>3, <1>4, <2>1, <2>2
<1> QED
  BY <1>2, <1>5, <1>6, <1>7, <1>8, <1>9 DEF FilesChange

(* For every image, damaged ones too, the position of an open file that is *)
(* sound never passes the end of the file.                                 *)
THEOREM SoundFilesInside ==
  Spec => [](\A fd \in TableFds :
               LET d == Pcb.file[fd]
               IN  d.ops = "file" /\ Sound(d.inode) => d.file_pos <= inodes[d.inode].length)
<1>1. PositionInv => \A fd \in TableFds :
                       LET d == Pcb.file[fd]
                       IN  d.ops = "file" /\ Sound(d.inode) =>
                             d.file_pos <= inodes[d.inode].length
  BY DEF PositionInv, InsideFile
<1> QED
  BY <1>1, PositionAlways, PTL

(* With an undamaged image that is every file.                             *)
THEOREM PositionsCorrect == ASSUME Undamaged PROVE Spec => []FilePositionInFile
<1>1. PositionInv => FilePositionInFile
  BY DEF PositionInv, InsideFile, FilePositionInFile, TableFds, Undamaged
<1> QED
  BY <1>1, PositionAlways, PTL

(* For every image a descriptor that stays open keeps its file: open takes *)
(* closed descriptors only, execute touches 0 and 1, and halt closes.  The *)
(* position of the clock, of the directory and of a sound file only moves  *)
(* forwards; only a read of a damaged file moves its own back.             *)
THEOREM DescriptorsKept == Spec => [][\A fd \in TableFds : Kept(fd)]_vars
<1>1. TypeOK /\ ProcessInv /\ PositionInv /\ [Next]_vars => [\A fd \in TableFds : Kept(fd)]_vars
  BY StepKeeps
<1> QED
  BY <1>1, PositionAlways, TypeCorrect, ProcessesSafe, PTL DEF Spec

(* With an undamaged image every position only moves forwards.             *)
THEOREM DescriptorsStable == ASSUME Undamaged PROVE Spec => OpenDescriptorStable
<1> DEFINE Stable ==
      \A fd \in 2 .. MAXFILE - 1 :
        IsOpen(fd) /\ IsOpen(fd)' =>
          LET d == Pcb.file[fd]
          IN  /\ Pcb'.file[fd].ops = d.ops /\ Pcb'.file[fd].inode = d.inode
              /\ Pcb'.file[fd].file_pos >= d.file_pos
<1>1. TypeOK /\ ProcessInv /\ PositionInv /\ [Next]_vars => [Stable]_vars
  <2> SUFFICES ASSUME TypeOK, ProcessInv, PositionInv, [Next]_vars PROVE Stable
    OBVIOUS
  <2>1. SUFFICES ASSUME NEW fd \in TableFds, IsOpen(fd), IsOpen(fd)'
                 PROVE  /\ Pcb'.file[fd].ops = Pcb.file[fd].ops
                        /\ Pcb'.file[fd].inode = Pcb.file[fd].inode
                        /\ Pcb'.file[fd].file_pos >= Pcb.file[fd].file_pos
    BY DEF TableFds
  <2>2. Kept(fd)
    BY StepKeeps
  <2>3. Pcb.file[fd].ops = "file" => Sound(Pcb.file[fd].inode)
    BY DEF PositionInv, InsideFile, Undamaged
  <2> QED
    BY <2>1, <2>2, <2>3 DEF Kept
<1> QED
  BY <1>1, PositionAlways, TypeCorrect, ProcessesSafe, PTL DEF Spec, OpenDescriptorStable

(* Every read of an open file delivers the bytes of the file, from every   *)
(* position the calls can reach, for every image whose inodes hold the     *)
(* block numbers of their files.                                           *)
THEOREM ReadsCorrect == ASSUME FilesFit PROVE Spec => []ReadsFileBytes
<1>1. TypeOK => ReadsFileBytes
  <2> SUFFICES ASSUME TypeOK, NEW fd \in TableFds, Pcb.file[fd].inode \in DOMAIN inodes
               PROVE  ExactReads[Pcb.file[fd].inode][Pcb.file[fd].file_pos]
    BY DEF ReadsFileBytes, TableFds
  <2> DEFINE inode == Pcb.file[fd].inode
             file_pos == Pcb.file[fd].file_pos
  <2>1. file_pos \in 0 .. U32 - 1 /\ file_pos \in Nat
    BY CurrentPcbType, TableInFds, Constants DEF Pcbs, Descriptors
  <2> HIDE DEF inode, file_pos
  <2>2. ASSUME NEW nbytes \in 1 .. 2 * BLOCK_SIZE + 1, ReadData(inode, file_pos, nbytes) > 0
        PROVE  Delivers(inode, file_pos, nbytes, ReadData(inode, file_pos, nbytes))
    <3>1. nbytes \in Nat /\ Fits(inode)
      BY BlockSize DEF FilesFit, inode
    <3> QED
      BY <2>1, <2>2, <3>1, ReadDelivers DEF inode
  <2>3. ExactReads[inode][file_pos]
    BY <2>1, <2>2 DEF ExactReads, inode
  <2> QED
    BY <2>3 DEF inode, file_pos
<1> QED
  BY <1>1, TypeCorrect, PTL

-----------------------------------------------------------------------------
(* Programs in memory.                                                     *)

(* Nothing is loaded in the frame of a free slot, and none is live there.  *)
FreeSlotsEmpty == \A p \in Pids : process[p] = 0 => frame[p] = Empty /\ launched[p] = NotLive

(* Every step but those that give out a slot and halt keeps slots, frames  *)
(* and what was launched.                                                  *)
LEMMA OthersKeepSlots ==
  ASSUME \/ \E fname, args : ExecuteRejected(fname, args) \/ ExecuteTooMany(fname, args)
         \/ DescriptorCall \/ RtcReadReturns \/ TerminalReadReturns
         \/ WildCall \/ Vidmap \/ OtherCall \/ Interrupt
         \/ UNCHANGED vars
  PROVE  UNCHANGED <<process, frame, launched>>
BY DEF ExecuteRejected, ExecuteTooMany, DescriptorCall, Open, Close, DirRead, RtcRead,
       TerminalRead, FileRead, Reading, RtcReadReturns, TerminalReadReturns, WildCall,
       Vidmap, OtherCall, Interrupt, RTC_int, EnterKey, Exception, vars, memoryVars, tableVars

(* What giving out a slot changes.                                         *)
LEMMA SlotTaken ==
  ASSUME TypeOK, NEW fname, NEW args, NEW slot \in NextSlot,
         ExecuteLoadFails(fname, args, slot) \/ ExecuteStarts(fname, args, slot)
  PROVE  /\ slot \in Pids /\ process[slot] = 0
         /\ process' = [process EXCEPT ![slot] = 1]
         /\ \A p \in Pids \ {slot} : frame'[p] = frame[p] /\ launched'[p] = launched[p]
<1>1. slot \in Pids /\ process[slot] = 0
  BY DEF NextSlot, Lowest, FreeSlots
<1>2. process' = [process EXCEPT ![slot] = 1]
  BY DEF ExecuteLoadFails, ExecuteStarts, Allocates
<1>3. CASE ExecuteLoadFails(fname, args, slot)
  BY <1>1, <1>2, <1>3 DEF ExecuteLoadFails
<1>4. CASE ExecuteStarts(fname, args, slot)
  BY <1>1, <1>2, <1>4 DEF ExecuteStarts, TypeOK
<1> QED
  BY <1>3, <1>4

(* A halt leaves slots and frames alone, and the program that halts was    *)
(* one that had a slot.                                                    *)
LEMMA HaltFrees ==
  ASSUME TypeOK, ProcessInv, NEW status, Halt(status)
  PROVE  /\ UNCHANGED <<process, frame>>
         /\ Pcb.pid \in Pids /\ process[Pcb.pid] = 1
         /\ launched' = [launched EXCEPT ![Pcb.pid] = NotLive]
<1>1. cpu = "user"
  BY DEF Halt, EntersKernel
<1>2. user_page \in Pids /\ process[user_page] = 1
  BY <1>1 DEF ProcessInv, NoProgramOnKernelPage, InProgram
<1>3. user_page = Pcb.pid
  BY <1>2, Constants DEF ProcessInv, PageMatchesPcb, NoPage, Pids
<1> QED
  BY <1>2, <1>3 DEF Halt

LEMMA FreeSlotsAlways == Spec => []FreeSlotsEmpty
<1>1. Init => FreeSlotsEmpty
  BY DEF Init, FreeSlotsEmpty
<1>2. TypeOK /\ ProcessInv /\ FreeSlotsEmpty /\ [Next]_vars => FreeSlotsEmpty'
  <2> SUFFICES ASSUME TypeOK, ProcessInv, FreeSlotsEmpty, [Next]_vars
               PROVE  FreeSlotsEmpty'
    OBVIOUS
  <2>1. ASSUME NEW fname, NEW args, NEW slot \in NextSlot,
               ExecuteLoadFails(fname, args, slot) \/ ExecuteStarts(fname, args, slot)
        PROVE  FreeSlotsEmpty'
    BY <2>1, SlotTaken DEF FreeSlotsEmpty, TypeOK
  <2>2. ASSUME NEW status, Halt(status) PROVE FreeSlotsEmpty'
    BY <2>2, HaltFrees DEF FreeSlotsEmpty, TypeOK
  <2>3. CASE UNCHANGED <<process, frame, launched>>
    BY <2>3 DEF FreeSlotsEmpty
  <2> QED
    BY <2>1, <2>2, <2>3, OthersKeepSlots DEF Next, Execute
<1> QED
  BY <1>1, <1>2, TypeCorrect, ProcessesSafe, PTL DEF Spec

(* A loaded image is never loaded over: slots are not given out twice and  *)
(* an image is loaded in the frame of the slot just given out.             *)
THEOREM ImagesCorrect == Spec => ImagesStay
<1>1. TypeOK /\ ProcessInv /\ FreeSlotsEmpty /\ [Next]_vars
        => [\A p \in Pids : frame[p] # Empty => frame'[p] = frame[p]]_vars
  <2> SUFFICES ASSUME TypeOK, ProcessInv, FreeSlotsEmpty, [Next]_vars,
                      NEW p \in Pids, frame[p] # Empty
               PROVE  frame'[p] = frame[p]
    OBVIOUS
  <2>1. ASSUME NEW fname, NEW args, NEW slot \in NextSlot,
               ExecuteLoadFails(fname, args, slot) \/ ExecuteStarts(fname, args, slot)
        PROVE  frame'[p] = frame[p]
    BY <2>1, SlotTaken DEF FreeSlotsEmpty
  <2>2. ASSUME NEW status, Halt(status) PROVE frame'[p] = frame[p]
    BY <2>2, HaltFrees
  <2> QED
    BY <2>1, <2>2, OthersKeepSlots DEF Next, Execute
<1> QED
  BY <1>1, FreeSlotsAlways, TypeCorrect, ProcessesSafe, PTL DEF Spec, ImagesStay

-----------------------------------------------------------------------------
(* What can lose or stop the machine.                                      *)

NothingLeft ==
  /\ Pcb.status_halt = 0
  /\ \A fd \in Fds : Pcb.file[fd].flag # 0 => Pcb.file[fd].ops # "none"

GoesOn == cpu' \notin {"lost", "stopped"}

LEMMA LeftoverIs == ASSUME TypeOK PROVE Leftover <=> ~ NothingLeft
BY CurrentPcbType DEF Leftover, NothingLeft, IsOpen, Pcbs

(* A step that keeps the status word gives every open descriptor           *)
(* operations.                                                             *)
LEMMA OpsKept ==
  ASSUME TypeOK, NothingLeft, FilesChange, Pcb'.status_halt = Pcb.status_halt
  PROVE  NothingLeft'
<1>1. Pcb.file \in [Fds -> Descriptors]
  BY CurrentPcbType DEF Pcbs
<1>2. SUFFICES ASSUME NEW fd \in Fds, Pcb'.file[fd].flag # 0
               PROVE  Pcb'.file[fd].ops # "none"
  BY DEF NothingLeft
<1>3. /\ Pcb.file[fd] \in Descriptors
      /\ Pcb.file[fd].flag # 0 => Pcb.file[fd].ops # "none"
  BY <1>1 DEF NothingLeft
<1>4. CASE StdioOpened \/ SameFiles
  BY <1>1, <1>2, <1>3, <1>4 DEF StdioOpened, SameFiles, Descriptor
<1>5. CASE AllClosed
  BY <1>1, <1>2, <1>3, <1>5 DEF AllClosed, Descriptors
<1>6. CASE OneOpened
  <2>1. PICK e \in TableFds, i \in DOMAIN direntries :
          /\ direntries[i].filetype \in FileTypes
          /\ Pcb'.file = [Pcb.file EXCEPT ![e] = OpenedFrom(i)]
    BY <1>6 DEF OneOpened
  <2>2. OpenedFrom(i).ops # "none"
    BY <2>1 DEF OpenedFrom, Descriptor, FileTypes
  <2> QED
    BY <1>1, <1>2, <1>3, <2>1, <2>2
<1>7. CASE OneClosed
  BY <1>1, <1>2, <1>3, <1>7 DEF OneClosed, Closed, Descriptors
<1>8. CASE OneRead
  BY <1>1, <1>2, <1>3, <1>8 DEF OneRead, Descriptors
<1> QED
  BY <1>4, <1>5, <1>6, <1>7, <1>8 DEF FilesChange

LEMMA PcbStays ==
  ASSUME NothingLeft, UNCHANGED <<pcb, tss_esp0>>
  PROVE  NothingLeft'
BY DEF NothingLeft, Pcb

LEMMA NothingLeftStep ==
  ASSUME TypeOK, ProcessInv, NothingLeft, Next
  PROVE  (NothingLeft' /\ GoesOn) \/ \E status \in Statuses : Halt(status)
<1> SUFFICES ASSUME ~ \E status \in Statuses : Halt(status) PROVE NothingLeft' /\ GoesOn
  OBVIOUS
<1>1. FilesChange
  BY StepChange
<1>2. ASSUME NEW fname, NEW args, NEW slot, ExecuteLoadFails(fname, args, slot)
      PROVE  NothingLeft' /\ GoesOn
  BY <1>1, <1>2, LoadFailsChange, OpsKept DEF GoesOn
<1>3. ASSUME NEW fname, NEW args, NEW slot, ExecuteStarts(fname, args, slot)
      PROVE  NothingLeft' /\ GoesOn
  BY <1>1, <1>3, StartsChange, OpsKept DEF GoesOn
<1>4. ASSUME NEW fname, NEW args, ExecuteRejected(fname, args) \/ ExecuteTooMany(fname, args)
      PROVE  NothingLeft' /\ GoesOn
  BY <1>4, PcbStays DEF ExecuteRejected, ExecuteTooMany, Caller, stackVars, GoesOn
<1>5. CASE DescriptorCall
  <2>1. ASSUME NEW fname, Open(fname) PROVE NothingLeft' /\ GoesOn
    BY <1>1, <2>1, OpenChange, OpsKept DEF Open, EntersKernel, GoesOn
  <2>2. ASSUME NEW fd \in Fds, Close(fd) PROVE NothingLeft' /\ GoesOn
    <3>1. NothingLeft'
      BY <1>1, <2>2, CloseChange, OpsKept
    <3>2. Pcb.file[fd].flag # 0 /\ cpu' \in {"lost", "user"}
      BY <2>2 DEF Close, Closable, IsOpen
    <3>3. cpu' # "lost"
      BY <2>2, <3>2, CloseChange DEF NothingLeft
    <3> QED
      BY <3>1, <3>2, <3>3 DEF GoesOn
  <2>3. ASSUME NEW fd \in Fds, NEW nbytes \in Reads, FileRead(fd, nbytes)
        PROVE  NothingLeft' /\ GoesOn
    BY <1>1, <2>3, ReadChange, OpsKept DEF FileRead, Reading, EntersKernel, GoesOn
  <2>4. ASSUME NEW fd, DirRead(fd) \/ RtcRead(fd) \/ TerminalRead(fd)
        PROVE  NothingLeft' /\ GoesOn
    BY <2>4, PcbStays DEF DirRead, RtcRead, TerminalRead, Reading, EntersKernel, stackVars, GoesOn
  <2> QED
    BY <1>5, <2>1, <2>2, <2>3, <2>4 DEF DescriptorCall
<1>6. CASE RtcReadReturns \/ TerminalReadReturns
  BY <1>6, PcbStays DEF RtcReadReturns, TerminalReadReturns, stackVars, GoesOn
<1>7. ~ WildCall
  BY DEF WildCall, NothingLeft, IsOpen
<1>8. CASE Vidmap \/ OtherCall \/ Interrupt
  BY <1>8, PcbStays DEF Vidmap, OtherCall, Interrupt, RTC_int, EnterKey, Exception,
                        Interrupted, EntersKernel, stackVars, GoesOn
<1> QED
  BY <1>2, <1>3, <1>4, <1>5, <1>6, <1>7, <1>8 DEF Next, Execute

(* The machine is lost or stopped only by a halt, or by a call through a   *)
(* word that passes for an open descriptor, and only a halt leaves such a  *)
(* word where RAM held none: whatever RAM holds at boot.                   *)
THEOREM LostCorrect == Spec => LostThroughLeftovers
<1>1. TypeOK /\ TypeOK' /\ ProcessInv /\ [Next]_vars
        => [Leftover' \/ cpu' \in {"lost", "stopped"} =>
              Leftover \/ \E status \in Statuses : Halt(status)]_vars
  <2>1. TypeOK /\ TypeOK' /\ ProcessInv /\ Next /\ ~ Leftover
          => (NothingLeft' /\ GoesOn) \/ \E status \in Statuses : Halt(status)
    BY LeftoverIs, NothingLeftStep
  <2>2. TypeOK' => (Leftover' <=> ~ NothingLeft')
    BY LeftoverIs, PTL
  <2> QED
    BY <2>1, <2>2 DEF GoesOn
<1> QED
  BY <1>1, TypeCorrect, ProcessesSafe, PTL DEF Spec, LostThroughLeftovers

=============================================================================
