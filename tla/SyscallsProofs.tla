--------------------------- MODULE SyscallsProofs ---------------------------
(***************************************************************************)
(* Proofs about Syscalls: every state is well typed, the page mapped for   *)
(* programs always is a program frame and the one the PCB names, what a    *)
(* program may rely on for its clock and its descriptors, and that reads   *)
(* of the terminal and the clock come to an end.                           *)
(***************************************************************************)
EXTENDS Syscalls, TLAPS

(* What the assumptions on the image and the parameters say, in the form   *)
(* the proofs use.                                                         *)
LEMMA Constants ==
  /\ NPROC \in Nat /\ NPROC > 0 /\ 0 \in Stacks
  /\ MAXFILE \in Nat /\ MAXFILE > 1
  /\ U32 \in Nat /\ U32 > 0
  /\ NoArgs \in Args
  /\ dir_count \in Nat
<1>1. /\ NPROC \in Nat /\ NPROC > 0
      /\ MAXFILE \in Nat /\ MAXFILE > 1
      /\ U32 \in Nat /\ U32 > 0
  BY SyscallAssumption
<1>2. 0 \in Stacks
  BY <1>1 DEF Stacks
<1>3. NoArgs \in Args
  BY SyscallAssumption
<1>4. dir_count \in Nat
  BY ImageAssumption
<1> QED
  BY <1>1, <1>2, <1>3, <1>4

(* read_data returns an integer.                                           *)
LEMMA ReadDataType ==
  ASSUME NEW inode, NEW offset \in Nat, NEW length \in Nat
  PROVE  ReadData(inode, offset, length) \in Int
BY ImageAssumption DEF ReadData, BytesCopied

(* A position stays a 32-bit number when a result is added to it.          *)
LEMMA WrapType ==
  ASSUME NEW x \in Int
  PROVE  x % U32 \in 0 .. U32 - 1
BY Constants

(* A descriptor that open or execute sets up is one.                       *)
LEMMA DescriptorType ==
  ASSUME NEW ops \in Ops, NEW inode \in Nat
  PROVE  Descriptor(ops, inode) \in Descriptors
BY Constants DEF Descriptor, Descriptors

(* The elements of a sequence over R are in R.                             *)
LEMMA ElementType ==
  ASSUME NEW R, NEW s \in Seq(R), NEW k \in 1 .. Len(s)
  PROVE  s[k] \in R
OBVIOUS

(* The entries of the directory have the fields of a dentry.               *)
LEMMA EntryType ==
  ASSUME NEW fname, NEW k \in NamesFound(fname)
  PROVE  k \in DOMAIN direntries /\ direntries[k].inode_num \in Nat
<1> DEFINE Dentries == [filename : FileNames, filetype : FileTypes \union {UnknownType},
                        inode_num : Nat]
<1>1. direntries \in Seq(Dentries) /\ k \in DOMAIN direntries
  BY ImageAssumption DEF NamesFound
<1> HIDE DEF Dentries
<1>2. k \in 1 .. Len(direntries)
  BY <1>1
<1>3. direntries[k] \in Dentries
  BY <1>1, <1>2, ElementType
<1> QED
  BY <1>1, <1>3 DEF Dentries

(* The current PCB is one, and replacing it by another keeps the type.     *)
LEMMA SetPcbType ==
  ASSUME TypeOK, NEW p \in Pcbs, SetPcb(p)
  PROVE  pcb' \in [Stacks -> Pcbs]
BY DEF TypeOK, SetPcb

LEMMA CurrentPcbType ==
  ASSUME TypeOK
  PROVE  Pcb \in Pcbs
BY DEF TypeOK, Pcb

LEMMA SetFileType ==
  ASSUME TypeOK, NEW fd \in Fds, NEW d \in Descriptors, SetFile(fd, d)
  PROVE  pcb' \in [Stacks -> Pcbs]
<1>1. [Pcb EXCEPT !.file = [@ EXCEPT ![fd] = d]] \in Pcbs
  BY CurrentPcbType DEF Pcbs
<1> QED
  BY <1>1, SetPcbType DEF SetFile

LEMMA TrapType ==
  ASSUME TypeOK, EntersKernel
  PROVE  trap' \in [Stacks -> Pids \union {NoPid}]
BY DEF TypeOK, EntersKernel

(***************************************************************************)
(* Every reachable state is well typed.                                    *)
(***************************************************************************)
LEMMA TypeInit == Init => TypeOK
<1> SUFFICES ASSUME Init PROVE TypeOK
  OBVIOUS
<1>1. ASSUME NEW flags \in [Fds -> BootRam], NEW status \in BootRam
      PROVE  [file |-> [fd \in Fds |-> [ops |-> "none", inode |-> 0,
                                       file_pos |-> 0, flag |-> flags[fd]]],
              pid |-> 0, esp0 |-> 0, parent_pid |-> 0,
              parent_frame |-> BootFrame, status_halt |-> status] \in Pcbs
  <2> DEFINE file == [fd \in Fds |-> [ops |-> "none", inode |-> 0,
                                      file_pos |-> 0, flag |-> flags[fd]]]
  <2>1. BootRam \subseteq Nat
    BY SyscallAssumption DEF SyscallAssumption
  <2>2. "none" \in Ops
    BY DEF Ops
  <2>3. 0 \in 0 .. U32 - 1
    BY Constants
  <2>4. ASSUME NEW fd \in Fds
        PROVE  [ops |-> "none", inode |-> 0, file_pos |-> 0, flag |-> flags[fd]]
                 \in Descriptors
    BY <2>1, <2>2, <2>3 DEF Descriptors
  <2>5. file \in [Fds -> Descriptors]
    BY <2>4
  <2>6. 0 \in Pids /\ 0 \in Stacks
    BY Constants DEF Pids, Stacks
  <2> HIDE DEF file
  <2>7. [file |-> file, pid |-> 0, esp0 |-> 0, parent_pid |-> 0,
         parent_frame |-> BootFrame, status_halt |-> status] \in Pcbs
    BY <2>1, <2>5, <2>6 DEF Pcbs
  <2> QED
    BY <2>7 DEF file
<1>2. pcb \in [Stacks -> Pcbs]
  BY <1>1 DEF Init
<1>3. cpu \in CpuModes /\ running \in Pids \union {NoPid}
  BY DEF Init, CpuModes
<1>4. trap \in [Stacks -> Pids \union {NoPid}] /\ tss_esp0 \in Stacks /\ tss_esp \in Stacks
  BY Constants DEF Init
<1>5. /\ process \in [Pids -> {0, 1}] /\ spilled \in 0 .. MaxSpill
      /\ parent_pid \in Pids \union {NoPid}
      /\ launched \in [Pids -> Args \union {NotLive}]
  BY SyscallAssumption DEF SyscallAssumption, Init
<1>6. /\ user_page \in Pids \union {NoPid, NoPage}
      /\ frame \in [Pids -> DOMAIN inodes \union {Empty}]
      /\ video_mapped \in BOOLEAN
  BY DEF Init
<1>7. /\ arg_buf \in Args /\ directory_location \in 0 .. dir_count
      /\ interrupt_flag \in {0, 1} /\ enter_pressed \in {0, 1}
  BY Constants DEF Init
<1>8. rtc_masked \in BOOLEAN
  BY DEF Init
<1> QED
  BY <1>2, <1>3, <1>4, <1>5, <1>6, <1>7, <1>8 DEF TypeOK

(* execute                                                                 *)
LEMMA CallsExecuteType ==
  ASSUME TypeOK, NEW fname, NEW args, CallsExecute(fname, args)
  PROVE  trap' \in [Stacks -> Pids \union {NoPid}] /\ Caller \in CpuModes
BY TrapType DEF CallsExecute, TypeOK, Caller, CpuModes

LEMMA RejectedType ==
  ASSUME TypeOK, NEW fname, NEW args \in Args, ExecuteRejected(fname, args)
  PROVE  TypeOK'
BY CallsExecuteType
   DEF TypeOK, ExecuteRejected, memoryVars, tableVars, stackVars, deviceVars

LEMMA TooManyType ==
  ASSUME TypeOK, NEW fname, NEW args \in Args, ExecuteTooMany(fname, args)
  PROVE  TypeOK'
<1>1. spilled' \in 0 .. MaxSpill
  BY SyscallAssumption DEF TypeOK, ExecuteTooMany, SyscallAssumption
<1> QED
  BY <1>1, CallsExecuteType
     DEF TypeOK, ExecuteTooMany, memoryVars, stackVars, deviceVars

LEMMA AllocatesType ==
  ASSUME TypeOK, NEW args \in Args, NEW slot \in NextSlot, Allocates(slot, args)
  PROVE  /\ slot \in Pids
         /\ arg_buf' \in Args /\ process' \in [Pids -> {0, 1}]
         /\ parent_pid' \in Pids /\ user_page' \in Pids
<1>1. slot \in Pids
  BY DEF NextSlot, Lowest, FreeSlots
<1> QED
  BY <1>1 DEF TypeOK, Allocates

LEMMA LoadFailsType ==
  ASSUME TypeOK, NEW fname, NEW args \in Args, NEW slot \in NextSlot,
         ExecuteLoadFails(fname, args, slot)
  PROVE  TypeOK'
<1>1. slot \in Pids /\ Allocates(slot, args)
  BY AllocatesType DEF ExecuteLoadFails
<1>2. [Pcb EXCEPT !.pid = slot, !.parent_pid = parent_pid] \in Pcbs
  BY <1>1, CurrentPcbType DEF Pcbs, TypeOK
<1>3. pcb' \in [Stacks -> Pcbs]
  BY <1>2, SetPcbType DEF ExecuteLoadFails
<1> QED
  BY <1>1, <1>3, AllocatesType, CallsExecuteType
     DEF TypeOK, ExecuteLoadFails, Allocates, deviceVars

LEMMA StartsType ==
  ASSUME TypeOK, NEW fname, NEW args \in Args, NEW slot \in NextSlot,
         ExecuteStarts(fname, args, slot)
  PROVE  TypeOK'
<1> DEFINE file == [Pcb.file EXCEPT ![0] = Descriptor("stdin", 0),
                                    ![1] = Descriptor("stdout", 0)]
           started == [Pcb EXCEPT !.pid = slot, !.parent_pid = parent_pid,
                                  !.esp0 = tss_esp0, !.parent_frame = CallerFrame,
                                  !.file = [@ EXCEPT ![0] = Descriptor("stdin", 0),
                                                     ![1] = Descriptor("stdout", 0)]]
<1>1. slot \in Pids /\ Allocates(slot, args) /\ slot \in Stacks
  BY AllocatesType DEF ExecuteStarts, Stacks, Pids
<1>2. Descriptor("stdin", 0) \in Descriptors /\ Descriptor("stdout", 0) \in Descriptors
  BY DescriptorType DEF Ops
<1>3. Pcb \in Pcbs /\ file \in [Fds -> Descriptors]
  BY <1>2, CurrentPcbType DEF Pcbs
<1>4. CallerFrame \in Stacks \union {BootFrame}
  BY DEF CallerFrame, TypeOK
<1> HIDE DEF file
<1>5. [Pcb EXCEPT !.pid = slot, !.parent_pid = parent_pid, !.esp0 = tss_esp0,
                  !.parent_frame = CallerFrame, !.file = file] \in Pcbs
  BY <1>1, <1>3, <1>4 DEF Pcbs, TypeOK
<1>6. started \in Pcbs
  BY <1>5 DEF file
<1>7. pcb' \in [Stacks -> Pcbs]
  BY <1>6, SetPcbType DEF ExecuteStarts
<1>8. frame' \in [Pids -> DOMAIN inodes \union {Empty}]
  BY SyscallAssumption DEF ExecuteStarts, TypeOK, ExecutableInodes, SyscallAssumption
<1> QED
  BY <1>1, <1>7, <1>8, AllocatesType, CallsExecuteType
     DEF TypeOK, ExecuteStarts, Allocates, deviceVars, CpuModes

(* halt                                                                    *)
LEMMA HaltType ==
  ASSUME TypeOK, NEW status \in Statuses, Halt(status)
  PROVE  TypeOK'
<1> DEFINE file == [fd \in Fds |-> IF fd < 2 THEN Pcb.file[fd]
                                   ELSE [Pcb.file[fd] EXCEPT !.flag = 0]]
<1>1. Pcb \in Pcbs
  BY CurrentPcbType
<1>2. file \in [Fds -> Descriptors]
  BY <1>1 DEF Pcbs, Descriptors
<1> HIDE DEF file
<1>3. [Pcb EXCEPT !.file = file, !.pid = Pcb.parent_pid, !.status_halt = status] \in Pcbs
  BY <1>1, <1>2, SyscallAssumption DEF Pcbs, SyscallAssumption
<1>4. pcb' \in [Stacks -> Pcbs]
  BY <1>1, <1>3, SetPcbType DEF Halt, HaltedPcb, Pcbs, file
<1>5. tss_esp0' \in Stacks /\ user_page' \in Pids \union {NoPid, NoPage}
  BY <1>1 DEF Halt, Pcbs
<1>6. trap' \in [Stacks -> Pids \union {NoPid}]
  BY TrapType DEF Halt
<1>7. running' \in Pids \union {NoPid} /\ cpu' \in CpuModes
  BY <1>1, <1>6 DEF Halt, Pcbs, CpuModes, TypeOK
<1>8. launched' \in [Pids -> Args \union {NotLive}]
  BY DEF Halt, TypeOK
<1> QED
  BY <1>4, <1>5, <1>6, <1>7, <1>8 DEF TypeOK, Halt, deviceVars

(* The descriptor calls                                                    *)
LEMMA OpenType ==
  ASSUME TypeOK, NEW fname, Open(fname)
  PROVE  TypeOK'
<1>1. PICK k \in NamesFound(fname), fd \in NextFd :
        /\ direntries[k].filetype \in FileTypes
        /\ SetFile(fd, Descriptor(direntries[k].filetype,
                                  IF direntries[k].filetype = "file"
                                  THEN direntries[k].inode_num ELSE 0))
        /\ rtc_masked' = (direntries[k].filetype # "rtc" /\ rtc_masked)
  BY DEF Open
<1>2. fd \in Fds
  BY Constants DEF NextFd, Lowest, FreeFds, Fds
<1>3. direntries[k].filetype \in Ops
  BY <1>1 DEF FileTypes, Ops
<1>4. pcb' \in [Stacks -> Pcbs]
  BY <1>1, <1>2, <1>3, EntryType, DescriptorType, SetFileType
<1>5. rtc_masked' \in BOOLEAN
  BY <1>1, Zenon DEF TypeOK
<1>6. trap' \in [Stacks -> Pids \union {NoPid}]
  BY TrapType DEF Open
<1> QED
  BY <1>4, <1>5, <1>6 DEF TypeOK, Open, memoryVars, tableVars, stackVars

LEMMA CloseType ==
  ASSUME TypeOK, NEW fd \in Fds, Close(fd)
  PROVE  TypeOK'
<1> DEFINE closed == [Pcb.file[fd] EXCEPT !.flag = 0,
                        !.file_pos = IF Pcb.file[fd].ops = "file" THEN 0 ELSE @]
<1>1. Pcb.file[fd] \in Descriptors
  BY CurrentPcbType DEF Pcbs
<1>2. /\ Pcb.file[fd].file_pos \in 0 .. U32 - 1
      /\ 0 \in 0 .. U32 - 1
  BY <1>1, Constants DEF Descriptors
<1>3. closed \in Descriptors
  <2>1. CASE Pcb.file[fd].ops = "file"
    BY <1>1, <1>2, <2>1 DEF Descriptors
  <2>2. CASE Pcb.file[fd].ops # "file"
    BY <1>1, <1>2, <2>2 DEF Descriptors
  <2> QED
    BY <2>1, <2>2
<1>4. pcb' \in [Stacks -> Pcbs]
  BY <1>3, SetFileType DEF Close
<1>5. rtc_masked' \in BOOLEAN
  BY Zenon DEF TypeOK, Close
<1>6. trap' \in [Stacks -> Pids \union {NoPid}]
  BY TrapType DEF Close
<1>7. cpu' \in CpuModes
  BY DEF Close, CpuModes
<1> QED
  BY <1>4, <1>5, <1>6, <1>7 DEF TypeOK, Close, memoryVars, tableVars, stackVars

LEMMA FileReadType ==
  ASSUME TypeOK, NEW fd \in Fds, NEW nbytes \in Reads, FileRead(fd, nbytes)
  PROVE  TypeOK'
<1> DEFINE d == Pcb.file[fd]
           sum == ReadData(d.inode, d.file_pos, nbytes)
<1>1. d \in Descriptors /\ d.file_pos \in Nat /\ nbytes \in Nat
  BY CurrentPcbType, SyscallAssumption, Constants DEF Pcbs, Descriptors, SyscallAssumption
<1>2. sum \in Int
  BY <1>1, ReadDataType
<1> HIDE DEF sum
<1>3. (d.file_pos + sum) % U32 \in 0 .. U32 - 1
  BY <1>1, <1>2, WrapType
<1>4. [d EXCEPT !.file_pos = (@ + sum) % U32] \in Descriptors
  BY <1>1, <1>3 DEF Descriptors
<1>5. pcb' \in [Stacks -> Pcbs]
  BY <1>4, SetFileType DEF FileRead, sum
<1>6. trap' \in [Stacks -> Pids \union {NoPid}]
  BY TrapType DEF FileRead, Reading
<1> QED
  BY <1>5, <1>6 DEF TypeOK, FileRead, Reading, memoryVars, tableVars, stackVars

LEMMA DirReadType ==
  ASSUME TypeOK, NEW fd, DirRead(fd)
  PROVE  TypeOK'
<1>1. directory_location' \in 0 .. dir_count
  BY Constants DEF TypeOK, DirRead
<1> QED
  BY <1>1, TrapType
     DEF TypeOK, DirRead, Reading, memoryVars, tableVars, stackVars

(* The reads that spin, and their returns.                                 *)
LEMMA SpinType ==
  ASSUME TypeOK,
         \/ \E fd \in Fds : RtcRead(fd) \/ TerminalRead(fd)
         \/ RtcReadReturns \/ TerminalReadReturns
  PROVE  TypeOK'
<1>1. ASSUME NEW fd \in Fds, RtcRead(fd) PROVE TypeOK'
  BY <1>1, TrapType
     DEF TypeOK, RtcRead, Reading, CpuModes, memoryVars, tableVars, stackVars
<1>2. ASSUME NEW fd \in Fds, TerminalRead(fd) PROVE TypeOK'
  BY <1>2, TrapType
     DEF TypeOK, TerminalRead, Reading, CpuModes, memoryVars, tableVars, stackVars
<1>3. CASE RtcReadReturns
  BY <1>3 DEF TypeOK, RtcReadReturns, CpuModes, memoryVars, tableVars, stackVars
<1>4. CASE TerminalReadReturns
  BY <1>4 DEF TypeOK, TerminalReadReturns, CpuModes, memoryVars, tableVars, stackVars
<1> QED
  BY <1>1, <1>2, <1>3, <1>4

LEMMA WildCallType ==
  ASSUME TypeOK, WildCall
  PROVE  TypeOK'
<1>1. [Pcb EXCEPT !.status_halt = 0] \in Pcbs
  BY CurrentPcbType DEF Pcbs
<1>2. pcb' \in [Stacks -> Pcbs]
  BY <1>1, SetPcbType DEF WildCall, TypeOK
<1> QED
  BY <1>2, TrapType
     DEF TypeOK, WildCall, CpuModes, memoryVars, tableVars, stackVars, deviceVars

(* The remaining calls, interrupts and exceptions.                         *)
LEMMA OtherType ==
  ASSUME TypeOK, Vidmap \/ OtherCall \/ Interrupt
  PROVE  TypeOK'
<1>1. CASE Vidmap
  <2>1. video_mapped' \in BOOLEAN
    BY <1>1 DEF Vidmap
  <2> QED
    BY <1>1, <2>1, TrapType DEF TypeOK, Vidmap, tableVars, stackVars, deviceVars
<1>2. CASE OtherCall
  BY <1>2, TrapType
     DEF TypeOK, OtherCall, memoryVars, tableVars, stackVars, deviceVars
<1>3. CASE RTC_int
  BY <1>3, TrapType
     DEF TypeOK, RTC_int, Interrupted, memoryVars, tableVars, stackVars
<1>4. CASE EnterKey
  BY <1>4, TrapType
     DEF TypeOK, EnterKey, Interrupted, memoryVars, tableVars, stackVars
<1>5. CASE Exception
  BY <1>5, TrapType
     DEF TypeOK, Exception, CpuModes, memoryVars, tableVars, stackVars, deviceVars
<1> QED
  BY <1>1, <1>2, <1>3, <1>4, <1>5 DEF Interrupt

LEMMA TypeStutter ==
  ASSUME TypeOK, UNCHANGED vars
  PROVE  TypeOK'
BY DEF TypeOK, vars, memoryVars, tableVars, stackVars, deviceVars

(* Every reachable state is well typed: no sequence of calls, loads that   *)
(* fail, halts and interrupts leaves a variable outside its range; in      *)
(* particular file positions wrap, and directory reads stay in the         *)
(* directory.                                                              *)
THEOREM TypeCorrect == Spec => []TypeOK
<1>1. Init => TypeOK
  BY TypeInit
<1>2. TypeOK /\ [Next]_vars => TypeOK'
  <2> SUFFICES ASSUME TypeOK, [Next]_vars PROVE TypeOK'
    OBVIOUS
  <2>1. ASSUME NEW fname \in Names, NEW args \in Args, Execute(fname, args)
        PROVE  TypeOK'
    BY <2>1, RejectedType, TooManyType, LoadFailsType, StartsType DEF Execute
  <2>2. ASSUME NEW status \in Statuses, Halt(status) PROVE TypeOK'
    BY <2>2, HaltType
  <2>3. CASE DescriptorCall
    BY <2>3, OpenType, CloseType, FileReadType, DirReadType, SpinType DEF DescriptorCall
  <2>4. CASE RtcReadReturns \/ TerminalReadReturns
    BY <2>4, SpinType
  <2>5. CASE WildCall
    BY <2>5, WildCallType
  <2>6. CASE Vidmap \/ OtherCall \/ Interrupt
    BY <2>6, OtherType
  <2>7. CASE UNCHANGED vars
    BY <2>7, TypeStutter
  <2> QED
    BY <2>1, <2>2, <2>3, <2>4, <2>5, <2>6, <2>7 DEF Next
<1> QED
  BY <1>1, <1>2, PTL DEF Spec

-----------------------------------------------------------------------------
(***************************************************************************)
(* The page mapped for programs.                                           *)
(***************************************************************************)

(* What most steps leave alone.                                            *)
KeepsProcesses ==
  /\ UNCHANGED <<process, parent_pid, user_page, tss_esp0>>
  /\ \A s \in Stacks : /\ pcb'[s].pid = pcb[s].pid
                       /\ pcb'[s].esp0 = pcb[s].esp0
                       /\ pcb'[s].parent_pid = pcb[s].parent_pid
                       /\ pcb'[s].parent_frame = pcb[s].parent_frame
  /\ cpu' # "boot" \/ cpu = "boot"
  /\ InProgram' => InProgram

LEMMA KeepsProcessInv ==
  ASSUME TypeOK, ProcessInv, KeepsProcesses
  PROVE  ProcessInv'
<1>1. tss_esp0 \in Stacks
  BY DEF TypeOK
<1>2. OneStack' /\ NothingBeforeBoot'
  BY DEF ProcessInv, OneStack, NothingBeforeBoot, KeepsProcesses
<1>3. ParentHasSlot' /\ SlotsInOrder' /\ PageMatchesPcb'
  BY <1>1 DEF ProcessInv, ParentHasSlot, SlotsInOrder, PageMatchesPcb, Pcb, KeepsProcesses
<1>4. NoProgramOnKernelPage'
  BY DEF ProcessInv, NoProgramOnKernelPage, KeepsProcesses
<1> QED
  BY <1>2, <1>3, <1>4 DEF ProcessInv

(* A step that only changes descriptors and the halt status of the PCB.    *)
LEMMA PcbKept ==
  ASSUME TypeOK, NEW p,
         p = [Pcb EXCEPT !.file = p.file] \/ p = [Pcb EXCEPT !.status_halt = 0],
         SetPcb(p)
  PROVE  \A s \in Stacks : /\ pcb'[s].pid = pcb[s].pid
                          /\ pcb'[s].esp0 = pcb[s].esp0
                          /\ pcb'[s].parent_pid = pcb[s].parent_pid
                          /\ pcb'[s].parent_frame = pcb[s].parent_frame
<1>1. Pcb \in Pcbs
  BY CurrentPcbType
<1>2. /\ p.pid = Pcb.pid /\ p.esp0 = Pcb.esp0
      /\ p.parent_pid = Pcb.parent_pid /\ p.parent_frame = Pcb.parent_frame
  BY <1>1 DEF Pcbs
<1> QED
  BY <1>2 DEF TypeOK, SetPcb, Pcb

LEMMA SetFileKept ==
  ASSUME TypeOK, NEW fd, NEW d, SetFile(fd, d)
  PROVE  \A s \in Stacks : /\ pcb'[s].pid = pcb[s].pid
                          /\ pcb'[s].esp0 = pcb[s].esp0
                          /\ pcb'[s].parent_pid = pcb[s].parent_pid
                          /\ pcb'[s].parent_frame = pcb[s].parent_frame
<1> DEFINE p == [Pcb EXCEPT !.file = [@ EXCEPT ![fd] = d]]
<1>1. Pcb \in Pcbs
  BY CurrentPcbType
<1>2. p = [Pcb EXCEPT !.file = p.file]
  BY <1>1 DEF Pcbs
<1>3. SetPcb(p)
  BY DEF SetFile
<1> HIDE DEF p
<1> QED
  BY <1>2, <1>3, PcbKept

(* Everything but a successful or half successful execute and halt.        *)
LEMMA OthersKeepProcesses ==
  ASSUME TypeOK,
         \/ \E fname, args : ExecuteRejected(fname, args) \/ ExecuteTooMany(fname, args)
         \/ DescriptorCall \/ RtcReadReturns \/ TerminalReadReturns
         \/ WildCall \/ Vidmap \/ OtherCall \/ Interrupt
         \/ UNCHANGED vars
  PROVE  KeepsProcesses
<1> USE DEF KeepsProcesses, InProgram, memoryVars, tableVars, stackVars, deviceVars
<1>1. ASSUME NEW fname, NEW args, ExecuteRejected(fname, args) PROVE KeepsProcesses
  BY <1>1 DEF ExecuteRejected, CallsExecute, EntersKernel, Caller
<1>2. ASSUME NEW fname, NEW args, ExecuteTooMany(fname, args) PROVE KeepsProcesses
  BY <1>2 DEF ExecuteTooMany, CallsExecute, EntersKernel, Caller
<1>3. ASSUME NEW fname, Open(fname) PROVE KeepsProcesses
  BY <1>3, SetFileKept DEF Open, EntersKernel
<1>4. ASSUME NEW fd, Close(fd) PROVE KeepsProcesses
  BY <1>4, SetFileKept DEF Close, EntersKernel
<1>5. ASSUME NEW fd, NEW nbytes, FileRead(fd, nbytes) PROVE KeepsProcesses
  BY <1>5, SetFileKept DEF FileRead, Reading, EntersKernel
<1>6. ASSUME NEW fd, DirRead(fd) \/ RtcRead(fd) \/ TerminalRead(fd) PROVE KeepsProcesses
  BY <1>6 DEF DirRead, RtcRead, TerminalRead, Reading, EntersKernel
<1>7. CASE RtcReadReturns \/ TerminalReadReturns
  BY <1>7 DEF RtcReadReturns, TerminalReadReturns
<1>8. CASE WildCall
  <2>1. CASE UNCHANGED pcb
    BY <1>8, <2>1 DEF WildCall, EntersKernel
  <2>2. CASE SetPcb([Pcb EXCEPT !.status_halt = 0])
    BY <1>8, <2>2, PcbKept DEF WildCall, EntersKernel
  <2> QED
    BY <1>8, <2>1, <2>2 DEF WildCall
<1>9. CASE Vidmap \/ OtherCall \/ Interrupt
  BY <1>9 DEF Vidmap, OtherCall, Interrupt, RTC_int, EnterKey, Exception,
              Interrupted, EntersKernel
<1>10. CASE UNCHANGED vars
  BY <1>10 DEF vars
<1> QED
  BY <1>1, <1>2, <1>3, <1>4, <1>5, <1>6, <1>7, <1>8, <1>9, <1>10 DEF DescriptorCall

(* The slot execute takes is the one after the last one given out.         *)
LEMMA NextSlotInOrder ==
  ASSUME TypeOK, SlotsInOrder, NEW slot \in NextSlot, NEW args, Allocates(slot, args)
  PROVE  /\ slot \in Pids /\ process'[slot] = 1
         /\ SlotsInOrder'
<1>1. slot \in Pids /\ process[slot] = 0
  BY DEF NextSlot, Lowest, FreeSlots
<1>2. \A p \in Pids : p < slot => process[p] = 1
  BY <1>1 DEF NextSlot, Lowest, FreeSlots, Pids, TypeOK
<1>3. process'[slot] = 1 /\ parent_pid' = slot
  BY <1>1 DEF Allocates, TypeOK
<1>4. \A p \in Pids : p # slot => process'[p] = process[p]
  BY DEF Allocates, TypeOK
<1>5. \A p \in Pids : slot < p => process[p] # 1
  BY <1>1 DEF SlotsInOrder, Pids, TypeOK, NoPid
<1>6. SlotsInOrder'
  BY <1>1, <1>2, <1>3, <1>4, <1>5 DEF SlotsInOrder, Pids
<1> QED
  BY <1>1, <1>3, <1>6

(* What execute records as the parent of a new program is a taken slot     *)
(* when a program calls it.                                                *)
LEMMA CallerHasSlot ==
  ASSUME TypeOK, ProcessInv, NEW fname, NEW args, CallsExecute(fname, args)
  PROVE  \/ cpu = "boot"
         \/ cpu = "user" /\ parent_pid \in Pids /\ process[parent_pid] = 1
<1>1. CASE cpu = "boot"
  BY <1>1
<1>2. CASE cpu # "boot"
  <2>1. cpu = "user"
    BY <1>2 DEF CallsExecute, EntersKernel
  <2>2. user_page \in Pids /\ process[user_page] = 1
    BY <2>1 DEF ProcessInv, NoProgramOnKernelPage, InProgram
  <2>3. user_page <= parent_pid
    BY <2>2 DEF ProcessInv, SlotsInOrder
  <2>4. parent_pid \in Pids
    BY <2>2, <2>3 DEF TypeOK, Pids, NoPid
  <2>5. process[parent_pid] = 1
    BY <2>4 DEF ProcessInv, SlotsInOrder, Pids
  <2> QED
    BY <2>1, <2>4, <2>5
<1> QED
  BY <1>1, <1>2

(* What loading a program and failing to load one have in common: the PCB  *)
(* names the new slot and its parent.                                      *)
LEMMA AllocationInv ==
  ASSUME TypeOK, ProcessInv,
         NEW fname, NEW args, NEW slot \in NextSlot, NEW p \in Pcbs,
         CallsExecute(fname, args), Allocates(slot, args), SetPcb(p),
         p.pid = slot, p.esp0 = 0, p.parent_pid = parent_pid,
         p.parent_frame \in {Pcb.parent_frame, CallerFrame},
         cpu' # "boot"
  PROVE  ProcessInv'
<1>1. /\ slot \in Pids /\ process'[slot] = 1
      /\ SlotsInOrder'
  BY NextSlotInOrder DEF ProcessInv
<1>2. tss_esp0 \in Stacks /\ tss_esp0' = tss_esp0
  BY DEF TypeOK, Allocates
<1>3. Pcb' = p
  BY <1>2 DEF Pcb, SetPcb, TypeOK
<1>4. OneStack'
  BY <1>2 DEF ProcessInv, OneStack, SetPcb, TypeOK
<1>5. NothingBeforeBoot'
  BY DEF NothingBeforeBoot
<1>6. ParentHasSlot'
  <2>1. CASE cpu = "boot"
    <3>1. Pcb.parent_frame = BootFrame
      BY <2>1, <1>2 DEF ProcessInv, NothingBeforeBoot, Pcb
    <3>2. p.parent_frame = BootFrame
      BY <2>1, <3>1 DEF CallerFrame
    <3> QED
      BY <3>2, <1>3 DEF ParentHasSlot
  <2>2. CASE parent_pid \in Pids /\ process[parent_pid] = 1
    <3>1. process'[parent_pid] = 1
      BY <2>2, <1>1 DEF Allocates, TypeOK
    <3> QED
      BY <2>2, <3>1, <1>3 DEF ParentHasSlot
  <2> QED
    BY <2>1, <2>2, CallerHasSlot
<1>7. PageMatchesPcb' /\ NoProgramOnKernelPage'
  BY <1>1, <1>3 DEF PageMatchesPcb, NoProgramOnKernelPage, Allocates
<1> QED
  BY <1>1, <1>4, <1>5, <1>6, <1>7 DEF ProcessInv

LEMMA LoadFailsInv ==
  ASSUME TypeOK, ProcessInv, NEW fname, NEW args, NEW slot \in NextSlot,
         ExecuteLoadFails(fname, args, slot)
  PROVE  ProcessInv'
<1> DEFINE p == [Pcb EXCEPT !.pid = slot, !.parent_pid = parent_pid]
<1>1. Pcb \in Pcbs /\ slot \in Pids
  BY CurrentPcbType DEF NextSlot, Lowest, FreeSlots
<1>2. p \in Pcbs
  BY <1>1 DEF Pcbs, TypeOK
<1>3. p.pid = slot /\ p.parent_pid = parent_pid /\ p.parent_frame = Pcb.parent_frame
  BY <1>1 DEF Pcbs
<1>4. p.esp0 = 0
  BY <1>1 DEF Pcbs, ProcessInv, OneStack, Pcb, TypeOK
<1>5. CallsExecute(fname, args) /\ Allocates(slot, args) /\ SetPcb(p)
  BY DEF ExecuteLoadFails
<1>6. cpu' # "boot"
  BY DEF ExecuteLoadFails, Caller
<1> HIDE DEF p
<1> QED
  BY <1>2, <1>3, <1>4, <1>5, <1>6, AllocationInv

LEMMA StartsInv ==
  ASSUME TypeOK, ProcessInv, NEW fname, NEW args \in Args, NEW slot \in NextSlot,
         ExecuteStarts(fname, args, slot)
  PROVE  ProcessInv'
<1> DEFINE p == [Pcb EXCEPT !.pid = slot, !.parent_pid = parent_pid,
                            !.esp0 = tss_esp0, !.parent_frame = CallerFrame,
                            !.file = [@ EXCEPT ![0] = Descriptor("stdin", 0),
                                               ![1] = Descriptor("stdout", 0)]]
<1>1. Pcb \in Pcbs
  BY CurrentPcbType
<1>2. p.pid = slot /\ p.parent_pid = parent_pid /\ p.parent_frame = CallerFrame
  BY <1>1 DEF Pcbs
<1>3. p.esp0 = 0
  BY <1>1 DEF Pcbs, ProcessInv, OneStack
<1>4. CallsExecute(fname, args) /\ Allocates(slot, args) /\ SetPcb(p)
  BY DEF ExecuteStarts
<1>5. cpu' # "boot"
  BY DEF ExecuteStarts
<1>6. Pcb' = p
  BY <1>4 DEF SetPcb, Pcb, TypeOK, Allocates
<1>7. p \in Pcbs
  <2>1. TypeOK'
    BY StartsType
  <2>2. Pcb' \in Pcbs
    BY <2>1 DEF TypeOK, Pcb
  <2> QED
    BY <1>6, <2>2
<1> HIDE DEF p
<1> QED
  BY <1>2, <1>3, <1>4, <1>5, <1>7, AllocationInv

(* halt goes back to the program the PCB names as the parent: with one     *)
(* kernel stack the PCB it leaves is the PCB it enters, and a saved frame  *)
(* was saved together with a parent that had a slot.                       *)
LEMMA HaltInv ==
  ASSUME TypeOK, ProcessInv, NEW status \in Statuses, Halt(status)
  PROVE  ProcessInv'
<1> DEFINE p == HaltedPcb(status)
<1>1. Pcb \in Pcbs /\ tss_esp0 \in Stacks
  BY CurrentPcbType DEF TypeOK
<1>2. SetPcb(p)
  BY DEF Halt
<1>3. /\ p.pid = Pcb.parent_pid /\ p.parent_pid = Pcb.parent_pid
      /\ p.parent_frame = Pcb.parent_frame /\ p.esp0 = Pcb.esp0
  BY <1>1 DEF HaltedPcb, Pcbs
<1>4. tss_esp0 = 0 /\ tss_esp0' = 0 /\ Pcb.esp0 = 0
  BY <1>1 DEF Halt, ProcessInv, OneStack, Pcb
<1> HIDE DEF p
<1>5. Pcb' = p
  BY <1>1, <1>2, <1>4 DEF Pcb, SetPcb, TypeOK
<1>6. OneStack'
  BY <1>1, <1>2, <1>3, <1>4 DEF ProcessInv, OneStack, SetPcb, TypeOK
<1>7. cpu' # "boot" /\ NothingBeforeBoot'
  BY DEF Halt, NothingBeforeBoot
<1>8. ParentHasSlot'
  BY <1>3, <1>5 DEF ParentHasSlot, ProcessInv, Halt
<1>9. SlotsInOrder'
  BY DEF ProcessInv, SlotsInOrder, Halt
<1>10. PageMatchesPcb'
  BY <1>3, <1>5 DEF PageMatchesPcb, Halt
<1>11. NoProgramOnKernelPage'
  BY DEF ProcessInv, ParentHasSlot, NoProgramOnKernelPage, InProgram, Halt
<1> QED
  BY <1>6, <1>7, <1>8, <1>9, <1>10, <1>11 DEF ProcessInv

LEMMA ProcessInit == Init => ProcessInv
<1> SUFFICES ASSUME Init PROVE ProcessInv
  OBVIOUS
<1>1. tss_esp0 = 0 /\ 0 \in Stacks
  BY Constants DEF Init
<1>2. \A s \in Stacks : pcb[s].esp0 = 0 /\ pcb[s].parent_frame = BootFrame
  BY DEF Init
<1>3. OneStack /\ NothingBeforeBoot /\ ParentHasSlot
  BY <1>1, <1>2 DEF Init, OneStack, NothingBeforeBoot, ParentHasSlot, Pcb
<1>4. SlotsInOrder
  BY Constants DEF Init, SlotsInOrder, Pids, NoPid
<1>5. PageMatchesPcb /\ NoProgramOnKernelPage
  BY DEF Init, PageMatchesPcb, NoProgramOnKernelPage, InProgram
<1> QED
  BY <1>3, <1>4, <1>5 DEF ProcessInv

(* The invariant behind the page mapping, for every number of slots, every *)
(* image and every value of RAM at boot.                                   *)
THEOREM ProcessesSafe == Spec => []ProcessInv
<1>1. Init => ProcessInv
  BY ProcessInit
<1>2. TypeOK /\ ProcessInv /\ [Next]_vars => ProcessInv'
  <2> SUFFICES ASSUME TypeOK, ProcessInv, [Next]_vars PROVE ProcessInv'
    OBVIOUS
  <2>1. ASSUME NEW fname \in Names, NEW args \in Args, Execute(fname, args)
        PROVE  ProcessInv'
    <3>1. CASE ExecuteRejected(fname, args) \/ ExecuteTooMany(fname, args)
      BY <3>1, OthersKeepProcesses, KeepsProcessInv
    <3>2. CASE \E slot \in NextSlot : ExecuteLoadFails(fname, args, slot)
      BY <3>2, LoadFailsInv
    <3>3. CASE \E slot \in NextSlot : ExecuteStarts(fname, args, slot)
      BY <3>3, StartsInv
    <3> QED
      BY <2>1, <3>1, <3>2, <3>3 DEF Execute
  <2>2. ASSUME NEW status \in Statuses, Halt(status) PROVE ProcessInv'
    BY <2>2, HaltInv
  <2>3. CASE \/ DescriptorCall \/ RtcReadReturns \/ TerminalReadReturns
             \/ WildCall \/ Vidmap \/ OtherCall \/ Interrupt
             \/ UNCHANGED vars
    BY <2>3, OthersKeepProcesses, KeepsProcessInv
  <2> QED
    BY <2>1, <2>2, <2>3 DEF Next
<1> QED
  BY <1>1, <1>2, TypeCorrect, PTL DEF Spec

(* The page mapped for programs is always the one of the pid in the PCB    *)
(* that calls find: across loads that fail half way, nested execute calls  *)
(* and every halt.                                                         *)
THEOREM PageAlwaysMatches == Spec => []PageMatchesPcb
<1>1. ProcessInv => PageMatchesPcb
  BY DEF ProcessInv
<1> QED
  BY <1>1, ProcessesSafe, PTL

(* No halt, the one of the first program included, gets back to user mode  *)
(* with page -1, the kernel's own memory, mapped for programs.             *)
THEOREM NeverOnKernelPage == Spec => []NoProgramOnKernelPage
<1>1. ProcessInv => NoProgramOnKernelPage
  BY DEF ProcessInv
<1> QED
  BY <1>1, ProcessesSafe, PTL

(* Slots are given out in order and parent_pid is the last one, whatever   *)
(* was halted in between.                                                  *)
THEOREM SlotsAlwaysInOrder == Spec => []SlotsInOrder
<1>1. ProcessInv => SlotsInOrder
  BY DEF ProcessInv
<1> QED
  BY <1>1, ProcessesSafe, PTL

-----------------------------------------------------------------------------
(* The calls implement the clock of ClockWait.                             *)

(* A step that leaves flag and mask alone and neither begins nor ends a    *)
(* clock read is none of the clock.                                        *)
LEMMA ClockStutter ==
  ASSUME UNCHANGED <<interrupt_flag, rtc_masked>>,
         cpu = "rtc_read" <=> cpu' = "rtc_read"
  PROVE  UNCHANGED Clock!vars
<1>1. (cpu = "rtc_read") = (cpu' = "rtc_read")
  OBVIOUS
<1> QED
  BY <1>1 DEF Clock!vars

(* A step that changes the mask alone.                                     *)
LEMMA ClockMasks ==
  ASSUME UNCHANGED interrupt_flag, rtc_masked' \in BOOLEAN,
         cpu = "rtc_read" <=> cpu' = "rtc_read"
  PROVE  Clock!SetMask
<1>1. (cpu = "rtc_read") = (cpu' = "rtc_read")
  OBVIOUS
<1> QED
  BY <1>1 DEF Clock!SetMask

(* The steps that are none of the clock's.                                 *)
LEMMA OthersKeepClock ==
  ASSUME NEW fname, NEW args, NEW status, NEW fd, NEW nbytes,
         \/ Execute(fname, args) \/ Halt(status)
         \/ FileRead(fd, nbytes) \/ DirRead(fd) \/ TerminalRead(fd)
         \/ TerminalReadReturns
         \/ WildCall \/ Vidmap \/ OtherCall \/ EnterKey \/ Exception
         \/ UNCHANGED vars
  PROVE  UNCHANGED Clock!vars
<1>1. CASE Execute(fname, args)
  <2>1. UNCHANGED deviceVars
    BY <1>1 DEF Execute, ExecuteRejected, ExecuteTooMany, ExecuteLoadFails, ExecuteStarts, Allocates
  <2>2. cpu # "rtc_read" /\ cpu' # "rtc_read"
    BY <1>1 DEF Execute, ExecuteRejected, ExecuteTooMany, ExecuteLoadFails, ExecuteStarts,
                CallsExecute, EntersKernel, Caller
  <2> QED
    BY <2>1, <2>2, ClockStutter DEF deviceVars
<1>2. CASE Halt(status)
  BY <1>2, ClockStutter DEF Halt, EntersKernel, deviceVars
<1>3. CASE FileRead(fd, nbytes) \/ DirRead(fd) \/ TerminalRead(fd)
  BY <1>3, ClockStutter DEF FileRead, DirRead, TerminalRead, Reading, EntersKernel
<1>4. CASE TerminalReadReturns
  BY <1>4, ClockStutter DEF TerminalReadReturns
<1>5. CASE WildCall \/ Vidmap \/ OtherCall \/ Exception
  BY <1>5, ClockStutter DEF WildCall, Vidmap, OtherCall, Exception, EntersKernel, deviceVars
<1>6. CASE EnterKey
  BY <1>6, ClockStutter DEF EnterKey
<1>7. CASE UNCHANGED vars
  BY <1>7, ClockStutter DEF vars, deviceVars
<1> QED
  BY <1>1, <1>2, <1>3, <1>4, <1>5, <1>6, <1>7

(* For every image, every number of programs and descriptors: a clock read *)
(* waits for a tick that comes after it, ends by taking the flag of that   *)
(* tick, and no other call or interrupt touches the flag.                  *)
THEOREM ClockImplemented == Spec => ImplementsClock
<1>1. Init => Clock!Init
  BY DEF Init, Clock!Init
<1>2. TypeOK /\ TypeOK' /\ [Next]_vars => [Clock!Next]_(Clock!vars)
  <2> SUFFICES ASSUME TypeOK, TypeOK', [Next]_vars
               PROVE  Clock!Next \/ UNCHANGED Clock!vars
    OBVIOUS
  <2>0. interrupt_flag \in {0, 1} /\ rtc_masked' \in BOOLEAN
    BY DEF TypeOK
  <2>1. CASE RTC_int
    <3>1. (cpu = "rtc_read") = (cpu' = "rtc_read")
      BY <2>1 DEF RTC_int
    <3> QED
      BY <2>1, <3>1 DEF RTC_int, Clock!Next, Clock!Ticks
  <2>2. ASSUME NEW fname, Open(fname) PROVE Clock!Next
    BY <2>0, <2>2, ClockMasks DEF Open, Clock!Next
  <2>3. ASSUME NEW fd, Close(fd) PROVE Clock!Next
    BY <2>0, <2>3, ClockMasks DEF Close, EntersKernel, Clock!Next
  <2>4. ASSUME NEW fd, RtcRead(fd) PROVE Clock!Next
    BY <2>4 DEF RtcRead, Reading, EntersKernel, Clock!Next, Clock!StartRead
  <2>5. CASE RtcReadReturns
    BY <2>0, <2>5 DEF RtcReadReturns, Clock!Next, Clock!EndRead
  <2>6. CASE UNCHANGED vars
    BY <2>6, OthersKeepClock
  <2> QED
    BY <2>1, <2>2, <2>3, <2>4, <2>5, <2>6, OthersKeepClock DEF Next, DescriptorCall, Interrupt
<1> QED
  BY <1>1, <1>2, TypeCorrect, PTL DEF Spec, ImplementsClock, Clock!Spec

-----------------------------------------------------------------------------
(***************************************************************************)
(* The descriptors of a PCB implement the table of DescriptorTable.        *)
(***************************************************************************)

(* A step that leaves the descriptors from 2 on alone.                     *)
LEMMA TableStutter ==
  ASSUME tss_esp0' = tss_esp0,
         \A fd \in TableFds : pcb'[tss_esp0].file[fd] = pcb[tss_esp0].file[fd]
  PROVE  UNCHANGED OpenFiles
BY DEF OpenFiles, Pcb, TableEntry

(* The new PCB is the one found afterwards.                                *)
LEMMA SetPcbFound ==
  ASSUME TypeOK, NEW p, SetPcb(p), tss_esp0' = tss_esp0
  PROVE  Pcb' = p
BY DEF TypeOK, SetPcb, Pcb

LEMMA TableChanges ==
  ASSUME TypeOK, tss_esp0' = tss_esp0, NEW fd \in TableFds, NEW d, SetFile(fd, d)
  PROVE  OpenFiles' = [OpenFiles EXCEPT ![fd] = TableEntry(d)]
<1> DEFINE p == [Pcb EXCEPT !.file = [@ EXCEPT ![fd] = d]]
<1>1. Pcb \in Pcbs /\ TableFds \subseteq Fds
  BY CurrentPcbType DEF TableFds, Fds
<1>2. \A e \in TableFds : p.file[e] = IF e = fd THEN d ELSE Pcb.file[e]
  BY <1>1 DEF Pcbs
<1>3. SetPcb(p)
  BY DEF SetFile
<1> HIDE DEF p
<1>4. Pcb' = p
  BY <1>3, SetPcbFound
<1> QED
  BY <1>2, <1>4 DEF OpenFiles

(* open takes a descriptor that is closed and sets its position to 0.      *)
LEMMA OpenOpens ==
  ASSUME TypeOK, NEW fname, Open(fname)
  PROVE  Files!Next
<1>1. PICK k \in NamesFound(fname), fd \in NextFd :
        /\ direntries[k].filetype \in FileTypes
        /\ SetFile(fd, Descriptor(direntries[k].filetype,
                                  IF direntries[k].filetype = "file"
                                  THEN direntries[k].inode_num ELSE 0))
  BY DEF Open
<1> DEFINE type  == direntries[k].filetype
           inode == IF type = "file" THEN direntries[k].inode_num ELSE 0
<1>2. fd \in TableFds /\ Pcb.file[fd].flag = 0
  BY DEF NextFd, Lowest, FreeFds, IsOpen, TableFds
<1>3. OpenFiles[fd] = NotOpen
  BY <1>2 DEF OpenFiles, TableEntry
<1>4. type \in FileTypes /\ k \in DOMAIN direntries
  BY <1>1, EntryType
<1>5. <<type, inode>> \in FilesToOpen
  BY <1>4 DEF FileTypes, FilesToOpen
<1>6. TableEntry(Descriptor(type, inode)) = [what |-> <<type, inode>>, file_pos |-> 0]
  BY <1>4 DEF TableEntry, Descriptor, FileTypes
<1> HIDE DEF inode
<1>7. OpenFiles' = [OpenFiles EXCEPT ![fd] = [what |-> <<type, inode>>, file_pos |-> 0]]
  BY <1>1, <1>2, <1>6, TableChanges DEF Open, stackVars, inode
<1>8. Files!OpenFile(fd, <<type, inode>>)
  BY <1>3, <1>7 DEF Files!OpenFile
<1> QED
  BY <1>2, <1>5, <1>8 DEF Files!Next

(* close closes its descriptor; one left open from boot was not in the     *)
(* table.                                                                  *)
LEMMA CloseCloses ==
  ASSUME TypeOK, NEW fd \in Fds, Close(fd)
  PROVE  Files!Next \/ UNCHANGED OpenFiles
<1> DEFINE closed == [Pcb.file[fd] EXCEPT !.flag = 0,
                        !.file_pos = IF Pcb.file[fd].ops = "file" THEN 0 ELSE @]
<1>1. Pcb.file[fd] \in Descriptors
  BY CurrentPcbType DEF Pcbs
<1>2. fd \in TableFds /\ Pcb.file[fd].flag # 0
  BY DEF Close, Closable, IsOpen, TableFds, Fds
<1>3. closed.flag = 0
  BY <1>1 DEF Descriptors
<1>4. SetFile(fd, closed) /\ tss_esp0' = tss_esp0
  BY DEF Close, stackVars
<1> HIDE DEF closed
<1>5. OpenFiles' = [OpenFiles EXCEPT ![fd] = NotOpen]
  BY <1>2, <1>3, <1>4, TableChanges DEF TableEntry
<1>6. CASE OpenFiles[fd] = NotOpen
  BY <1>5, <1>6 DEF OpenFiles
<1>7. CASE OpenFiles[fd] # NotOpen
  BY <1>2, <1>5, <1>7 DEF Files!Next, Files!CloseFile
<1> QED
  BY <1>6, <1>7

(* A file read moves the position of its own descriptor.                   *)
LEMMA FileReadMoves ==
  ASSUME TypeOK, NEW fd \in Fds, NEW nbytes \in Reads, FileRead(fd, nbytes)
  PROVE  Files!Next \/ UNCHANGED OpenFiles
<1> DEFINE d == Pcb.file[fd]
           moved == (d.file_pos + ReadData(d.inode, d.file_pos, nbytes)) % U32
           after == [d EXCEPT !.file_pos = moved]
<1>1. d \in Descriptors /\ d.file_pos \in Nat /\ nbytes \in Nat
  BY CurrentPcbType, SyscallAssumption, Constants DEF Pcbs, Descriptors, SyscallAssumption
<1>2. moved \in 0 .. U32 - 1
  BY <1>1, ReadDataType, WrapType
<1>3. /\ SetFile(fd, after) /\ tss_esp0' = tss_esp0
      /\ d.ops = "file" /\ d.flag # 0
  BY DEF FileRead, Reading, IsOpen, stackVars
<1> HIDE DEF moved
<1>4. TableEntry(after) = [what |-> <<d.ops, d.inode>>, file_pos |-> moved]
  BY <1>1, <1>3 DEF Descriptors, TableEntry
<1> HIDE DEF after
<1>5. CASE fd \in TableFds
  <2>1. OpenFiles[fd] = [what |-> <<d.ops, d.inode>>, file_pos |-> d.file_pos]
    BY <1>3, <1>5 DEF OpenFiles, TableEntry
  <2>2. OpenFiles' = [OpenFiles EXCEPT ![fd] = TableEntry(after)]
    BY <1>3, <1>5, TableChanges
  <2>3. OpenFiles'[fd] = TableEntry(after)
    BY <1>5, <2>2 DEF OpenFiles
  <2>4. OpenFiles[fd] # NotOpen
    BY <1>3, <2>1 DEF NotOpen
  <2>5. OpenFiles' = [OpenFiles EXCEPT ![fd] =
                        [@ EXCEPT !.file_pos = OpenFiles'[fd].file_pos]]
    <3>1. OpenFiles'[fd].file_pos = moved
      BY <1>4, <2>3
    <3>2. [OpenFiles[fd] EXCEPT !.file_pos = moved] = TableEntry(after)
      BY <1>4, <2>1
    <3> QED
      BY <2>2, <3>1, <3>2
  <2>6. OpenFiles'[fd].file_pos \in 0 .. U32 - 1
    BY <1>2, <1>4, <2>3
  <2> QED
    BY <1>5, <2>4, <2>5, <2>6 DEF Files!Next, Files!ReadFile
<1>6. CASE fd \notin TableFds
  <2> DEFINE p == [Pcb EXCEPT !.file = [@ EXCEPT ![fd] = after]]
  <2>1. Pcb \in Pcbs /\ TableFds \subseteq Fds
    BY CurrentPcbType DEF TableFds, Fds
  <2>2. \A e \in TableFds : p.file[e] = Pcb.file[e]
    BY <1>6, <2>1 DEF Pcbs
  <2>3. SetPcb(p)
    BY <1>3 DEF SetFile
  <2> HIDE DEF p
  <2>4. Pcb' = p
    BY <1>3, <2>3, SetPcbFound
  <2> QED
    BY <1>3, <2>2, <2>4, TableStutter DEF Pcb
<1> QED
  BY <1>5, <1>6

(* halt closes every descriptor of the table there is.                     *)
LEMMA HaltCloses ==
  ASSUME TypeOK, ProcessInv, NEW status, Halt(status)
  PROVE  Files!Next
<1> DEFINE p == HaltedPcb(status)
<1>1. Pcb \in Pcbs /\ tss_esp0 \in Stacks /\ TableFds \subseteq Fds
  BY CurrentPcbType DEF TypeOK, TableFds, Fds
<1>2. SetPcb(p) /\ tss_esp0' = tss_esp0
  BY <1>1 DEF Halt, ProcessInv, OneStack, Pcb
<1>3. \A fd \in TableFds : p.file[fd] = [Pcb.file[fd] EXCEPT !.flag = 0]
  BY <1>1 DEF HaltedPcb, Pcbs, TableFds
<1>4. \A fd \in TableFds : p.file[fd].flag = 0
  BY <1>1, <1>3 DEF Pcbs, Descriptors
<1> HIDE DEF p
<1>5. Pcb' = p
  BY <1>2, SetPcbFound
<1>6. OpenFiles' = [fd \in TableFds |-> NotOpen]
  BY <1>4, <1>5 DEF OpenFiles, TableEntry
<1> QED
  BY <1>6 DEF Files!Next, Files!EndProgram

(* execute touches the descriptors 0 and 1 only.                           *)
LEMMA ExecuteKeepsTable ==
  ASSUME TypeOK, NEW fname, NEW args, Execute(fname, args)
  PROVE  UNCHANGED OpenFiles
<1>1. Pcb \in Pcbs /\ TableFds \subseteq Fds
  BY CurrentPcbType DEF TableFds, Fds
<1>2. CASE ExecuteRejected(fname, args) \/ ExecuteTooMany(fname, args)
  BY <1>2, TableStutter DEF ExecuteRejected, ExecuteTooMany, stackVars
<1>3. ASSUME NEW slot, ExecuteLoadFails(fname, args, slot) PROVE UNCHANGED OpenFiles
  <2> DEFINE p == [Pcb EXCEPT !.pid = slot, !.parent_pid = parent_pid]
  <2>1. SetPcb(p) /\ tss_esp0' = tss_esp0
    BY <1>3 DEF ExecuteLoadFails, Allocates
  <2>2. p.file = Pcb.file
    BY <1>1 DEF Pcbs
  <2> HIDE DEF p
  <2>3. Pcb' = p
    BY <2>1, SetPcbFound
  <2> QED
    BY <2>1, <2>2, <2>3, TableStutter DEF Pcb
<1>4. ASSUME NEW slot, ExecuteStarts(fname, args, slot) PROVE UNCHANGED OpenFiles
  <2> DEFINE p == [Pcb EXCEPT !.pid = slot, !.parent_pid = parent_pid,
                              !.esp0 = tss_esp0, !.parent_frame = CallerFrame,
                              !.file = [@ EXCEPT ![0] = Descriptor("stdin", 0),
                                                 ![1] = Descriptor("stdout", 0)]]
  <2>1. SetPcb(p) /\ tss_esp0' = tss_esp0
    BY <1>4 DEF ExecuteStarts, Allocates
  <2>2. p.file = [Pcb.file EXCEPT ![0] = Descriptor("stdin", 0), ![1] = Descriptor("stdout", 0)]
    BY <1>1 DEF Pcbs
  <2> HIDE DEF p
  <2>3. \A fd \in TableFds : p.file[fd] = Pcb.file[fd]
    BY <1>1, <2>2 DEF Pcbs, TableFds
  <2>4. Pcb' = p
    BY <2>1, SetPcbFound
  <2> QED
    BY <2>1, <2>3, <2>4, TableStutter DEF Pcb
<1> QED
  BY <1>2, <1>3, <1>4 DEF Execute

(* The steps that are none of the table's.                                 *)
LEMMA OthersKeepTable ==
  ASSUME TypeOK, NEW fd,
         \/ DirRead(fd) \/ RtcRead(fd) \/ TerminalRead(fd)
         \/ RtcReadReturns \/ TerminalReadReturns
         \/ WildCall \/ Vidmap \/ OtherCall \/ Interrupt
         \/ UNCHANGED vars
  PROVE  UNCHANGED OpenFiles
<1>1. CASE DirRead(fd) \/ RtcRead(fd) \/ TerminalRead(fd)
  BY <1>1, TableStutter DEF DirRead, RtcRead, TerminalRead, Reading, stackVars
<1>2. CASE RtcReadReturns \/ TerminalReadReturns
  BY <1>2, TableStutter DEF RtcReadReturns, TerminalReadReturns, stackVars
<1>3. CASE WildCall
  <2>1. tss_esp0' = tss_esp0
    BY <1>3 DEF WildCall, stackVars
  <2>2. CASE UNCHANGED pcb
    BY <2>1, <2>2, TableStutter
  <2>3. CASE SetPcb([Pcb EXCEPT !.status_halt = 0])
    <3>1. Pcb' = [Pcb EXCEPT !.status_halt = 0]
      BY <2>1, <2>3, SetPcbFound
    <3>2. Pcb'.file = Pcb.file
      BY <3>1, CurrentPcbType DEF Pcbs
    <3> QED
      BY <2>1, <3>2, TableStutter DEF Pcb
  <2> QED
    BY <1>3, <2>2, <2>3 DEF WildCall
<1>4. CASE Vidmap \/ OtherCall \/ Interrupt
  BY <1>4, TableStutter DEF Vidmap, OtherCall, Interrupt, RTC_int, EnterKey, Exception, stackVars
<1>5. CASE UNCHANGED vars
  BY <1>5, TableStutter DEF vars, stackVars
<1> QED
  BY <1>1, <1>2, <1>3, <1>4, <1>5

(* What a program may rely on for its descriptors, for every image, number *)
(* of descriptors, and content of RAM at boot: what is opened was closed   *)
(* and starts at position 0, what is open stays as it is until a close or  *)
(* the end of a program, and only its own reads move its position.         *)
THEOREM TableImplemented == Spec => ImplementsTable
<1>1. Init => Files!Init
  <2> SUFFICES ASSUME Init PROVE Files!Init
    OBVIOUS
  <2>1. \A fd \in TableFds : Pcb.file[fd].ops = "none"
    BY Constants DEF Init, Pcb, TableFds, Fds
  <2> QED
    BY <2>1 DEF Files!Init, OpenFiles, TableEntry
<1>2. TypeOK /\ ProcessInv /\ [Next]_vars => [Files!Next]_OpenFiles
  <2> SUFFICES ASSUME TypeOK, ProcessInv, [Next]_vars
               PROVE  Files!Next \/ UNCHANGED OpenFiles
    OBVIOUS
  <2>1. ASSUME NEW fd \in Fds, NEW nbytes \in Reads, FileRead(fd, nbytes)
        PROVE  Files!Next \/ UNCHANGED OpenFiles
    BY <2>1, FileReadMoves
  <2>2. ASSUME NEW fd \in Fds, Close(fd) PROVE Files!Next \/ UNCHANGED OpenFiles
    BY <2>2, CloseCloses
  <2> QED
    BY <2>1, <2>2, OpenOpens, HaltCloses, ExecuteKeepsTable, OthersKeepTable
       DEF Next, DescriptorCall
<1> QED
  BY <1>1, <1>2, TypeCorrect, ProcessesSafe, PTL DEF Spec, ImplementsTable, Files!Spec

-----------------------------------------------------------------------------
(* A call that spins is left by its own return and by nothing else, keeps  *)
(* the mask of IRQ 8, and loses neither the tick nor the line it was told. *)
LEMMA SpinKept ==
  ASSUME TypeOK, Next, cpu \in {"rtc_read", "terminal_read"}
  PROVE  \/ cpu = "rtc_read" /\ RtcReadReturns
         \/ cpu = "terminal_read" /\ TerminalReadReturns
         \/ /\ UNCHANGED <<cpu, rtc_masked>>
            /\ interrupt_flag' \in {interrupt_flag, 1}
            /\ enter_pressed' \in {enter_pressed, 1}
<1>1. cpu # "user" /\ cpu # "boot"
  OBVIOUS
<1>2. ASSUME NEW fname, NEW args, Execute(fname, args) PROVE FALSE
  <2>1. CallsExecute(fname, args)
    BY <1>2, Zenon DEF Execute, ExecuteRejected, ExecuteTooMany, ExecuteLoadFails, ExecuteStarts
  <2> QED
    BY <1>1, <2>1 DEF CallsExecute, EntersKernel
<1>3. ~ EntersKernel
  BY <1>1 DEF EntersKernel
<1>4. ~ DescriptorCall
  BY <1>3, Zenon DEF DescriptorCall, Open, Close, DirRead, RtcRead, TerminalRead, FileRead, Reading
<1>5. /\ ~ (\E status \in Statuses : Halt(status))
      /\ ~ WildCall /\ ~ Vidmap /\ ~ OtherCall /\ ~ Exception
  BY <1>3, Zenon DEF Halt, WildCall, Vidmap, OtherCall, Exception
<1>6. CASE RTC_int
  BY <1>6 DEF RTC_int
<1>7. CASE EnterKey
  BY <1>7 DEF EnterKey
<1>8. RtcReadReturns => cpu = "rtc_read"
  BY DEF RtcReadReturns
<1>9. TerminalReadReturns => cpu = "terminal_read"
  BY DEF TerminalReadReturns
<1> QED
  BY <1>2, <1>4, <1>5, <1>6, <1>7, <1>8, <1>9 DEF Next, Interrupt

(* The steps that fairness is about are enabled where their guards hold.   *)
(* Each of them assigns every variable, so nothing else can disable it.    *)
WakerEnabled ==
  [](cpu = "rtc_read" /\ ~ rtc_masked /\ interrupt_flag = 0 => ENABLED <<RTC_int>>_vars)
WokenEnabled ==
  [](cpu = "rtc_read" /\ interrupt_flag = 1 => ENABLED <<RtcReadReturns>>_vars)
LineEnabled ==
  [](cpu = "terminal_read" /\ enter_pressed = 1 => ENABLED <<TerminalReadReturns>>_vars)

(* A line that was entered ends the read that waits for it or comes later. *)
THEOREM EnteredLineEndsRead == FairSpec /\ LineEnabled => LineEndsRead
<1> DEFINE Entered == cpu = "terminal_read" /\ enter_pressed = 1
<1>1. TypeOK /\ [Next]_vars /\ Entered => Entered' \/ (cpu = "user")'
  <2>1. UNCHANGED vars /\ Entered => Entered'
    BY DEF vars, stackVars, deviceVars, tableVars, memoryVars
  <2>2. TerminalReadReturns => (cpu = "user")'
    BY DEF TerminalReadReturns
  <2> QED
    BY <2>1, <2>2, SpinKept
<1>2. <<TerminalReadReturns>>_vars => (cpu = "user")'
  BY DEF TerminalReadReturns
<1>3. LineEndsRead <=> (Entered ~> cpu = "user")
  BY DEF LineEndsRead
<1>4. LineEnabled <=> [](Entered => ENABLED <<TerminalReadReturns>>_vars)
  BY DEF LineEnabled
<1> HIDE DEF Entered
<1> QED
  BY <1>1, <1>2, <1>3, <1>4, TypeCorrect, PTL DEF Spec, FairSpec, Fairness

(* A clock read that waits with IRQ 8 unmasked is woken by the next tick.  *)
THEOREM UnmaskedReaderWoken == FairSpec /\ WakerEnabled /\ WokenEnabled => UnmaskedReaderWakes
<1> DEFINE Waits == cpu = "rtc_read" /\ ~ rtc_masked /\ interrupt_flag = 0
           Told  == cpu = "rtc_read" /\ interrupt_flag = 1
<1>1. TypeOK /\ [Next]_vars /\ Waits => Waits' \/ Told'
  <2>1. UNCHANGED vars /\ Waits => Waits'
    BY DEF vars, stackVars, deviceVars, tableVars, memoryVars
  <2>2. RtcReadReturns /\ Waits => FALSE
    BY DEF RtcReadReturns
  <2> QED
    BY <2>1, <2>2, SpinKept
<1>2. TypeOK /\ [Next]_vars /\ Told => Told' \/ (cpu = "user")'
  <2>1. UNCHANGED vars /\ Told => Told'
    BY DEF vars, stackVars, deviceVars, tableVars, memoryVars
  <2>2. RtcReadReturns => (cpu = "user")'
    BY DEF RtcReadReturns
  <2> QED
    BY <2>1, <2>2, SpinKept
<1>3. <<RTC_int>>_vars => ~ Waits'
  BY DEF RTC_int
<1>4. <<RtcReadReturns>>_vars => (cpu = "user")'
  BY DEF RtcReadReturns
<1>5. TypeOK /\ cpu = "rtc_read" /\ ~ rtc_masked => Waits \/ Told
  BY DEF TypeOK
<1>6. WakerEnabled <=> [](Waits => ENABLED <<RTC_int>>_vars)
  BY DEF WakerEnabled
<1>7. WokenEnabled <=> [](Told => ENABLED <<RtcReadReturns>>_vars)
  BY DEF WokenEnabled
<1>8. UnmaskedReaderWakes <=> ((cpu = "rtc_read" /\ ~ rtc_masked) ~> cpu = "user")
  BY DEF UnmaskedReaderWakes
<1> HIDE DEF Waits, Told
<1> QED
  BY <1>1, <1>2, <1>3, <1>4, <1>5, <1>6, <1>7, <1>8, TypeCorrect, PTL
     DEF Spec, FairSpec, Fairness

=============================================================================
