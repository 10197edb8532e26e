------------------------------ MODULE Syscalls ------------------------------
(***************************************************************************)
(* The process and system call layer: execute and halt, the descriptor     *)
(* table and the calls dispatched through it, and what the interrupt       *)
(* handlers do to a caller that waits in one of them.                      *)
(*                                                                         *)
(* Interrupt gates clear IF, so a system call is one step of the machine   *)
(* except where it enables interrupts itself: terminal_read and rtc_read   *)
(* spin with IF set, and are a call step and a return step here.           *)
(*                                                                         *)
(* The processor enters the kernel on the stack tss.esp0 names.  A PCB     *)
(* lies at the bottom of every kernel stack and get_pcb finds it from the  *)
(* stack pointer, so the PCB of a call is pcb[tss_esp0].  The frame the    *)
(* processor pushes lies at the top of that stack; trap[s] says whose user *)
(* registers are in the frame of stack s.                                  *)
(***************************************************************************)
EXTENDS FileSystem

CONSTANTS
  NPROC,      (* SIZE_6: the process slots                                 *)
  MAXFILE,    (* the descriptors of a PCB; 8 in the code                   *)
  Elf,        (* the inodes that start with the ELF magic number           *)
  Names,      (* the file names programs use                               *)
  Args,       (* the argument strings of commands                          *)
  NoArgs,     (* the empty one among them                                  *)
  Reads,      (* the byte counts of read calls                             *)
  Statuses,   (* the status bytes of halt calls                            *)
  U32,        (* file_pos wraps here: 2^32                                 *)
  BootRam,    (* the values words of RAM may have when the kernel starts   *)
  MaxSpill    (* bounds the writes past the end of process[]               *)

ASSUME SyscallAssumption ==
  /\ NPROC \in Nat \ {0}
  /\ MAXFILE \in Nat \ {0, 1}
  /\ Elf \subseteq DOMAIN inodes
  /\ NoArgs \in Args /\ Args \subseteq STRING
  /\ Reads \subseteq Nat
  /\ Statuses \subseteq Nat
  /\ U32 \in Nat \ {0} /\ \A n \in DOMAIN inodes : inodes[n].length < U32
  /\ BootRam \subseteq Nat
  /\ MaxSpill \in Nat

VARIABLES
  cpu,                 (* what the processor executes: a member of CpuModes *)
  running,             (* the pid whose user registers the processor has    *)
  trap,                (* stack -> the pid whose registers its frame holds  *)
  tss_esp0,            (* the stack a call or an interrupt enters on        *)
  tss_esp,             (* the stack context_switch stores in tss.esp        *)
  pcb,                 (* stack -> the PCB at its bottom                    *)
  process,             (* process[]: the slots taken                        *)
  spilled,             (* words past the end of process[] set to 1          *)
  parent_pid,          (* the global parent_pid                             *)
  user_page,           (* the program frame Directory[32] maps              *)
  frame,               (* program frame -> the inode loaded in it           *)
  arg_buf,             (* the global argument buffer                        *)
  video_mapped,        (* Directory[33] maps video memory                   *)
  directory_location,  (* the global position of directory reads            *)
  rtc_masked,          (* IRQ 8 is masked                                   *)
  interrupt_flag,      (* set by RTC_int, awaited by rtc_read               *)
  enter_pressed,       (* set by keyboard_int, awaited by terminal_read     *)
  launched             (* history: pid -> the arguments it was started with *)

memoryVars == <<user_page, frame, video_mapped>>
tableVars  == <<process, spilled, parent_pid, launched>>
stackVars  == <<tss_esp0, tss_esp>>
deviceVars == <<rtc_masked, interrupt_flag, enter_pressed>>
vars == <<cpu, running, trap, pcb, arg_buf, directory_location,
          memoryVars, tableVars, stackVars, deviceVars>>

(***************************************************************************)
(* "boot" is entry before execute("shell"), "idle" its final hlt loop.     *)
(* "lost" is a jump to an address or through a frame the code does not     *)
(* control.  "exception" is the while (1) of an exception handler with IF  *)
(* set, as it was in a program, and "stopped" a loop with IF clear: that   *)
(* of a handler a call has raised, or entry's when a halt leads to it.     *)
(***************************************************************************)
CpuModes == {"boot", "user", "terminal_read", "rtc_read", "idle",
             "lost", "exception", "stopped"}

Pids   == 0 .. NPROC - 1
Stacks == 0 .. NPROC - 1
Fds    == 0 .. MAXFILE - 1
NoPid     == -1
BootFrame == -1     (* a parent frame on entry's own use of stack 0        *)
NoPage    == -2     (* Directory[32] before the first program is mapped    *)
Empty     == -1     (* a program frame nothing was loaded in               *)
NotLive   == "not live"

(* The PCB.  Its file operations are named after their table; parent_frame *)
(* stands for the saved parent_ebp and parent_esp.                         *)
Ops == {"none", "stdin", "stdout", "rtc", "dir", "file"}
Descriptors == [ops : Ops, inode : Nat, file_pos : 0 .. U32 - 1, flag : Nat]
Pcbs == [file : [Fds -> Descriptors], pid : Pids \union {NoPid}, esp0 : Stacks,
         parent_pid : Pids \union {NoPid}, parent_frame : Stacks \union {BootFrame},
         status_halt : Nat]

Descriptor(ops, inode) == [ops |-> ops, inode |-> inode, file_pos |-> 0, flag |-> 1]

-----------------------------------------------------------------------------
(* The state in which entry calls execute("shell").                        *)
Init ==
  /\ cpu = "boot" /\ running = NoPid
  /\ trap = [s \in Stacks |-> NoPid]
  /\ tss_esp0 = 0 /\ tss_esp = 0
  /\ \E flags \in [Fds -> BootRam], status \in BootRam :
       pcb = [s \in Stacks |->
                [file |-> [fd \in Fds |-> [ops |-> "none", inode |-> 0,
                                           file_pos |-> 0, flag |-> flags[fd]]],
                 pid |-> 0, esp0 |-> 0, parent_pid |-> 0,
                 parent_frame |-> BootFrame, status_halt |-> status]]
  /\ process = [p \in Pids |-> 0] /\ spilled = 0 /\ parent_pid = NoPid
  /\ launched = [p \in Pids |-> NotLive]
  /\ user_page = NoPage /\ frame = [p \in Pids |-> Empty] /\ video_mapped = FALSE
  /\ arg_buf = NoArgs /\ directory_location = 0
  /\ rtc_masked = FALSE /\ interrupt_flag = 0 /\ enter_pressed = 0

(* What a search upwards finds in a set of numbers: its lowest, if any.    *)
Lowest(S) == { n \in S : \A m \in S : n <= m }

(* get_pcb *)
Pcb == pcb[tss_esp0]
SetPcb(p) == pcb' = [pcb EXCEPT ![tss_esp0] = p]
SetFile(fd, d) == SetPcb([Pcb EXCEPT !.file = [@ EXCEPT ![fd] = d]])

(* A user program traps into the kernel.                                   *)
EntersKernel ==
  /\ cpu = "user"
  /\ trap' = [trap EXCEPT ![tss_esp0] = running]

-----------------------------------------------------------------------------
(* execute                                                                 *)

(* Who calls execute: entry for the first shell, a program afterwards.     *)
CallsExecute(fname, args) ==
  \/ cpu = "boot" /\ fname = "shell" /\ args = NoArgs /\ UNCHANGED trap
  \/ EntersKernel
CallerFrame == IF cpu = "boot" THEN BootFrame ELSE tss_esp0
Caller      == IF cpu = "boot" THEN "idle" ELSE "user"

(* The inode check_executable accepts for a name; the file type is not     *)
(* looked at.                                                              *)
ExecutableInodes(fname) ==
  { n \in Elf : /\ \E i \in NamesFound(fname) : direntries[i].inode_num = n
                /\ ReadData(n, 0, 4) # -1 }

(* get_first_available_index *)
FreeSlots == { p \in Pids : process[p] = 0 }
(* A mutant: the search comes from above.                                  *)
NextSlot_Highest == { p \in FreeSlots : \A q \in FreeSlots : q <= p }
NextSlot == Lowest(FreeSlots)

(* The file does not exist or is no program.  The arguments are in place.  *)
ExecuteRejected(fname, args) ==
  /\ CallsExecute(fname, args)
  /\ ExecutableInodes(fname) = {}
  /\ arg_buf' = args
  /\ cpu' = Caller
  /\ UNCHANGED <<running, pcb, directory_location, memoryVars, tableVars,
                 stackVars, deviceVars>>

(* "Too many processes": the slot past the last one is written first.      *)
ExecuteTooMany(fname, args) ==
  /\ CallsExecute(fname, args)
  /\ ExecutableInodes(fname) # {}
  /\ FreeSlots = {}
  /\ spilled < MaxSpill
  /\ arg_buf' = args
  /\ spilled' = spilled + 1
  /\ cpu' = Caller
  /\ UNCHANGED <<running, pcb, process, parent_pid, launched,
                 directory_location, memoryVars, stackVars, deviceVars>>

(* Mutants of Allocates: execute does not make the new program the parent  *)
(* of the next one, and the slot is not marked as taken.                   *)
Allocates_ParentKept(slot, args) ==
  /\ arg_buf' = args
  /\ process' = [process EXCEPT ![slot] = 1]
  /\ user_page' = slot
  /\ UNCHANGED <<parent_pid, spilled, video_mapped, tss_esp0, directory_location, deviceVars>>

Allocates_SlotLeftFree(slot, args) ==
  /\ arg_buf' = args
  /\ parent_pid' = slot
  /\ user_page' = slot
  /\ UNCHANGED <<process, spilled, video_mapped, tss_esp0, directory_location, deviceVars>>

(* What execute does before program_loader.                                *)
Allocates(slot, args) ==
  /\ arg_buf' = args
  /\ process' = [process EXCEPT ![slot] = 1]
  /\ parent_pid' = slot
  /\ user_page' = slot
  /\ UNCHANGED <<spilled, video_mapped, tss_esp0, directory_location, deviceVars>>

(* program_loader cannot read the file: execute returns to its caller.     *)
ExecuteLoadFails(fname, args, slot) ==
  /\ CallsExecute(fname, args)
  /\ Allocates(slot, args)
  /\ \E n \in ExecutableInodes(fname) : ReadData(n, 0, inodes[n].length) = -1
  /\ SetPcb([Pcb EXCEPT !.pid = slot, !.parent_pid = parent_pid])
  /\ cpu' = Caller
  /\ UNCHANGED <<running, frame, launched, tss_esp>>

(* The program is loaded, create_pcb sets up its descriptors 0 and 1 and   *)
(* context_switch enters it.                                               *)
ExecuteStarts(fname, args, slot) ==
  /\ CallsExecute(fname, args)
  /\ Allocates(slot, args)
  /\ \E n \in ExecutableInodes(fname) :
       /\ ReadData(n, 0, inodes[n].length) # -1
       /\ frame' = [frame EXCEPT ![slot] = n]
  /\ SetPcb([Pcb EXCEPT !.pid = slot, !.parent_pid = parent_pid,
                        !.esp0 = tss_esp0, !.parent_frame = CallerFrame,
                        !.file = [@ EXCEPT ![0] = Descriptor("stdin", 0),
                                           ![1] = Descriptor("stdout", 0)]])
  /\ launched' = [launched EXCEPT ![slot] = args]
  /\ tss_esp' = slot
  /\ running' = slot
  /\ cpu' = "user"

Execute(fname, args) ==
  \/ ExecuteRejected(fname, args)
  \/ ExecuteTooMany(fname, args)
  \/ \E slot \in NextSlot : \/ ExecuteLoadFails(fname, args, slot)
                            \/ ExecuteStarts(fname, args, slot)

-----------------------------------------------------------------------------
(* A mutant: the PCB keeps the pid of the program that halts.              *)
HaltedPcb_PidKept(status) ==
  [Pcb EXCEPT !.file = [fd \in Fds |-> IF fd < 2 THEN @[fd] ELSE [@[fd] EXCEPT !.flag = 0]],
              !.status_halt = status]

(* The PCB of the program that halts becomes that of its parent.           *)
HaltedPcb(status) ==
  [Pcb EXCEPT !.file = [fd \in Fds |-> IF fd < 2 THEN @[fd] ELSE [@[fd] EXCEPT !.flag = 0]],
              !.pid = Pcb.parent_pid,
              !.status_halt = status]

(***************************************************************************)
(* halt returns through the frame execute saved.  A system call's frame    *)
(* ends in an iret with what the top of that stack holds now.  The frame   *)
(* of entry has been overwritten by the calls made since: it leads back to *)
(* entry's loop or anywhere.                                               *)
(***************************************************************************)
Halt(status) ==
  /\ EntersKernel
  /\ tss_esp0' = Pcb.esp0
  /\ SetPcb(HaltedPcb(status))
  /\ user_page' = Pcb.parent_pid
  /\ launched' = [launched EXCEPT ![Pcb.pid] = NotLive]
  /\ \/ /\ Pcb.parent_frame = BootFrame
        /\ cpu' \in {"stopped", "lost"}
        /\ UNCHANGED running
     \/ /\ Pcb.parent_frame # BootFrame
        /\ cpu' = "user"
        /\ running' = trap'[Pcb.parent_frame]
  /\ UNCHANGED <<arg_buf, directory_location, frame, video_mapped, process,
                 spilled, parent_pid, tss_esp, deviceVars>>

-----------------------------------------------------------------------------
(* The descriptor calls                                                    *)

IsOpen(fd) == Pcb.file[fd].flag # 0

FreeFds_OpenToo == 2 .. MAXFILE - 1     (* a mutant: flags are not looked at *)

(* The descriptor open takes: the lowest free one.                         *)
FreeFds == { fd \in 2 .. MAXFILE - 1 : ~ IsOpen(fd) }
NextFd == Lowest(FreeFds)

(* A mutant: the position is the one the descriptor had before.            *)
Open_PositionKept(fname) ==
  /\ EntersKernel
  /\ \E i \in NamesFound(fname), fd \in NextFd :
       LET type == direntries[i].filetype
       IN  /\ type \in FileTypes
           /\ SetFile(fd, [Descriptor(type, IF type = "file" THEN direntries[i].inode_num ELSE 0)
                              EXCEPT !.file_pos = Pcb.file[fd].file_pos])
           /\ rtc_masked' = (type # "rtc" /\ rtc_masked)
  /\ UNCHANGED <<cpu, running, arg_buf, directory_location, interrupt_flag,
                 enter_pressed, memoryVars, tableVars, stackVars>>

(* Opening the RTC also unmasks its interrupt (rtc_open, init_rtc).  A     *)
(* file of a type open does not know is refused, as one not found.         *)
Open(fname) ==
  /\ EntersKernel
  /\ \E i \in NamesFound(fname), fd \in NextFd :
       LET type == direntries[i].filetype
       IN  /\ type \in FileTypes
           /\ SetFile(fd, Descriptor(type, IF type = "file" THEN direntries[i].inode_num ELSE 0))
           /\ rtc_masked' = (type # "rtc" /\ rtc_masked)
  /\ UNCHANGED <<cpu, running, arg_buf, directory_location, interrupt_flag,
                 enter_pressed, memoryVars, tableVars, stackVars>>

(* A mutant: the range of the descriptor is not checked.                   *)
Closable_Stdio(fd) == IsOpen(fd)

Closable(fd) == fd >= 2 /\ IsOpen(fd)

(* The flag is cleared, then the close operation of the file type runs:    *)
(* rtc_close masks IRQ 8, file_close resets the position.                  *)
Close(fd) ==
  /\ EntersKernel
  /\ Closable(fd)
  /\ SetFile(fd, [Pcb.file[fd] EXCEPT !.flag = 0,
                                      !.file_pos = IF Pcb.file[fd].ops = "file" THEN 0 ELSE @])
  /\ rtc_masked' = (Pcb.file[fd].ops = "rtc" \/ rtc_masked)
  /\ cpu' = IF Pcb.file[fd].ops = "none" THEN "lost" ELSE "user"
  /\ UNCHANGED <<running, arg_buf, directory_location, interrupt_flag,
                 enter_pressed, memoryVars, tableVars, stackVars>>

(* A descriptor read dispatches to, with the state every read leaves.      *)
Reading(fd, ops) ==
  /\ EntersKernel
  /\ fd # 1 /\ IsOpen(fd)
  /\ Pcb.file[fd].ops = ops
  /\ UNCHANGED <<running, arg_buf, memoryVars, tableVars, stackVars,
                 rtc_masked, enter_pressed>>

(* file_read: read_data's result is added to the position, -1 included.    *)
FileRead(fd, nbytes) ==
  /\ Reading(fd, "file")
  /\ LET d == Pcb.file[fd]
         sum == ReadData(d.inode, d.file_pos, nbytes)
     IN  SetFile(fd, [d EXCEPT !.file_pos = (@ + sum) % U32])
  /\ UNCHANGED <<cpu, directory_location, interrupt_flag>>

(* A mutant: the position runs past the entry count before it wraps.       *)
DirRead_OneMore(fd) ==
  /\ Reading(fd, "dir")
  /\ directory_location' = IF directory_location > dir_count
                           THEN 0 ELSE directory_location + 1
  /\ UNCHANGED <<cpu, pcb, interrupt_flag>>

(* dir_read: one position for every descriptor of every program.           *)
DirRead(fd) ==
  /\ Reading(fd, "dir")
  /\ directory_location' = IF directory_location >= dir_count
                           THEN 0 ELSE directory_location + 1
  /\ UNCHANGED <<cpu, pcb, interrupt_flag>>

(* A mutant: the flag is as the ticks before left it.                      *)
RtcRead_FlagKept(fd) ==
  /\ Reading(fd, "rtc")
  /\ cpu' = "rtc_read"
  /\ UNCHANGED <<pcb, directory_location, interrupt_flag>>

(* rtc_read clears the flag, sets IF and spins.                            *)
RtcRead(fd) ==
  /\ Reading(fd, "rtc")
  /\ interrupt_flag' = 0
  /\ cpu' = "rtc_read"
  /\ UNCHANGED <<pcb, directory_location>>

RtcReadReturns ==
  /\ cpu = "rtc_read" /\ interrupt_flag # 0
  /\ interrupt_flag' = 0
  /\ cpu' = "user"
  /\ UNCHANGED <<running, trap, pcb, arg_buf, directory_location, memoryVars,
                 tableVars, stackVars, rtc_masked, enter_pressed>>

(* terminal_read sets IF and spins.                                        *)
TerminalRead(fd) ==
  /\ Reading(fd, "stdin")
  /\ cpu' = "terminal_read"
  /\ UNCHANGED <<pcb, directory_location, interrupt_flag>>

TerminalReadReturns ==
  /\ cpu = "terminal_read" /\ enter_pressed # 0
  /\ enter_pressed' = 0
  /\ cpu' = "user"
  /\ UNCHANGED <<running, trap, pcb, arg_buf, directory_location, memoryVars,
                 tableVars, stackVars, rtc_masked, interrupt_flag>>

(* A mutant: close of descriptor MAXFILE does not look at the flag.        *)
WildCall_NotChecked ==
  /\ EntersKernel
  /\ cpu' = "lost"
  /\ SetPcb([Pcb EXCEPT !.status_halt = 0])
  /\ UNCHANGED <<running, arg_buf, directory_location, memoryVars, tableVars,
                 stackVars, deviceVars>>

(***************************************************************************)
(* Descriptor MAXFILE passes the range check of read, write and close, and *)
(* file_array[MAXFILE] is what follows the array in the PCB: its flag is   *)
(* status_halt, its operations are pid, esp0, parent_pid and parent_esp.   *)
(* pid and esp0 are no mapped addresses; parent_esp is the kernel stack.   *)
(* A descriptor whose flag is left over from boot has no operations.       *)
(***************************************************************************)
WildCall ==
  /\ EntersKernel
  /\ \/ /\ Pcb.status_halt # 0                 (* read or write of MAXFILE *)
        /\ cpu' = "stopped"
        /\ UNCHANGED pcb
     \/ /\ Pcb.status_halt # 0                 (* close of MAXFILE         *)
        /\ cpu' = "lost"
        /\ SetPcb([Pcb EXCEPT !.status_halt = 0])
     \/ /\ \E fd \in Fds : IsOpen(fd) /\ Pcb.file[fd].ops = "none"
        /\ cpu' = "lost"
        /\ UNCHANGED pcb
  /\ UNCHANGED <<running, arg_buf, directory_location, memoryVars, tableVars,
                 stackVars, deviceVars>>

(* vidmap with an address inside the program's page.                       *)
Vidmap ==
  /\ EntersKernel
  /\ video_mapped' = TRUE
  /\ UNCHANGED <<cpu, running, pcb, arg_buf, directory_location, user_page,
                 frame, tableVars, stackVars, deviceVars>>

(* The calls that change nothing but the frame they entered by: a call     *)
(* refused by its argument checks, write, getargs, set_handler, sigreturn  *)
(* and a call number out of range.                                         *)
OtherCall ==
  /\ EntersKernel
  /\ UNCHANGED <<cpu, running, pcb, arg_buf, directory_location, memoryVars,
                 tableVars, stackVars, deviceVars>>

-----------------------------------------------------------------------------
(* Interrupts and exceptions                                               *)

(* The modes in which IF is set.  An interrupt of a program enters on the  *)
(* stack of tss.esp0, one of the kernel pushes on the stack in use.        *)
Interrupted ==
  \/ EntersKernel
  \/ /\ cpu \in {"boot", "terminal_read", "rtc_read", "idle", "exception"}
     /\ UNCHANGED trap

(* A mutant: change_flag changes the flag back at every other tick.        *)
RTC_int_Toggles ==
  /\ Interrupted
  /\ ~ rtc_masked
  /\ interrupt_flag' = 1 - interrupt_flag
  /\ UNCHANGED <<cpu, running, pcb, arg_buf, directory_location, memoryVars,
                 tableVars, stackVars, rtc_masked, enter_pressed>>

RTC_int ==
  /\ Interrupted
  /\ ~ rtc_masked
  /\ interrupt_flag' = 1
  /\ UNCHANGED <<cpu, running, pcb, arg_buf, directory_location, memoryVars,
                 tableVars, stackVars, rtc_masked, enter_pressed>>

(* A mutant: the release of Enter, whose branch the check of the scan code *)
(* keeps from running, clears the flag.                                    *)
EnterKey_Release ==
  /\ Interrupted
  /\ enter_pressed' \in {0, 1}
  /\ UNCHANGED <<cpu, running, pcb, arg_buf, directory_location, memoryVars,
                 tableVars, stackVars, rtc_masked, interrupt_flag>>

(* keyboard_int for the Enter key.                                         *)
EnterKey ==
  /\ Interrupted
  /\ enter_pressed' = 1
  /\ UNCHANGED <<cpu, running, pcb, arg_buf, directory_location, memoryVars,
                 tableVars, stackVars, rtc_masked, interrupt_flag>>

(* Every exception handler prints the exception's name and loops.  The     *)
(* first 32 vectors are trap gates, which leave IF as it is.               *)
Exception ==
  /\ EntersKernel
  /\ cpu' = "exception"
  /\ UNCHANGED <<running, pcb, arg_buf, directory_location, memoryVars,
                 tableVars, stackVars, deviceVars>>

-----------------------------------------------------------------------------
DescriptorCall ==
  \/ \E fname \in Names : Open(fname)
  \/ \E fd \in Fds :
       \/ Close(fd) \/ DirRead(fd) \/ RtcRead(fd) \/ TerminalRead(fd)
       \/ \E nbytes \in Reads : FileRead(fd, nbytes)

Interrupt == RTC_int \/ EnterKey \/ Exception

Next ==
  \/ \E fname \in Names, args \in Args : Execute(fname, args)
  \/ \E status \in Statuses : Halt(status)
  \/ DescriptorCall
  \/ RtcReadReturns \/ TerminalReadReturns
  \/ WildCall \/ Vidmap \/ OtherCall
  \/ Interrupt

(* The clock keeps interrupting while its IRQ is unmasked, and a spinning  *)
(* read is the only code that runs, so it sees its flag.                   *)
Fairness == WF_vars(RTC_int) /\ WF_vars(RtcReadReturns) /\ WF_vars(TerminalReadReturns)

Spec == Init /\ [][Next]_vars
FairSpec == Spec /\ Fairness

-----------------------------------------------------------------------------
(* Properties                                                              *)

TypeOK ==
  /\ cpu \in CpuModes
  /\ running \in Pids \union {NoPid}
  /\ trap \in [Stacks -> Pids \union {NoPid}]
  /\ tss_esp0 \in Stacks /\ tss_esp \in Stacks
  /\ pcb \in [Stacks -> Pcbs]
  /\ process \in [Pids -> {0, 1}] /\ spilled \in 0 .. MaxSpill
  /\ parent_pid \in Pids \union {NoPid}
  /\ launched \in [Pids -> Args \union {NotLive}]
  /\ user_page \in Pids \union {NoPid, NoPage}
  /\ frame \in [Pids -> DOMAIN inodes \union {Empty}]
  /\ video_mapped \in BOOLEAN
  /\ arg_buf \in Args /\ directory_location \in 0 .. dir_count
  /\ rtc_masked \in BOOLEAN /\ interrupt_flag \in {0, 1} /\ enter_pressed \in {0, 1}

(* A program is running, in user mode or inside a call that spins.         *)
InProgram == cpu \in {"user", "terminal_read", "rtc_read"}

(* The page mapped for programs is the one of the pid in the PCB of the    *)
(* stack calls enter on: get_addr and the PCB are never left disagreeing,  *)
(* by a load that fails half way or by a halt either.                      *)
PageMatchesPcb == user_page # NoPage => user_page = Pcb.pid

(* No program runs with the kernel's own page in place of a program frame. *)
(* halt of the first program maps page -1, the 4 MB below 8 MB, with user  *)
(* access: nothing may get back to user mode from there.                   *)
NoProgramOnKernelPage == InProgram => user_page \in Pids /\ process[user_page] = 1

(* Slots are given out in order, and the global parent_pid is the last one *)
(* given out, whatever was halted in between.                              *)
SlotsInOrder == \A p \in Pids : process[p] = 1 <=> p <= parent_pid

(* A program that was loaded stays in memory: no later execute loads       *)
(* another one over it, so that a halt back to it finds its image.         *)
ImagesStay == [][\A p \in Pids : frame[p] # Empty => frame'[p] = frame[p]]_vars

(* The machine is lost or stopped for good only by a halt, or by a call    *)
(* through a word of the PCB that passes for an open descriptor and is     *)
(* none; and only a halt leaves such a word, where RAM did not hold one at *)
(* boot: no open, close, read, execute or failed load does.                *)
Leftover == Pcb.status_halt # 0 \/ \E fd \in Fds : IsOpen(fd) /\ Pcb.file[fd].ops = "none"

LostThroughLeftovers ==
  [][Leftover' \/ cpu' \in {"lost", "stopped"} =>
       Leftover \/ \E status \in Statuses : Halt(status)]_vars

(* A program always finds the terminal open at descriptors 0 and 1,        *)
(* whichever program ran, closed descriptors or halted before it.          *)
StdioStaysOpen ==
  InProgram => /\ IsOpen(0) /\ Pcb.file[0].ops = "stdin"
               /\ IsOpen(1) /\ Pcb.file[1].ops = "stdout"

(* A descriptor that stays open keeps its file, and its position moves     *)
(* forwards only, except past a file whose blocks are damaged: no open,    *)
(* execute or halt retargets or rewinds it.                                *)
OpenDescriptorStable ==
  [][\A fd \in 2 .. MAXFILE - 1 :
       IsOpen(fd) /\ IsOpen(fd)' =>
         LET d == Pcb.file[fd]
         IN  /\ Pcb'.file[fd].ops = d.ops /\ Pcb'.file[fd].inode = d.inode
             /\ Pcb'.file[fd].file_pos >= d.file_pos]_vars

(* The position of an open file never passes the end of the file, in reads *)
(* that end inside, at and after the last block.                           *)
FilePositionInFile ==
  \A fd \in 2 .. MAXFILE - 1 :
    LET d == Pcb.file[fd]
    IN  d.ops = "file" /\ d.inode \in DOMAIN inodes => d.file_pos <= inodes[d.inode].length

(* Whether reads of a file at a position deliver, for every count up to    *)
(* some blocks: what read_data puts in the buffer are the bytes of the     *)
(* file from the position on, as many as its result says, and it writes no *)
(* further than it was asked to.                                           *)
ExactReads == [inode \in DOMAIN inodes |-> [file_pos \in 0 .. U32 - 1 |->
  \A nbytes \in 1 .. 2 * BLOCK_SIZE + 1 :
    LET sum == ReadData(inode, file_pos, nbytes)
    IN  sum > 0 => Delivers(inode, file_pos, nbytes, sum)]]

(* Every read of an open file delivers, at every position the reads before *)
(* have left, wherever in a block it begins and ends.                      *)
ReadsFileBytes ==
  \A fd \in 2 .. MAXFILE - 1 :
    LET d == Pcb.file[fd]
    IN  d.ops = "file" /\ d.inode \in DOMAIN inodes => ExactReads[d.inode][d.file_pos]

(* rtc_read is woken by the next tick as long as IRQ 8 is not masked: a    *)
(* tick between clearing the flag and the loop is not lost.                *)
UnmaskedReaderWakes == (cpu = "rtc_read" /\ ~ rtc_masked) ~> cpu = "user"

(* terminal_read returns once Enter was pressed, before or during it.      *)
LineEndsRead == (cpu = "terminal_read" /\ enter_pressed = 1) ~> cpu = "user"

(* The layout of the PCB, the frames and the stacks hide nothing but a     *)
(* table of open files: what no call closes stays as it is, what is opened *)
(* is closed before and starts at 0, what halts closes all of it.          *)
NotOpen == [what |-> <<"none", 0>>, file_pos |-> 0]
TableEntry(d) == IF d.flag # 0 /\ d.ops # "none"
                 THEN [what |-> <<d.ops, d.inode>>, file_pos |-> d.file_pos] ELSE NotOpen
TableFds == 2 .. MAXFILE - 1
OpenFiles == [fd \in TableFds |-> TableEntry(Pcb.file[fd])]
FilesToOpen == ({"rtc", "dir"} \X {0})
                 \union { <<"file", direntries[i].inode_num>> : i \in DOMAIN direntries }

Files == INSTANCE DescriptorTable
  WITH Table <- TableFds, Files <- FilesToOpen, file <- OpenFiles
ImplementsTable == Files!Spec

(* A clock read waits for a tick that comes after it and ends with it,     *)
(* whichever programs open, close and halt around it.                      *)
Clock == INSTANCE ClockWait WITH masked <- rtc_masked, waiting <- cpu = "rtc_read"
ImplementsClock == Clock!Spec

-----------------------------------------------------------------------------
(* The inductive invariant                                                 *)

(* context_switch stores the stack of the new process in tss.esp, not in   *)
(* tss.esp0: every call of every program enters on stack 0.                *)
OneStack == tss_esp0 = 0 /\ \A s \in Stacks : pcb[s].esp0 = 0

(* Before the first execute no slot is taken and no frame is saved.        *)
NothingBeforeBoot ==
  cpu = "boot" => parent_pid = NoPid /\ \A s \in Stacks : pcb[s].parent_frame = BootFrame

(* A halt that returns to a program finds its slot in the PCB.             *)
ParentHasSlot ==
  Pcb.parent_frame # BootFrame => Pcb.parent_pid \in Pids /\ process[Pcb.parent_pid] = 1

(* Why the page always matches: one stack, hence one PCB, and what that    *)
(* PCB records of the parent is a slot that was given out.                 *)
ProcessInv ==
  /\ OneStack
  /\ NothingBeforeBoot
  /\ ParentHasSlot
  /\ SlotsInOrder
  /\ PageMatchesPcb
  /\ NoProgramOnKernelPage

-----------------------------------------------------------------------------
(* What comments of the code say and the code does not do                  *)

(* "after the halt, it return back to its parent": whoever runs, runs in   *)
(* the page its registers belong to.                                       *)
RunsInOwnPage == cpu = "user" => user_page = running

(* "get the first available process": an execute is refused for want of a  *)
(* slot only when every slot belongs to a program that has not halted.     *)
RefusedOnlyWhenFull ==
  [][spilled' # spilled => \A p \in Pids : launched[p] # NotLive]_vars

(* getargs: "get the argument read from the command": a program that runs  *)
(* finds the arguments it was started with.                                *)
GetargsOwn == cpu = "user" /\ launched[running] # NotLive => arg_buf = launched[running]

(* rtc_read: "spin until the interrupt occurred".                          *)
RtcReadEnds == cpu = "rtc_read" ~> cpu = "user"

=============================================================================
