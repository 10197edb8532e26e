------------------------------- MODULE Kernel -------------------------------
(***************************************************************************)
(* What the processor executes from entry on: the steps of entry and of    *)
(* its execute("shell"), programs and their calls, and the handlers of     *)
(* interrupts and exceptions, one on top of the other on the kernel's      *)
(* stack.  The other modules take from here that a call or a handler runs  *)
(* alone; what each of them does is there.                                 *)
(*                                                                         *)
(* Every program enters the kernel on the stack of tss.esp0, from its top: *)
(* frames is that stack, what was interrupted and whether IF was set.      *)
(***************************************************************************)
EXTENDS Idt, Sequences

CONSTANTS
  IntN,        (* the vectors programs use in int instructions             *)
  MaxFrames    (* the frames the kernel's stack has room for               *)

ASSUME KernelAssumption ==
  SYS_CALL_VEC \in IntN /\ IntN \subseteq Vectors /\ MaxFrames \in Nat /\ MaxFrames >= 4

VARIABLES
  multiboot,   (* what the boot loader passes, whether the image holds a   *)
               (* shell, and whether read_data loads all of it             *)
  code,        (* what the processor executes                              *)
  step,        (* the next step of entry, or of its execute                *)
  interrupts,  (* IF                                                       *)
  frames,      (* what was interrupted, each with its IF                   *)
  kernel,      (* what the steps of entry have set up                      *)
  cursor       (* where putc writes next                                   *)

vars == <<multiboot, code, step, interrupts, frames, kernel, cursor>>

(* "entry" and "execute" are the kernel's start, "loop" entry's last hlt   *)
(* loop, "halted" that of boot.S.  "waiting" is a read that has set IF,    *)
(* "reset" a triple fault, "lost" the return of the first program's halt.  *)
(* An exception handler prints its name and loops: it never returns.       *)
Handlers == {"keyboard_int", "RTC_int"}
Codes == Handlers \union {"entry", "execute", "loop", "halted", "user", "call",
                          "waiting", "exception", "reset", "lost"}

(* Pages, by what they hold; "beside" are those around video memory.       *)
(* Without paging every address is there.                                  *)
Pages == {"kernel", "video", "program", "beside"}

(* The cursor is at the end of the typed line, so that erasing the line    *)
(* keeps it on the screen; or it is astray, and erasing may move it off the*)
(* top; or it has been off the screen, where cells are not mapped.         *)
Cursors == {"in line", "astray", "off"}

Multiboot == [magic : BOOLEAN, flags : SUBSET {3, 4, 5}, modules : BOOLEAN,
              shell : BOOLEAN, loads : BOOLEAN]

Init ==
  /\ multiboot \in Multiboot
  /\ code = "entry" /\ step = 1 /\ interrupts = FALSE /\ frames = <<>>
  /\ kernel = [idt |-> FALSE, tss |-> FALSE, remapped |-> FALSE, enabled |-> {1, 8},
               mapped |-> Pages, addr_boot_block |-> "any", boot_block |-> "any"]
  /\ cursor = "in line"

-----------------------------------------------------------------------------
(* The processor                                                           *)

Frame == [code |-> code, interrupts |-> interrupts]

(* Enters the handler of a gate.  A program's frame is the first on the    *)
(* kernel's stack.  Without a table, a TSS for a program's frame or room on*)
(* the stack the processor resets.                                         *)
Delivered == kernel.idt /\ (code = "user" => kernel.tss) /\ Len(frames) < MaxFrames

Enters(gate) ==
  /\ code' = IF Delivered THEN gate.handler ELSE "reset"
  /\ interrupts' = (interrupts /\ LeavesIF(gate))
  /\ frames' = IF ~ Delivered THEN frames
               ELSE IF code = "user" THEN <<Frame>> ELSE Append(frames, Frame)
  /\ UNCHANGED <<multiboot, step, kernel>>

(* popf and iret: the linkages return to what was interrupted.             *)
Returns ==
  LET top == frames[Len(frames)]
  IN  /\ code' = top.code /\ interrupts' = top.interrupts
      /\ frames' = SubSeq(frames, 1, Len(frames) - 1)
      /\ UNCHANGED <<multiboot, step, kernel, cursor>>

Goes(c, flag) ==
  /\ code' = c /\ interrupts' = flag
  /\ UNCHANGED <<multiboot, step, frames, kernel, cursor>>

-----------------------------------------------------------------------------
(* entry                                                                   *)

(* A mutant: interrupts are enabled where the comments about them begin.   *)
EntrySteps_StiFirst == <<"magic", "modules", "bits 4 and 5", "sti", "tss", "init_idt",
  "i8259_init", "init_paging", "init_rtc", "enable_irq", "fs_init", "clear", "execute">>

EntrySteps == <<"magic", "modules", "bits 4 and 5", "tss", "init_idt", "i8259_init",
  "init_paging", "init_rtc", "enable_irq", "fs_init", "sti", "clear", "execute">>

(* What a step leaves set up.  Without a module addr_boot_block holds what *)
(* the stack, or the memory at mods_addr, held.  What init_paging maps of  *)
(* the first 4 MB is video memory.                                         *)
After(s, k) ==
  CASE s = "modules" /\ 3 \in multiboot.flags /\ multiboot.modules ->
                            [k EXCEPT !.addr_boot_block = "image"]
    [] s = "tss"         -> [k EXCEPT !.tss = TRUE]
    [] s = "init_idt"    -> [k EXCEPT !.idt = TRUE]
    [] s = "i8259_init"  -> [k EXCEPT !.remapped = TRUE, !.enabled = {2}]
    [] s = "init_paging" -> [k EXCEPT !.mapped = {"kernel", "video"}]
    [] s = "init_rtc"    -> [k EXCEPT !.enabled = @ \union {8}]
    [] s = "enable_irq"  -> [k EXCEPT !.enabled = @ \union {1, 8}]
    [] s = "fs_init"     -> [k EXCEPT !.boot_block = k.addr_boot_block]
    [] OTHER             -> k

EntryReturns ==
  /\ code = "entry"
  /\ \/ EntrySteps[step] = "magic" /\ ~ multiboot.magic
     \/ EntrySteps[step] = "bits 4 and 5" /\ {4, 5} \subseteq multiboot.flags

EntryStep ==
  /\ code = "entry"
  /\ \/ EntryReturns /\ Goes("halted", interrupts)
     \/ LET s == EntrySteps[step]
        IN  /\ ~ EntryReturns
            /\ kernel' = After(s, kernel)
            /\ interrupts' = (interrupts \/ s = "sti")
            /\ IF s = "execute" THEN code' = "execute" /\ step' = 1
                                ELSE step' = step + 1 /\ UNCHANGED code
            /\ UNCHANGED <<multiboot, frames, cursor>>

-----------------------------------------------------------------------------
(* The first execute runs with IF set.                                     *)

(* A mutant: the program is loaded before its page is mapped.              *)
ExecuteSteps_LoadFirst ==
  <<"check_executable", "program_loader", "get_addr", "create_pcb", "context_switch">>

ExecuteSteps ==
  <<"check_executable", "get_addr", "program_loader", "create_pcb", "context_switch">>

(* The flags of a new program; the mutant are those execute runs with.     *)
ProgramFlags_Kept == interrupts
ProgramFlags == TRUE

(* iret of context_switch.                                                 *)
StartsProgram ==
  /\ code' = "user" /\ interrupts' = ProgramFlags
  /\ frames' = <<>>
  /\ UNCHANGED <<multiboot, step, kernel, cursor>>

ShellFound == kernel.boot_block = "image" /\ multiboot.shell

(* The pages a step writes.                                                *)
Needs(s) == IF s = "program_loader" THEN {"program"} ELSE {}

(* execute returns -1 to entry.                                            *)
ExecuteFails(s) ==
  \/ s = "check_executable" /\ ~ ShellFound
  \/ s = "program_loader" /\ ~ multiboot.loads

ExecuteStep ==
  /\ code = "execute"
  /\ LET s == ExecuteSteps[step]
     IN  /\ Needs(s) \subseteq kernel.mapped
         /\ CASE ExecuteFails(s)      -> Goes("loop", interrupts)
              [] s = "context_switch" -> StartsProgram
              [] OTHER -> /\ step' = step + 1
                          /\ kernel' = IF s = "get_addr"
                                       THEN [kernel EXCEPT !.mapped = @ \union {"program"}]
                                       ELSE kernel
                          /\ UNCHANGED <<multiboot, code, interrupts, frames, cursor>>

-----------------------------------------------------------------------------
(* Programs and their calls                                                *)

IntInstruction ==
  /\ code = "user" /\ UNCHANGED cursor
  /\ \E v \in IntN : Enters(GateOfIntN(v))

CallReturns == code = "call" /\ Returns

(* terminal_read and rtc_read set IF and return some time later.           *)
CallWaits   == code = "call" /\ Goes("waiting", TRUE)
WaitReturns == code = "waiting" /\ Returns

(* execute starts another program, and halt returns to one.                *)
CallExecutes == code = "call" /\ StartsProgram

(* halt of the first program jumps to what is left of entry's frame.       *)
CallEndsShell == code = "call" /\ \E c \in {"loop", "lost"} : Goes(c, interrupts)

-----------------------------------------------------------------------------
(* Interrupts and exceptions                                               *)

(* The vector the controllers send, before they are remapped that of the   *)
(* BIOS.                                                                   *)
Vector(irq) == IF kernel.remapped THEN RESERVED_NUM + irq
               ELSE IF irq < 8 THEN irq + 8 ELSE irq + 104

Interrupt ==
  /\ interrupts /\ code \notin {"reset", "lost"}
  /\ \E irq \in kernel.enabled \ {2} : Enters(GateOf(Vector(irq)))
  /\ UNCHANGED cursor

HandlerReturns == code \in Handlers /\ Returns

(* The pages putc writes.                                                  *)
Cells == IF cursor = "off" THEN {"beside"} ELSE {"video"}

(* What may be addressed: anything by a program and with the pointers it   *)
(* passes, anything at all through a boot_block never set, and by what     *)
(* prints the cell at the cursor.                                          *)
Addresses ==
  CASE code \in {"user", "call", "waiting"} -> Pages
    [] code \in {"keyboard_int", "exception"} -> Cells
    [] code = "execute" -> Needs(ExecuteSteps[step])
         \union (IF ExecuteSteps[step] = "check_executable" /\ kernel.boot_block = "any"
                 THEN Pages ELSE {})
    [] code = "entry" -> {"video"}
    [] OTHER -> {}

(* Page_Fault prints as well: it faults again where the cursor is off the  *)
(* screen, until the stack is full.                                        *)
PageFault ==
  /\ Addresses \ kernel.mapped # {} /\ UNCHANGED cursor
  /\ Enters(GateOf(PAGE_FAULT_VEC))

(* The cursor leaves the typed line: programs print backspaces, and a key  *)
(* that is echoed while entry has yet to clear the screen, or while putc of*)
(* an exception handler has changed one of screen_x and screen_y only.     *)
EchoMisplaced ==
  LET interrupted == frames[Len(frames)].code
  IN  interrupted = "exception" \/ (interrupted = "entry" /\ EntrySteps[step] = "clear")

Strays ==
  /\ code = "call" \/ (code = "keyboard_int" /\ EchoMisplaced)
  /\ cursor = "in line" /\ cursor' = "astray"
  /\ UNCHANGED <<multiboot, code, step, interrupts, frames, kernel>>

(* Erasing past the top sets screen_y to -1, and the write faults at once. *)
(* So does a character an exception handler prints after such an echo.     *)
LeavesScreen ==
  /\ code \in {"call", "keyboard_int"} \/ (code = "exception" /\ interrupts)
  /\ cursor = "astray" /\ cursor' = "off"
  /\ Enters(GateOf(PAGE_FAULT_VEC))

-----------------------------------------------------------------------------
KernelStep == EntryStep \/ ExecuteStep

Next ==
  \/ KernelStep
  \/ IntInstruction
  \/ CallReturns \/ CallWaits \/ WaitReturns \/ CallExecutes \/ CallEndsShell
  \/ Interrupt \/ HandlerReturns \/ PageFault
  \/ Strays \/ LeavesScreen

(* The devices do not interrupt so often that the kernel's start gets no   *)
(* further, and a handler ends.                                            *)
Spec == Init /\ [][Next]_vars
FairSpec == Spec /\ SF_vars(KernelStep) /\ SF_vars(HandlerReturns)

-----------------------------------------------------------------------------
(* Properties                                                              *)

TypeOK ==
  /\ multiboot \in Multiboot
  /\ code \in Codes /\ interrupts \in BOOLEAN
  /\ step \in 1 .. Len(EntrySteps)
  /\ frames \in Seq([code : Codes, interrupts : BOOLEAN])
  /\ kernel \in [idt : BOOLEAN, tss : BOOLEAN, remapped : BOOLEAN, enabled : SUBSET {1, 2, 8},
                 mapped : SUBSET Pages, addr_boot_block : {"any", "image"},
                 boot_block : {"any", "image"}]
  /\ cursor \in Cursors

(* "QEMU will triple fault": whatever the boot loader passes and whenever  *)
(* a device interrupts, nothing is delivered before the tables are set up, *)
(* and the stack is never full.  Only a cursor off the screen resets the   *)
(* machine, by the faults of Page_Fault itself.                            *)
ResetOffScreen == code = "reset" => cursor = "off"

(* What the other modules rest on: a call that has not set IF and a        *)
(* handler are interrupted by nothing but a fault of their own, and that   *)
(* leaves nothing running that could use what they left half done: above   *)
(* them are exception handlers only, with IF clear.                        *)
CallsRunAlone ==
  \A k \in DOMAIN frames :
    frames[k].code \in Handlers \union {"call"} =>
      /\ code \in {"exception", "reset"} /\ ~ interrupts
      /\ \A j \in k + 1 .. Len(frames) : frames[j].code = "exception"

(* The kernel's stack holds no more than four frames: a program's, that of *)
(* its read, of a fault of the read and of a handler that interrupts its   *)
(* loop.  Nothing is interrupted by what it interrupts.  With the cursor   *)
(* off the screen exception handlers, and they only, interrupt themselves. *)
NestingBounded ==
  /\ cursor # "off" => Len(frames) <= 4
  /\ \A j, k \in DOMAIN frames :
       j # k /\ frames[j].code = frames[k].code => cursor = "off" /\ frames[k].code = "exception"

(* No program runs with interrupts off, the clock and the keyboard reach   *)
(* it: through every nesting of calls the flags it started with are kept.  *)
ProgramsInterruptible == code = "user" => interrupts

(* The handlers of the devices run when a device asks for them only: an    *)
(* int instruction of a program never enters one.                          *)
DevicesRunHandlers == [][IntInstruction => code' \notin Handlers]_vars

(* With sane flags and an image whose shell can be loaded the kernel gets  *)
(* to the shell, unless a key erased what is not on the screen any more.   *)
ShellStarts ==
  multiboot.magic /\ 3 \in multiboot.flags /\ ~ {4, 5} \subseteq multiboot.flags
  /\ multiboot.modules /\ multiboot.shell /\ multiboot.loads
    => <>(code = "user" \/ cursor = "off")

=============================================================================
