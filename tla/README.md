# A TLA+ model of the kernel

The repository is a small single-processor x86 kernel: programs run one at a
time, call the kernel through `int 0x80`, and wait inside the kernel for the
keyboard and the real-time clock. There is no scheduler. What is hard about it
is that

- a handful of handlers and calls run with interrupts enabled (the spin loops of
  `terminal_read` and `rtc_read`, the copy after the first, the code of `entry`
  after `sti`), and everything else relies on the gates having cleared IF;
- programs nest: `execute` suspends its caller inside the kernel, and `halt` has
  to put back stack, PCB, page and registers;
- nearly all state is global (`parent_pid`, `arg_buf`, `directory_location`,
  `interrupt_flag`, `enter_pressed`, one line buffer) and shared by all programs;
- the devices are programmed by sequences of port accesses that an interrupt
  must not split, and the clock stops for good if one edge is lost.

## Inventory

| part | source | state | operations | interacts with |
|---|---|---|---|---|
| system calls, processes | `syscall.c`, `SYS_assembly_linkage.S` | `process[]`, `parent_pid`, `arg_buf`, a PCB at the bottom of a kernel stack, `tss` | `execute`, `halt`, `read`, `write`, `open`, `close`, `getargs`, `vidmap` | everything below |
| file system | `file_system.c` | the read-only image, `directory_location`, positions in the PCB | `read_dentry_by_name`, `read_data`, `file_*`, `dir_*` | called through descriptors and by `execute` |
| keyboard, terminal | `int_handler.c` | modifier flags, `typed_buf`, `cur_index`, `terminal_buf`, `written_size`, `enter_pressed` | `keyboard_int`, `terminal_read`, `terminal_write` | the handler interrupts the reader; both print |
| console | `lib.c` | `screen_x`, `screen_y`, video memory | `putc`, `clear` | the terminal, `printf` |
| clock | `rtc.c`, `RTC_int` | the chip's registers, `interrupt_flag` | `init_rtc`, `rtc_open/close/read/write`, `change_flag` | the handler wakes the reader; masks are shared |
| interrupt controllers | `i8259.c` | `master_mask`, `slave_mask`, requests and levels in service | `i8259_init`, `enable_irq`, `disable_irq`, `send_eoi` | clock and keyboard |
| IDT, exceptions | `idt.c` | 256 gates, constant after boot | `fill_idt`, `init_idt`, handlers that print and loop | every way into the kernel |
| linkage | `assembly_linkage.S`, `SYS_assembly_linkage.S` | frames on the kernel stack | saving and restoring registers and flags | gates, handlers, `context_switch` |
| paging | `paging.c` | page directory entries 32 and 33 | `execute_paging`, `vidmap_paging` | `execute`, `halt`, `vidmap` |
| start | `kernel.c`, `boot.S` | what is set up so far, IF | `entry`: tables, devices, `sti`, `clear`, `execute("shell")` | all |

What makes each of them correct: programs and the kernel agree on whose page,
PCB and registers are in use; descriptors of one program are not disturbed by
calls of another; a reader returns what was typed and returns at all; the cursor
stays on the screen and the screen shows the line; the clock driver accesses the
register it means, never loses the interrupt line and ends every interrupt on
both controllers. `PROJECT.json` lists the places where each of these could go
wrong (`hazards`), with the properties that watch them.

## Modules

```
module                 for TLC       proofs                              implements
FileSystem                           FileSystemProofs ─┐
 └─ Syscalls           MCSyscalls    SyscallsProofs ───┴ DescriptorProofs DescriptorTable, ClockWait
Terminal               MCTerminal    TerminalProofs                      LineInput
Rtc                    Rtc           RtcProofs                           ClockWait
Names                  MCNames       NamesProofs
Idt
 └─ Kernel             Kernel        KernelProofs
                                     Induction, used by FileSystemProofs, NamesProofs
```

**FileSystem** (`file_system.c`). The image is a set of constants: the slots of
the directory, how many of them are entries, inodes with their block numbers, the
number of data blocks. `NamesFound` is `read_dentry_by_name` on whole names. It
compares all slots, not only the first `dir_count`, so a file whose name is left in
a later slot is found though no listing shows it; a slot may also have a type that
`open` does not know. `ReadData` is the value
`read_data` returns, with its checks of the block numbers; an index past the end
of an inode's array reads the inode behind it (`data_block_number`). `Copied` is
what the three loops of `read_data` write: for every byte its place in the buffer
and the block and byte it comes from. A byte of a file is known by its place in
the image, so no contents are needed. An image with damaged inodes is allowed:
`read_data` checks for it.

**Syscalls** (`syscall.c` with what it calls). One action per call and per way it
can end. `execute` has four: rejected, no slot, load failed, started. A call is
one step because the gate clears IF, except that `terminal_read` and `rtc_read`
are a step up to their loop and a step from it. The variables follow the code's
names. `tss_esp0` is the stack a call enters on, so `pcb[tss_esp0]` is what
`get_pcb` finds. `tss_esp` is the field `context_switch` stores into, which the
processor does not read. `trap[s]` says whose user registers are in the frame at
the top of stack `s`; `halt` returns through the frame of its parent, which later
calls on the same stack have overwritten. `WildCall` covers descriptor `MAXFILE`,
which the range checks let through: the words after `file_array` in the PCB are
read as a descriptor. `launched` is a history variable.

**Names** (`parse`, `read_dentry_by_name`, `dir_read`, and `strncmp`, `strncpy`,
`strlen` of `lib.c`). What Syscalls takes as whole names, character by character:
commands are cut into name and arguments, names that fill their field have no
terminator, and a directory read counts what it finds in the caller's buffer.
`Turns` is the loop of `parse`, a function from the number of characters read to
the loop's variables. Where `strlen` finds no terminator it goes on in the caller's
memory; the module stops at the end of its buffer. `CountsName` says what is counted
in every case: a name that is shorter than what was asked for, or else everything up
to the next zero, whatever earlier reads left there. `Readers` are descriptors that
are opened on the directory; all of them move the one `directory_location`. `began`
and `listed` are history variables: where a reader began, and who was given which
name since a read last returned none.

**Terminal** (`int_handler.c`, `putc` and `clear` of `lib.c`). `screen` holds
every cell and the cursor, so the properties are about what the user sees.
`keyboard_int` is one step per key; scan codes from 0x3B up do nothing, hence the
branch for the release of Enter never runs and is not an action (it is a mutant).
`terminal_read` takes one step per byte, because keys interrupt it. The three
steps of `clear` in `entry` are separate, because IF is already set; the loop over
the cells is one of them, so a key comes before it or after it and not between two
cells. A write of n
bytes is n steps of one character, which adds keys between them that the code
does not have; the properties hold nevertheless. `entered_since`, `line_size` and
`apart` are history variables; `apart` says that something moved the cursor away
from the typed line since it was begun.

**Rtc** (`rtc.c`, `i8259.c`, `RTC_int`). A routine is the sequence of port
accesses it makes (`todo`); devices move between any two of them. The clock and
the two controllers are hardware and are modelled from how the code uses them:
these are the definitions `map` marks external.

**Idt** (`idt.c`) has the 256 gates `fill_idt` and `init_idt` make, and what the
processor does with a gate. **Kernel** executes: the steps of `entry` and of its
`execute("shell")`, then programs, their calls, the two waiting reads, the device
handlers and the exception handlers, one on top of the other on the kernel's
stack (`frames`), with IF and the flags each frame gives back. It says nothing of
what calls and handlers do. It shows what the other modules take for granted:
that a call is one step, and in which places a handler can come in between.
`After` is what each step of `entry` leaves set up, `Addresses` what a piece of
code may touch; what is not mapped faults. `multiboot` is what the boot loader passes
and what is wrong with the image: no module, no shell, or a shell `read_data` cannot
load, in each of which `execute` returns to `entry`'s loop.

Of the console Kernel has only where the cursor is (`cursor`): in the typed line,
astray, or off the screen. A program that prints backspaces leads it astray, and so
does a key that is echoed before `entry` has cleared the screen or in the middle of
`putc` of an exception handler; the next erase may then move it off the top. The write
there faults, and so does the write of every character after it. `Page_Fault` prints,
so it faults in its own `printf`, again and again, until the kernel's stack is full and
the machine resets. The properties say so: `ResetOffScreen`, and the second cases of
`NestingBounded` and `CallsRunAlone`.

The state modules share `interrupt_flag` and `enter_pressed` only. Syscalls has
both, set by one-step handlers; Terminal and Rtc have what happens around one of
them in smaller steps.

### What is promised, and implemented

Three small specifications say what a program can rely on, without the code's
data structures. Each is a PROPERTY of the module that implements it, under a
refinement mapping stated there.

- **DescriptorTable**, by Syscalls (`ImplementsTable`). A table of open files. A
  descriptor is opened only while closed and starts at 0, keeps its file until it
  is closed, and only its own reads move it. There is one table, and the end of
  any program closes all of it: this is what the shared PCB makes of the
  descriptors of nested programs. The mapping takes an open descriptor with
  operations as an entry; `DescriptorTable` allows a position to go anywhere in a
  read, because a damaged file moves it back by one.
- **ClockWait**, by Syscalls and by Rtc (`ImplementsClock` in each). Ticks set a
  flag while not masked; a reader waits for one that comes after its call.
- **LineInput**, by Terminal (`ImplementsLines`). A line editor and a reader. A
  key never disturbs a reader, except Enter while bytes are copied. Then the
  reader gets as many bytes as it was going to get, but anything in them: this is
  the one promise the code does not keep, and it is stated as such.

## Runs

All of these pass; `tlc -config <name>.cfg <module>` runs them.

| run | module | states | shows |
|---|---|---|---|
| `processes` | MCSyscalls | 366,464 | three slots, two programs and a damaged one, RAM of either value at boot: page, PCB and slots agree in every order of execute, failed load, refusal and halt; no image is overwritten; the kernel is lost only by a halt or through what RAM or a halt left in the PCB |
| `descriptors` | MCSyscalls | 167,712 | two nested programs, two free descriptors each, files, directory and clock, a file in a slot past the entries and one of an unknown type: the calls implement DescriptorTable and ClockWait, every read delivers the bytes of the file, both waiting reads are woken |
| `console` | MCTerminal | 837,354 | with program output, reads and Ctrl-L, the cursor stays on the screen, the screen shows the line, and reads complete |
| `lines` | MCTerminal | 613,256 | reads torn by keys at any byte, two modifiers, keys before the first `clear`: the handler and the reader implement LineInput |
| `clock` | Rtc | 154,552 | every interleaving of ticks and keys with the port accesses of boot, calls and handlers, which implement ClockWait |
| `names` | MCNames | 45,435 | every command of up to three characters and some longer, every name of up to three, two readers of the directory with reads of two sizes in between: what is looked up, passed on, counted and listed |
| `kernel` | Kernel | 4,761 | every multiboot magic, flags, module and image, interrupts from `sti` on, programs using four vectors, the cursor led off the screen: no reset before that, calls and handlers run alone, the shell starts if it can be loaded |

And these show where the code does not do what its comments say:

| run | comment | what happens |
|---|---|---|
| `halt_returns` | `syscall.c:240` "after the halt, it return back to its parent" | the stack of the child was stored in `tss.esp` instead of `tss.esp0`; the parent's frame holds the child's registers by then |
| `slots_exhausted` | `syscall.c:310` "get the first available process" | slots are never given back |
| `getargs_stale` | `syscall.c:364` "get the argument read from the command" | a refused `execute` replaces the caller's arguments |
| `rtc_closed_elsewhere` | `rtc.c:59` "spin until the interrupt occurred" | closing another clock descriptor masks IRQ 8 |
| `empty_line` | `int_handler.c:232` "number of bytes read from terminal" | Enter on an empty line returns the previous line again |

Other such places have no run of their own. They are in the model, and the
properties are stated around them:

- `entry` sets IF before it clears the screen. A line that is typed in between is no
  longer on the screen, and erasing it may run over its top, where the write faults.
  `lines` runs with such keys, and its properties are stated so that they hold with
  them (`EraseStops` of LineInput, `apart`); `CursorOnScreen` in `console` needs
  `EarlyKeys = FALSE`; `kernel` has what the fault leads to.
- `syscall.c:364` and `:460` speak of the argument of a command. `parse` lays several
  words over each other in one buffer, and a name of more than 32 characters loses its
  arguments. `HoldsArguments` is about commands with a whole name and at most one
  argument.
- `file_system.c:95` speaks of the offset of the file that is read, but all descriptors
  on the directory share one position: a second reader gets what the first has left.
  `ListsDirectory` is about what the readers get together.

### Bounds

- `NPROC` is 3 or 2 for 6: a chain of three programs has a first, a middle and a
  last; slots run out and are refused.
- `MAXFILE` is 3 or 4 for 8: one or two descriptors besides 0 and 1. Two are
  needed for `open` to have a choice and for closing one clock descriptor under
  the other.
- Blocks have 4 bytes for 4096 and inodes 3 block numbers for 1023. The files are
  empty, end at a block's end, and one or two bytes into a later block; reads of 3
  bytes end before, at and after each. `ReadsFileBytes` looks at reads of up to
  two blocks and a byte from every position that is reached: within a block, over
  one boundary, over a whole block.
- `U32` is 64 for 2^32: larger than every file, so a position wraps exactly when
  the code's does, by a -1 added to a small position.
- `MaxSpill` bounds the writes past `process[]`; each further one changes one more
  word of the memory behind the array, which is not modelled.
- `BUF_SIZE` is 3 or 4 for 128 and the screen 2x2 or 2x3 for 25x80. A line wraps,
  scrolls and fills the buffer. As in the code, a whole line fits the screen
  above the last row. Initially the cursor is anywhere. `console` has one
  character and Ctrl, `lines` Shift and Caps Lock, so that every case of the
  upper and lower case tables occurs.
- `MaxOpens` is 2 in Rtc: closing one of two descriptors. `Rates` are all ten.
- The directory has 3 entries (`dir_count`). Behind them are slots for each thing a
  slot can be: empty, left over from a file, of an unknown type.
- Names have up to 2 characters for 32, one fills its field and one begins
  another. Argument buffers have 6 bytes, as many as the longest command. The caller's
  buffer has 3, one more than a name, so that there is something behind a name that
  fills its field. Two readers of the directory are enough for one to begin in the
  middle of what the other lists.
- `MaxFrames` is 6 in Kernel: four frames are needed (`NestingBounded`), and two more
  for `Page_Fault` to repeat before the stack is full. The code's 8 KB hold far more,
  which changes only how often it repeats. `IntN` has a vector of each kind: an exception, a
  device, one that is not present, and the system call.

### Fairness

No fairness is assumed of users and programs: they may stop typing and calling.
`FairSpec` of Syscalls has the clock go on ticking and a spinning read see its
flag, which holds because nothing else runs. `FairSpec` of Terminal has
`terminal_read` go on between keys. `FairSpec` of Rtc has the clock tick and the
processor run; delivery of the clock's interrupt is strongly fair because the
controllers keep a latched request. There, keys have priority, so
`EnabledReaderWakes` assumes `TypistPauses`: infinitely often no key is pending
when an interrupt could be taken. `FairSpec` of Kernel has `entry` and handlers
get on whenever they can again and again: a handler takes far less than the time
between two ticks.

`CHECK_DEADLOCK FALSE` is used where the machine can really stop: after a jump to
an address the code does not control, in an exception handler's loop with IF
clear, after a reset or a write below video memory, and in the loops `entry` and
`boot.S` end in.

## Proofs

Every theorem holds for every value of the constants that the module's `ASSUME`
admits; where it needs more, its statement says so (`ASSUME ... PROVE`).

| module | theorems | needs |
|---|---|---|
| SyscallsProofs | `TypeCorrect`, `ProcessesSafe`, `PageAlwaysMatches`, `NeverOnKernelPage`, `SlotsAlwaysInOrder`, `TableImplemented`, `ClockImplemented` | |
| | `EnteredLineEndsRead`, `UnmaskedReaderWoken` | fairness, steps enabled |
| FileSystemProofs | `ReadDelivers`, `ReadsWholeFile` | `Fits` of the file read |
| DescriptorProofs | `StdioCorrect`, `ImagesCorrect`, `LostCorrect`, `SoundFilesInside`, `DescriptorsKept` | |
| | `OrderedIsSound` | `InOrder` of the file |
| | `PositionsCorrect`, `DescriptorsStable` | `Undamaged` |
| | `ReadsCorrect` | `FilesFit` |
| TerminalProofs | `TypeCorrect`, `NoErasedBytesCorrect` | |
| | `EchoCorrect` | `LineFits` |
| | `CursorCorrect` | `LineFits`, no `EarlyKeys`, no `Backspace` in `Output` |
| | `LinesImplemented` | no `Backspace` in `Output` |
| RtcProofs | `TypeCorrect`, `SelectedCorrect`, `BitsCorrect`, `NoEdgeLost`, `InServiceCorrect`, `ClockImplemented` | |
| | `EnabledReaderWoken` | fairness, steps enabled |
| KernelProofs | `TypeCorrect`, `NeverResets`, `CallsAlone`, `NestingCorrect`, `ProgramsCorrect`, `OnlyDevices` | |
| | `ShellReached` | fairness, steps enabled |
| NamesProofs | `ListingComplete`, `CountCorrect`, `LooksUpCorrect`, `ArgumentsCorrect`, `LookupAbstracts` | |

The extra assumptions:

- `Fits`: the inode does not say its file is longer than its array of block
  numbers; `FilesFit` says so of all. Without it `read_data` reads block numbers
  from the next inode.
- `Sound`: `read_data` never returns -1 for the file, wherever it is read. A
  position moves back by one otherwise (`file_read` adds the result without looking
  at it). `Undamaged` says so of every file the directory lists, and the image of
  the run `descriptors` satisfies it. `OrderedIsSound` gives a criterion to check an
  image by (`InOrder`): all block numbers in range, and the file shorter than its
  array by the longest read, because `read_data` checks the block of the last byte
  asked for before it cuts the read at the end of the file.
- Steps enabled: fairness speaks of ENABLED, for which the prover has no rules. The
  theorems under fairness assume, in definitions of their own (`LineEnabled`,
  `WakerEnabled`, `WokenEnabled`, `TickEnabled`, `InterruptEnabled`, `ReturnEnabled`,
  `StepEnabled`), that a step whose guard holds can be taken. Each of these actions
  gives every variable its next value behind that guard, and changes one, so they
  hold in every reachable state, as can be read off the action. Everything else
  about the leads-to is proved.
- `LineFits`: a full line fits above the last row of the console: 127 characters
  and 24 rows of 80 in the code.
- `EarlyKeys`: keys before `entry` has cleared the screen, and `Output`, the
  characters programs print: a key before the clear, or a printed backspace, can
  move the cursor off the screen. The code does not prevent either.

### Processes and descriptors

None of the three safety properties in `ProcessInv` is inductive. That the page
matches the PCB after a `halt` needs `OneStack`: `tss_esp0` never changes, so the
PCB that is changed is the PCB the next call finds. That no program runs on the
kernel's page needs `ParentHasSlot`: when a halt returns to a program, the parent
in the PCB was given a slot. This holds because `execute` records `parent_pid`,
which by `SlotsInOrder` is a taken slot as soon as any program runs, which by
`NoProgramOnKernelPage` is the case whenever a program is the caller; entry's own
call is the exception, and `NothingBeforeBoot` says that no frame is saved then.
`KeepsProcesses` states what all other steps leave alone, so that they need one
argument together.

The two refinements have one lemma per call. `TableImplemented` needs `ProcessInv`
for `halt` only: with one stack the PCB whose flags are cleared is the one whose
table is seen afterwards. `ClockImplemented` needs that the flag is 0 or 1.

DescriptorProofs rests on one observation (`StepChange`): every step changes the
descriptors of the PCB in one of six ways, so each property is proved six times
instead of once per action. `PositionsCorrect` strengthens the property to closed
descriptors (`PositionInv`), so that it does not depend on which steps open one.
`ImagesCorrect` adds that nothing is in the frame of a free slot. `LostCorrect` goes
through the calls once more: each of them but halt keeps the words behind the PCB's
array at 0 and gives whatever is open its operations (`NothingLeft`), and from there
none of them leads the machine astray (`NothingLeftStep`).

None of the invariants speaks of undamaged images: `PositionInv` bounds the
positions in sound files whatever the others do, which gives `SoundFilesInside` and
`DescriptorsKept` for every image; `PositionsCorrect` and `DescriptorsStable` are
what these say when all files are sound.

The two reads come to an end: in their loops only interrupts happen, and a flag
that is set stays set until the read takes it (`SpinKept`). So a waiting clock read
stays waiting until the tick, which fairness brings, and is told until it returns.

`ReadDelivers` is arithmetic: `Division` and `OneBlock` say in which block a byte
of the file lies, `CopiedInOne` and `CopiedInMore` what the three loops write when
the read stays in a block and when it does not, `SumInFile` that the loops' sum
never passes the end of the file. `ReadsWholeFile` follows a series of reads of any
length: positions only rise (by induction over the reads), so the least read that
gets beyond a byte is the only one that returns it.

### Terminal

`TypeInv` adds that a cursor off the screen stops the machine. `EchoMatchesLine`
is inductive with it, given that a line never scrolls off (`LineFits`).
`CursorOnScreen` is not: `RoomToErase` says that at least as many cells are before
the cursor as characters are typed, so no backspace can pass the first row. The
line buffers have `LineInv`: what is in them below their lengths was typed, and a
copy that Enter has not torn has copied bytes of the entered line. The refinement
follows from it, one step of LineInput or a stutter for each key and each byte.

### Clock and controllers

`RtcInv` looks at the accesses left in `todo`. `Placed`: each access to the data
port stands behind the selection of its register, each write behind a read of the
same register; the first one or two of what is left find the register selected
and the byte read. This is inductive because a handler starts on an empty `todo`
only. `Registered` are the bytes the registers can hold, `Serving` that a handler
has an end of interrupt left for each level in service, `Flagging` that only a
handler sets the flag and only with IRQ 8 enabled, which is what `ClockWait`
needs. `NoLostEdge` is inductive given that the first access of a boot finds the
clock's interrupt disabled. The lemmas before it show, routine by routine, that
what the code writes into `todo` begins placed.

`EnabledReaderWoken` follows a reader through four states: no edge yet (`Waits`),
an edge latched by the controllers (`Latched`), the handler running with the flag's
setting still left to do (`Pending`), the flag set (`Told`). That a waiting reader
is in one of them needs `NoEdgeLost`: a clock whose C still holds an edge would
never raise its line again. That the latched request is delivered when no key is
pending needs `Wired`: the slave's requests reach the master through IRQ 2, which
stays unmasked, and the reader's IRQ 8 is unmasked as long as it waits.

### Start and nesting

`KernelInv`: the pieces of code have four ranks (programs and the code of `entry`,
calls, exceptions, device handlers), and code of a higher rank runs on top of code
of a lower one only (`Stacked`), except that a call or a handler which faults runs
its exception on top of it, with IF clear (`OnTop`), and that with the cursor off the
screen exceptions follow exceptions. What has interrupted a call or a handler is
exceptions only, up to the top of the stack (`Alone`). With four ranks there are at
most four frames (`Shallow`), which is why `KernelAssumption` asks for room for four;
the stack can only be full with the cursor off the screen. `Prepared` says what is set
up at each step of `entry`; since IF is set after all of it, nothing is delivered
before.

`ShellReached` climbs a ladder of 18 stages, the 13 steps of `entry` and the 5 of its
`execute`. In each of them the next step is due, or waits under one handler that will
return to it (`HandlerToStart`); a step takes the start to the next stage
(`EntryAdvances`, `ExecuteAdvances`), and nothing else leaves it but a key that moves
the cursor off the screen (`StageKept`). A stage also says that the image has been
found so far, which is why its look-up cannot fail. The program's page is mapped by the
time it is written, so the load cannot fault; that `read_data` loads all of the shell
is a hypothesis of `ShellStarts`.

### Names

`ListingInv`: what was listed since the last end are the entries before the
position, each given to a reader that had begun by then. `CountCorrect` follows the
copy and the count byte by byte: `StrlenIs` says what the count is of any buffer,
`CopyCounts` what it is behind a copied name.

`parse` and the look-up are followed by induction (module Induction: a set of numbers
that has 0, and n + 1 whenever it has n, has all of them; stated of sets because the
prover cannot instantiate the library's theorems, which are about predicates).
The invariant of the loop of `parse` says, after n characters, where the last space
was, that the name is what came before the first space, cut to 32 bytes, and that each
byte of the argument buffer is that of the last word so far that is long enough to
reach it. `ArgumentsCorrect` is this after the last character, for a name that was
not cut and one word (`OneArgument`), and that `execute` clears the buffer first. `LooksUpCorrect` adds that `strncmp` of a string
and a name, up to the terminator or 32 bytes, is equality of the name with the string
cut to 32 bytes. `LookupAbstracts` ties this to the other modules: FileSystem's
comparison of whole names finds what the comparison of bytes finds, in all slots.

### Only model-checked

- `ReadCompletes`: the copy takes one step per byte, so it needs an induction over
  the bytes left in which each step is a leads-to. The prover's temporal logic is
  propositional, and a temporal fact with a parameter cannot be instantiated.
- That the steps under fairness are enabled when their guards hold (above).

## Assumptions about the machine

- PCB memory has the values of `BootRam` before the first `execute`, and no
  operations in it.
- Programs pass valid pointers, or pointers the calls refuse; reads are shorter
  than the program page.
- The frame `entry` saved lies on stack 0 where later calls write: a halt of the
  first program ends in `entry`'s loop, with IF clear, or anywhere (`stopped`,
  `lost`).
- The BIOS leaves the clock's registers at A = 0x26 and B = 0x02.
- Between two Enters during a copy a compiler may read `written_size` only once,
  as the code does.
- Equal string literals of `syscall.c` are one object, as compilers make them:
  `open("stdin")` in `execute` is recognised by its address.
- Kernel: nothing but IRQ 1 and 8 interrupts (no spurious request, no NMI), and the
  kernel itself raises no exception but page faults.

## Plan

Done: all modules above, their runs and their proofs.

Next:

1. Names with commands longer than the buffers of `parse`, as a program may pass
   them, once the memory behind those buffers is modelled.
2. `LinesImplemented` for programs that print backspaces, with the erased cells of
   LineInput stated as what the program made of them.

## Not modelled

- `printf`, `itoa`, `strrev` and the wording of messages: sequential, pure, and no
  state depends on them. `memset`, `memcpy`, `memmove`, `strcpy`, `puts`: their
  effect where they are called is part of the caller's action, or nothing calls
  them.
- Segment descriptors and the assembler part of the boot code beyond the state
  `entry` starts in: straight-line set-up.
- The VGA cursor registers, which are only written.
- The memory behind arrays: what the write past `process[]` or a command longer
  than 128 characters overwrites depends on the layout the linker chooses.
- `tests.c` (not called), `read_dentry_by_index`, `enable_paging`,
  `disable_paging` (not called), the debugging script and the images.
- Registers other than as whole frames; the contents of files other than by their
  place.
