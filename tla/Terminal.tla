------------------------------ MODULE Terminal ------------------------------
(***************************************************************************)
(* The terminal: the keyboard interrupt handler with its line buffers, the *)
(* reads and writes of one program, and the text console they print on.    *)
(*                                                                         *)
(* keyboard_int and terminal_write run with IF clear, so each is one step. *)
(* terminal_read sets IF: the handler may run between any two of its       *)
(* steps, the copy of single bytes included.  entry sets IF before it      *)
(* clears the screen, so the handler may run between those steps too.      *)
(***************************************************************************)
EXTENDS Integers, Sequences

CONSTANTS
  BUF_SIZE,                (* bytes of a line buffer; 128 in the code      *)
  NUM_ROWS, NUM_COLS,      (* the console; 25 rows of 80 in the code       *)
  Keys,                    (* the scan codes of the character keys         *)
  Lower_case, Upper_case,  (* scan code -> character                       *)
  Alphabetic,              (* the scan codes of the letters a to z         *)
  KeyL,                    (* the scan code of the letter l                *)
  Modifiers,               (* the modifier keys the user has               *)
  Output,                  (* the characters programs print                *)
  Sizes,                   (* the byte counts of terminal_read             *)
  EarlyKeys                (* whether keys come before the screen is clear *)

AllModifiers == {"ctrl", "left_shift", "right_shift", "alt", "cap"}

ASSUME TerminalAssumption ==
  /\ BUF_SIZE \in Nat \ {0}
  /\ NUM_ROWS \in Nat \ {0} /\ NUM_COLS \in Nat \ {0}
  /\ Alphabetic \subseteq Keys /\ KeyL \in Alphabetic
  /\ Modifiers \subseteq AllModifiers
  /\ Sizes \subseteq Nat
  /\ EarlyKeys \in BOOLEAN

Nul       == "nul"
Blank     == " "
NewLine   == "newline"
Backspace == "backspace"

Chars == { Lower_case[k] : k \in Keys } \union { Upper_case[k] : k \in Keys }
           \union Output \union {Nul, Blank, Backspace}

(* No table holds a newline: Enter is a key of its own.                    *)
ASSUME KeyAssumption ==
  \A k \in Keys : {Lower_case[k], Upper_case[k]} \cap {Nul, NewLine, Backspace} = {}

VARIABLES
  modifiers,      (* the ..._pressed flags that are set                    *)
  typed_buf,      (* the line being typed                                  *)
  cur_index,      (* its length                                            *)
  terminal_buf,   (* the line entered last that was not empty              *)
  written_size,   (* its length                                            *)
  enter_pressed,
  screen,         (* the cursor screen_x, screen_y and the cells of video  *)
  cpu,            (* what the processor executes: a member of CpuModes     *)
  nbytes,         (* terminal_read's argument                              *)
  result_size,    (* its number of bytes                                   *)
  i,              (* its loop index                                        *)
  buf,            (* the caller's buffer                                   *)
  entered_since,  (* history: Enter was pressed since result_size was set  *)
  line_size,      (* history: the length of the line Enter ended last      *)
  apart           (* history: the cursor left the end of the typed line    *)

keyVars    == <<modifiers, typed_buf, cur_index, terminal_buf, written_size,
                entered_since, line_size>>
readVars   == <<nbytes, result_size, i, buf>>
vars == <<keyVars, apart, enter_pressed, screen, cpu, readVars>>

BufIndex == 0 .. BUF_SIZE - 1
Cells    == 0 .. NUM_ROWS * NUM_COLS - 1

(* The steps of entry, of a program and of terminal_read.  "fault" is the  *)
(* page fault of a write below video memory: the handler loops.            *)
BootModes == {"clear_video", "clear_x", "clear_y"}
CpuModes == BootModes \union {"user", "spin", "copy", "fault"}

-----------------------------------------------------------------------------
(* The console: putc and clear of lib.c on a screen s.                     *)

Cursor(s) == NUM_COLS * s.y + s.x

WithCell(s, c) == [s EXCEPT !.video = [p \in Cells |-> IF p = Cursor(s) THEN c ELSE @[p]]]

(* Past the last row everything moves up one row.                          *)
LineFeed(s) ==
  IF s.y + 1 # NUM_ROWS THEN [x |-> 0, y |-> s.y + 1, video |-> s.video]
  ELSE [x |-> 0, y |-> s.y,
        video |-> [p \in Cells |-> IF p + NUM_COLS \in Cells
                                   THEN s.video[p + NUM_COLS] ELSE Blank]]

(* A mutant: the cursor stays in its row.                                  *)
StepBack_SameRow(s) == IF s.x > 0 THEN [s EXCEPT !.x = @ - 1]
                       ELSE [s EXCEPT !.x = NUM_COLS - 1]

(* Back over the left margin of the first row the cursor leaves the screen *)
StepBack(s) == IF s.x > 0 THEN [s EXCEPT !.x = @ - 1]
               ELSE [x |-> NUM_COLS - 1, y |-> s.y - 1, video |-> s.video]

Put(s, c) ==
  CASE c = NewLine   -> LineFeed(s)
    [] c = Backspace -> WithCell(StepBack(s), Blank)
    [] OTHER         -> LET w == [WithCell(s, c) EXCEPT !.x = @ + 1]
                        IN  IF w.x = NUM_COLS THEN LineFeed(w) ELSE w

OnScreen(s) == s.y \in 0 .. NUM_ROWS - 1 /\ s.x \in 0 .. NUM_COLS - 1

BlankVideo == [p \in Cells |-> Blank]

(* The typed line gets length n.  What is printed beside it and what moves *)
(* the cursor, leaves it behind until a new line begins.                   *)
LineGrows(n) == cur_index' = n /\ apart' = (apart /\ n > 0)
CursorLeaves == apart' = (cur_index > 0)

(* putc as part of a step that otherwise leaves the processor in mode m.   *)
Prints(c, m) ==
  /\ screen' = Put(screen, c)
  /\ cpu' = IF OnScreen(screen') THEN m ELSE "fault"

-----------------------------------------------------------------------------
(* entry has printed the boot information when it sets IF.                 *)
Init ==
  /\ modifiers = {} /\ enter_pressed = 0
  /\ typed_buf = [k \in BufIndex |-> Nul] /\ cur_index = 0
  /\ terminal_buf = [k \in BufIndex |-> Nul] /\ written_size = 0
  /\ screen \in [x : 0 .. NUM_COLS - 1, y : 0 .. NUM_ROWS - 1, video : {BlankVideo}]
  /\ cpu = "clear_video"
  /\ nbytes = 0 /\ result_size = 0 /\ i = 0 /\ buf = [k \in BufIndex |-> Nul]
  /\ entered_since = FALSE /\ line_size = 0 /\ apart = FALSE

(* The clear of entry, between whose steps IF is set.                      *)
BootStep(from, to, s) ==
  /\ cpu = from /\ cpu' = to
  /\ screen' = s
  /\ CursorLeaves
  /\ UNCHANGED <<keyVars, enter_pressed, readVars>>

ClearVideo == BootStep("clear_video", "clear_x", [screen EXCEPT !.video = BlankVideo])
ClearX     == BootStep("clear_x", "clear_y", [screen EXCEPT !.x = 0])
ClearY     == BootStep("clear_y", "user", [screen EXCEPT !.y = 0])

-----------------------------------------------------------------------------
(* keyboard_int                                                            *)

Interrupted ==
  \/ cpu \in {"user", "spin", "copy"}
  \/ cpu \in BootModes /\ EarlyKeys

Shifted == modifiers \cap {"left_shift", "right_shift"} # {}

(* Shift and Caps Lock undo each other for every key, digits included;     *)
(* Caps Lock alone is for the letters.                                     *)
Typed(k) ==
  IF Shifted
  THEN IF "cap" \in modifiers THEN Lower_case[k] ELSE Upper_case[k]
  ELSE IF "cap" \in modifiers /\ k \in Alphabetic THEN Upper_case[k] ELSE Lower_case[k]

(* A modifier is pressed or released; Caps Lock changes when pressed.      *)
ModifierKey(m) ==
  /\ Interrupted
  /\ \/ m # "cap" /\ modifiers' \in {modifiers \union {m}, modifiers \ {m}}
     \/ /\ m = "cap"
        /\ modifiers' = IF m \in modifiers THEN modifiers \ {m} ELSE modifiers \union {m}
  /\ UNCHANGED <<typed_buf, cur_index, apart, terminal_buf, written_size, entered_since,
                 line_size, enter_pressed, screen, cpu, readVars>>

(* A mutant: the length of the line is kept.                               *)
BackspaceKey_LengthKept ==
  /\ Interrupted
  /\ cur_index > 0
  /\ typed_buf' = [typed_buf EXCEPT ![cur_index - 1] = Backspace]
  /\ Prints(Backspace, cpu)
  /\ UNCHANGED <<cur_index, apart, modifiers, terminal_buf, written_size, entered_since,
                 line_size, enter_pressed, readVars>>

BackspaceKey ==
  /\ Interrupted
  /\ cur_index > 0
  /\ LineGrows(cur_index - 1)
  /\ typed_buf' = [typed_buf EXCEPT ![cur_index - 1] = Backspace]
  /\ Prints(Backspace, cpu)
  /\ UNCHANGED <<modifiers, terminal_buf, written_size, entered_since, line_size,
                 enter_pressed, readVars>>

(* An empty line leaves the buffer and the size of the line before it.     *)
EnterKey ==
  /\ Interrupted
  /\ terminal_buf' = IF cur_index # 0 THEN typed_buf ELSE terminal_buf
  /\ written_size' = IF cur_index # 0 THEN cur_index ELSE written_size
  /\ enter_pressed' = 1
  /\ LineGrows(0)
  /\ Prints(NewLine, cpu)
  /\ entered_since' = TRUE /\ line_size' = cur_index
  /\ UNCHANGED <<modifiers, typed_buf, readVars>>

(* A mutant: the line goes on after the screen is cleared.                 *)
ClearScreenKey_LineKept ==
  /\ Interrupted
  /\ "ctrl" \in modifiers
  /\ screen' = [x |-> 0, y |-> 0, video |-> BlankVideo]
  /\ UNCHANGED <<cur_index, apart, modifiers, typed_buf, terminal_buf, written_size,
                 entered_since, line_size, enter_pressed, cpu, readVars>>

ClearScreenKey ==
  /\ Interrupted
  /\ "ctrl" \in modifiers
  /\ LineGrows(0)
  /\ screen' = [x |-> 0, y |-> 0, video |-> BlankVideo]
  /\ UNCHANGED <<modifiers, typed_buf, terminal_buf, written_size, entered_since,
                 line_size, enter_pressed, cpu, readVars>>

(* The last byte of the buffer stays free: what would fill it is dropped.  *)
BufferFull_LastByteUsed == cur_index = BUF_SIZE     (* a mutant *)
BufferFull == cur_index = BUF_SIZE - 1

CharacterKey(k) ==
  /\ Interrupted
  /\ ~ (k = KeyL /\ "ctrl" \in modifiers)
  /\ ~ BufferFull
  /\ typed_buf' = [typed_buf EXCEPT ![cur_index] = Typed(k)]
  /\ LineGrows(cur_index + 1)
  /\ Prints(Typed(k), cpu)
  /\ UNCHANGED <<modifiers, terminal_buf, written_size, entered_since, line_size,
                 enter_pressed, readVars>>

(* A mutant: the branch for the release of Enter runs, which the check of  *)
(* the scan code before it never lets through.                             *)
EnterReleased ==
  /\ Interrupted
  /\ typed_buf' = [k \in BufIndex |-> Nul] /\ LineGrows(0)
  /\ enter_pressed' = 0
  /\ UNCHANGED <<modifiers, terminal_buf, written_size, entered_since, line_size,
                 screen, cpu, readVars>>
keyboard_int_Release ==
  \/ \E m \in Modifiers : ModifierKey(m)
  \/ BackspaceKey \/ EnterKey \/ EnterReleased \/ ClearScreenKey
  \/ \E k \in Keys : CharacterKey(k)

keyboard_int ==
  \/ \E m \in Modifiers : ModifierKey(m)
  \/ BackspaceKey \/ EnterKey \/ ClearScreenKey
  \/ \E k \in Keys : CharacterKey(k)

-----------------------------------------------------------------------------
(* The program                                                             *)

(* One character of a terminal_write: the bytes of a longer one follow     *)
(* each other with no key in between, as those of several calls may.       *)
terminal_write(c) ==
  /\ cpu = "user"
  /\ Prints(c, "user")
  /\ CursorLeaves
  /\ UNCHANGED <<keyVars, enter_pressed, readVars>>

(* terminal_read sets IF and spins on enter_pressed.                       *)
terminal_read(n) ==
  /\ cpu = "user" /\ cpu' = "spin"
  /\ nbytes' = n
  /\ UNCHANGED <<keyVars, apart, enter_pressed, screen, result_size, i, buf>>

(* The loop ends and the size is read; a key between the two might as well *)
(* have come before them.                                                  *)
TakeSize ==
  /\ cpu = "spin" /\ enter_pressed # 0
  /\ result_size' = IF nbytes < written_size THEN nbytes ELSE written_size
  /\ i' = 0
  /\ cpu' = "copy"
  /\ entered_since' = FALSE
  /\ UNCHANGED <<modifiers, typed_buf, cur_index, apart, terminal_buf, written_size,
                 line_size, enter_pressed, screen, nbytes, buf>>

(* A mutant: the bytes come from the line being typed.                     *)
CopyByte_Typed ==
  /\ cpu = "copy" /\ i < result_size
  /\ buf' = [buf EXCEPT ![i] = typed_buf[i]]
  /\ i' = i + 1
  /\ UNCHANGED <<keyVars, apart, enter_pressed, screen, cpu, nbytes, result_size>>

CopyByte ==
  /\ cpu = "copy" /\ i < result_size
  /\ buf' = [buf EXCEPT ![i] = terminal_buf[i]]
  /\ i' = i + 1
  /\ UNCHANGED <<keyVars, apart, enter_pressed, screen, cpu, nbytes, result_size>>

(* An Enter pressed during the copy is forgotten here.                     *)
ReadReturns ==
  /\ cpu = "copy" /\ i = result_size
  /\ enter_pressed' = 0
  /\ cpu' = "user"
  /\ UNCHANGED <<keyVars, apart, screen, readVars>>

-----------------------------------------------------------------------------
ReadStep == TakeSize \/ CopyByte \/ ReadReturns

Next ==
  \/ ClearVideo \/ ClearX \/ ClearY
  \/ keyboard_int
  \/ \E c \in Output : terminal_write(c)
  \/ \E n \in Sizes : terminal_read(n)
  \/ ReadStep

(* The kernel is the only code that runs in a read: it gets on with it     *)
(* between interrupts.                                                     *)
Spec == Init /\ [][Next]_vars
FairSpec == Spec /\ WF_vars(ReadStep)

-----------------------------------------------------------------------------
(* Properties                                                              *)

TypeOK ==
  /\ modifiers \subseteq AllModifiers
  /\ typed_buf \in [BufIndex -> Chars] /\ terminal_buf \in [BufIndex -> Chars]
  /\ cur_index \in 0 .. BUF_SIZE - 1 /\ written_size \in 0 .. BUF_SIZE - 1
  /\ enter_pressed \in {0, 1}
  /\ screen \in [x : 0 .. NUM_COLS - 1, y : -1 .. NUM_ROWS - 1, video : [Cells -> Chars]]
  /\ cpu \in CpuModes
  /\ nbytes \in Nat /\ result_size \in 0 .. BUF_SIZE - 1
  /\ i \in 0 .. result_size
  /\ buf \in [BufIndex -> Chars]
  /\ entered_since \in BOOLEAN /\ line_size \in 0 .. BUF_SIZE - 1
  /\ apart \in BOOLEAN

(* When no key comes before the screen is cleared and no program prints a  *)
(* backspace, the cursor never leaves the screen: the erasing of a typed   *)
(* line never runs over the top, wherever output, line wraps and scrolling *)
(* have moved the line.                                                    *)
CursorOnScreen == OnScreen(screen) /\ cpu # "fault"

(* What the user sees: the cells before the cursor show the line being     *)
(* typed, across wraps, scrolls, erasing and clearing, unless a program    *)
(* printed or entry cleared the screen since the line was begun.           *)
EchoMatchesLine ==
  ~ apart => \A k \in 0 .. cur_index - 1 :
    LET p == Cursor(screen) - cur_index + k
    IN  p \in Cells /\ screen.video[p] = typed_buf[k]

(* A read never returns an erased character: what Enter submits, and a     *)
(* read that is not torn copies, holds characters of the keys only.        *)
NoErasedBytes ==
  /\ \A k \in 0 .. written_size - 1 : terminal_buf[k] \notin {Backspace, Nul}
  /\ cpu = "copy" /\ ~ entered_since => \A k \in 0 .. i - 1 : buf[k] \notin {Backspace, Nul}

(* The buffers, indices and flags the handler and the read share implement *)
(* a line editor: whatever interrupts whatever, the reader gets the line   *)
(* entered last, or as many bytes as it has when Enter comes meanwhile.    *)
BufferLine(b, n) == [k \in 1 .. n |-> b[k - 1]]
Reader == CASE cpu = "spin"  -> "waiting"
            [] cpu = "copy"  -> "copying"
            [] cpu = "fault" -> "stopped"
            [] OTHER         -> "idle"

Lines == INSTANCE LineInput
  WITH Characters <- { Lower_case[k] : k \in Keys } \union { Upper_case[k] : k \in Keys },
       Anything   <- Chars,
       MaxLine    <- BUF_SIZE - 1,
       Counts     <- Sizes,
       line       <- BufferLine(typed_buf, cur_index),
       entered    <- BufferLine(terminal_buf, written_size),
       ready      <- enter_pressed = 1,
       reader     <- Reader,
       wanted     <- nbytes,
       size       <- result_size,
       intact     <- ~ (cpu = "copy" /\ entered_since),
       result     <- IF cpu \in {"copy", "fault"} THEN <<>> ELSE BufferLine(buf, result_size)
ImplementsLines == Lines!Spec

(* A read that finds Enter pressed completes, however many keys interrupt  *)
(* the copy.                                                               *)
ReadCompletes == (cpu = "spin" /\ enter_pressed = 1) ~> cpu = "user"

-----------------------------------------------------------------------------
(* What comments of the code say and the code does not do                  *)

(* terminal_read: "number of bytes read from terminal": a read returns no  *)
(* more bytes than the line that Enter has just ended has.                 *)
ReadsEnteredLine == cpu = "copy" /\ ~ entered_since => result_size <= line_size

=============================================================================
