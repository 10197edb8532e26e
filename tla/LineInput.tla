------------------------------ MODULE LineInput ------------------------------
(***************************************************************************)
(* What the keyboard and terminal_read promise a program, whatever the     *)
(* screen, the modifiers and the buffers: a line that is typed, a line     *)
(* that was entered, and a reader that waits for Enter and gets the        *)
(* beginning of the entered line.  A key never disturbs a reader, except   *)
(* Enter while its bytes are being copied: what it gets then is of the     *)
(* size it was going to get, and otherwise unspecified.                    *)
(***************************************************************************)
EXTENDS Integers, Sequences

CONSTANTS
  Characters,   (* what can be typed                                       *)
  Anything,     (* what a disturbed reader may find in its buffer          *)
  MaxLine,      (* the longest line                                        *)
  Counts        (* the byte counts of reads                                *)

VARIABLES
  line,         (* the line being typed                                    *)
  entered,      (* the line entered last that was not empty                *)
  ready,        (* Enter was pressed and no read has ended since           *)
  reader,       (* "idle", "waiting", "copying" or "stopped"               *)
  wanted,       (* the count of the read                                   *)
  size,         (* the bytes the reader is going to get                    *)
  intact,       (* no Enter was pressed while they are copied              *)
  result        (* what the last read got                                  *)

readVars == <<wanted, size, result>>
vars == <<line, entered, ready, reader, readVars, intact>>

Init ==
  /\ line = <<>> /\ entered = <<>> /\ ready = FALSE
  /\ reader = "idle" /\ wanted = 0 /\ size = 0 /\ intact = TRUE /\ result = <<>>

Type(c) ==
  /\ Len(line) < MaxLine
  /\ line' = Append(line, c)
  /\ UNCHANGED <<entered, ready, reader, readVars, intact>>

Erase ==
  /\ line # <<>> /\ line' = SubSeq(line, 1, Len(line) - 1)
  /\ UNCHANGED <<entered, ready, reader, readVars, intact>>

(* Erasing a line that is no longer on the screen may stop the machine.    *)
EraseStops ==
  /\ line # <<>> /\ line' = SubSeq(line, 1, Len(line) - 1)
  /\ reader' = "stopped" /\ intact' = TRUE
  /\ result' = <<>>
  /\ UNCHANGED <<entered, ready, wanted, size>>

Discard ==
  /\ line' = <<>>
  /\ UNCHANGED <<entered, ready, reader, readVars, intact>>

Enter ==
  /\ line' = <<>>
  /\ entered' = IF line = <<>> THEN entered ELSE line
  /\ ready' = TRUE
  /\ intact' = (reader # "copying")
  /\ UNCHANGED <<reader, readVars>>

Read(n) ==
  /\ reader = "idle" /\ reader' = "waiting"
  /\ wanted' = n
  /\ UNCHANGED <<line, entered, ready, size, intact, result>>

BeginCopy ==
  /\ reader = "waiting" /\ ready /\ reader' = "copying"
  /\ size' = IF wanted < Len(entered) THEN wanted ELSE Len(entered)
  /\ result' = <<>>
  /\ UNCHANGED <<line, entered, ready, wanted, intact>>

EndCopy ==
  /\ reader = "copying" /\ reader' = "idle"
  /\ ready' = FALSE
  /\ IF intact THEN result' = SubSeq(entered, 1, size)
               ELSE result' \in [1 .. size -> Anything]
  /\ intact' = TRUE
  /\ UNCHANGED <<line, entered, wanted, size>>

Next ==
  \/ \E c \in Characters : Type(c)
  \/ Erase \/ EraseStops \/ Discard \/ Enter
  \/ \E n \in Counts : Read(n)
  \/ BeginCopy \/ EndCopy

Spec == Init /\ [][Next]_vars

=============================================================================
