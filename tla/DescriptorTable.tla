--------------------------- MODULE DescriptorTable ---------------------------
(***************************************************************************)
(* What the descriptor calls promise a program, whatever the layout of a   *)
(* PCB: a table of open files.  A descriptor is opened only while it is    *)
(* closed, keeps its file until it is closed, and starts at position 0; a  *)
(* read moves the position of its own descriptor by the count it returns.  *)
(* There is one table, and the end of any program closes all of it.        *)
(***************************************************************************)
EXTENDS Integers

CONSTANTS
  Table,      (* the descriptors open gives out                            *)
  Files,      (* what can be opened                                        *)
  NotOpen,
  U32         (* the positions there are                                   *)

VARIABLE file (* descriptor -> [what, file_pos] or NotOpen                 *)

Init == file = [fd \in Table |-> NotOpen]

OpenFile(fd, what) ==
  /\ file[fd] = NotOpen
  /\ file' = [file EXCEPT ![fd] = [what |-> what, file_pos |-> 0]]

CloseFile(fd) ==
  /\ file[fd] # NotOpen
  /\ file' = [file EXCEPT ![fd] = NotOpen]

(* The position moves by the count the read returns, which is -1 when the  *)
(* file is damaged: back, and from 0 to the last position there is.        *)
ReadFile(fd) ==
  /\ file[fd] # NotOpen
  /\ file'[fd].file_pos \in 0 .. U32 - 1
  /\ file' = [file EXCEPT ![fd] = [@ EXCEPT !.file_pos = file'[fd].file_pos]]

EndProgram == file' = [fd \in Table |-> NotOpen]

Next ==
  \/ \E fd \in Table :
       \/ \E what \in Files : OpenFile(fd, what)
       \/ CloseFile(fd)
       \/ ReadFile(fd)
  \/ EndProgram

Spec == Init /\ [][Next]_file

=============================================================================
