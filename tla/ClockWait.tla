------------------------------ MODULE ClockWait ------------------------------
(***************************************************************************)
(* The clock as its callers see it: ticks that set a flag while they are   *)
(* not masked, calls that mask and unmask them, and one reader at a time   *)
(* that waits for a tick that comes after its call.  Syscalls and Rtc both *)
(* implement it, the one with a call in one step, the other with every     *)
(* port access and every step of the handlers.                             *)
(***************************************************************************)
EXTENDS Integers

VARIABLES interrupt_flag, masked, waiting

vars == <<interrupt_flag, masked, waiting>>

Init == interrupt_flag = 0 /\ masked \in BOOLEAN /\ waiting = FALSE

Ticks ==
  /\ ~ masked
  /\ interrupt_flag' = 1
  /\ UNCHANGED <<masked, waiting>>

SetMask ==
  /\ masked' \in BOOLEAN
  /\ UNCHANGED <<interrupt_flag, waiting>>

StartRead ==
  /\ ~ waiting /\ waiting' = TRUE
  /\ interrupt_flag' = 0
  /\ UNCHANGED masked

EndRead ==
  /\ waiting /\ waiting' = FALSE
  /\ interrupt_flag = 1 /\ interrupt_flag' = 0
  /\ UNCHANGED masked

Next == Ticks \/ SetMask \/ StartRead \/ EndRead

Spec == Init /\ [][Next]_vars

=============================================================================
