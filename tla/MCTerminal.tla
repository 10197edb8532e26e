----------------------------- MODULE MCTerminal -----------------------------
(***************************************************************************)
(* Keyboards and consoles for the runs of Terminal: a letter key l and a   *)
(* digit key 1 are enough to tell the characters of a line apart.          *)
(***************************************************************************)
EXTENDS Terminal

MCLower == [k \in {"l", "1"} |-> k]
MCUpper == [k \in {"l", "1"} |-> IF k = "l" THEN "L" ELSE "!"]
=============================================================================
