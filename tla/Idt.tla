--------------------------------- MODULE Idt ---------------------------------
(***************************************************************************)
(* The interrupt descriptor table as idt.c fills it, and what the          *)
(* processor does with a gate.  Every handler of the first vectors prints  *)
(* the exception's name and loops, so "exception" stands for all of them.  *)
(***************************************************************************)
EXTENDS Integers

RESERVED_NUM == 32
NUM_VEC      == 256
KEYBOARD_VEC == 33
RTC_VEC      == 40
SYS_CALL_VEC == 128
USER_LEVEL_DPL == 3

SEGMENT_NOT_PRESENT_VEC == 11
GENERAL_PROTECTION_VEC  == 13
PAGE_FAULT_VEC          == 14

Vectors == 0 .. NUM_VEC - 1

(* A gate; reserved3 tells a trap gate, which leaves IF as it is, from an  *)
(* interrupt gate, which clears it.                                        *)
EmptyGate(type, present) ==
  [type |-> type, dpl |-> 0, present |-> present, handler |-> "none"]

(* Mutants of fill_idt: every gate is a trap gate, and programs may use    *)
(* every gate.                                                             *)
fill_idt_TrapGates ==
  [v \in Vectors |->
     IF v \in {KEYBOARD_VEC, RTC_VEC} THEN EmptyGate("trap", TRUE)
     ELSE IF v = SYS_CALL_VEC
          THEN [EmptyGate("trap", TRUE) EXCEPT !.dpl = USER_LEVEL_DPL]
     ELSE EmptyGate("trap", v < RESERVED_NUM)]

fill_idt_UserGates ==
  [v \in Vectors |->
     [EmptyGate(IF v < RESERVED_NUM THEN "trap" ELSE "interrupt",
                v < RESERVED_NUM \/ v \in {KEYBOARD_VEC, RTC_VEC, SYS_CALL_VEC})
        EXCEPT !.dpl = USER_LEVEL_DPL]]

fill_idt ==
  [v \in Vectors |->
     IF v < RESERVED_NUM THEN EmptyGate("trap", TRUE)
     ELSE IF v = SYS_CALL_VEC
          THEN [EmptyGate("interrupt", TRUE) EXCEPT !.dpl = USER_LEVEL_DPL]
     ELSE EmptyGate("interrupt", v \in {KEYBOARD_VEC, RTC_VEC})]

(* A mutant: the clock's gate is made present and gets no handler.         *)
init_idt_NoClock ==
  [v \in Vectors |->
     [fill_idt[v] EXCEPT !.handler =
        CASE v <= 18           -> "exception"
          [] v = KEYBOARD_VEC  -> "keyboard_int"
          [] v = SYS_CALL_VEC  -> "call"
          [] OTHER             -> "none"]]

(* The exceptions from divide_error to Floating_Point_Exception.           *)
init_idt ==
  [v \in Vectors |->
     [fill_idt[v] EXCEPT !.handler =
        CASE v <= 18           -> "exception"
          [] v = RTC_VEC       -> "RTC_int"
          [] v = KEYBOARD_VEC  -> "keyboard_int"
          [] v = SYS_CALL_VEC  -> "call"
          [] OTHER             -> "none"]]

(***************************************************************************)
(* The processor.  A program's int instruction needs a gate of its level,  *)
(* and a gate that is not present raises an exception of its own; the      *)
(* gates of both exceptions are present, for the kernel only.              *)
(***************************************************************************)
GateOf(v)      == IF init_idt[v].present THEN init_idt[v]
                  ELSE init_idt[SEGMENT_NOT_PRESENT_VEC]
GateOfIntN(v)  == IF init_idt[v].dpl = USER_LEVEL_DPL THEN GateOf(v)
                  ELSE init_idt[GENERAL_PROTECTION_VEC]
LeavesIF(gate) == gate.type = "trap"

=============================================================================
