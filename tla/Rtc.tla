--------------------------------- MODULE Rtc ---------------------------------
(***************************************************************************)
(* The clock driver (rtc.c, RTC_int), the interrupt controller driver      *)
(* (i8259.c) and the two devices at the level of their ports.              *)
(*                                                                         *)
(* A routine is the sequence of port accesses it makes, in todo; the       *)
(* processor makes one access at a time while the devices go on.  Code     *)
(* with IF clear is not interrupted: boot, every system call but the loop  *)
(* of rtc_read, and the handlers.                                          *)
(*                                                                         *)
(* The clock and the controllers are hardware, modelled from how the code  *)
(* programs them: a tick sets the periodic flag of register C, which with  *)
(* the enable bit of B raises IRQ 8 until C is read; the controllers latch *)
(* rising edges, whether masked or not, and deliver the highest priority.  *)
(***************************************************************************)
EXTENDS Integers, Sequences

CONSTANTS
  Rates,      (* the register A rates of rtc_write's frequencies: 6 .. 15  *)
  MaxOpens    (* bounds the open clock descriptors                         *)

ASSUME RtcAssumption == Rates \subseteq 6 .. 15 /\ MaxOpens \in Nat \ {0}

rate    == 15       (* what init_rtc sets: 2 Hz                            *)
mask_40 == 64       (* the enable bit of B and the flag of C               *)

VARIABLES
  index,            (* the register the RTC_PORT selects                   *)
  registers,        (* A, B, C                                             *)
  irr, isr,         (* IRQs requested, and in service (2: the slave's)     *)
  masked,           (* master_mask and slave_mask, in use and in memory    *)
  cpu,              (* what runs: "boot", "user", "rtc_read" or a handler  *)
  interrupted,      (* where the handler returns to                        *)
  todo,             (* the port accesses left in the running routine       *)
  value,            (* the byte a routine has read                         *)
  interrupt_flag,
  opens             (* clock descriptors open                              *)

deviceVars  == <<index, registers, irr, isr, masked>>
vars == <<deviceVars, cpu, interrupted, todo, value, interrupt_flag, opens>>

IRQs == {1, 2, 8}

-----------------------------------------------------------------------------
(* Port accesses                                                           *)

Access(op, reg, arg) == [op |-> op, reg |-> reg, arg |-> arg]

(* Select a register, read the selected one, write it with bit 0x40 of the *)
(* byte read or with the low half of that byte replaced.  reg is the       *)
(* register the routine means.                                             *)
Select(reg)     == Access("select", reg, 0)
In(reg)         == Access("in", reg, 0)
OutEnabled(reg) == Access("out enabled", reg, 0)
OutRate(reg, r) == Access("out rate", reg, r)
(* enable_irq, disable_irq, one half of send_eoi, change_flag              *)
EnableIrq(irq)  == Access("enable", "none", irq)
DisableIrq(irq) == Access("disable", "none", irq)
Eoi(irq)        == Access("eoi", "none", irq)
ChangeFlag      == Access("change_flag", "none", 0)
InitPics        == Access("icw", "none", 0)

SetRate(r) == <<Select("A"), In("A"), Select("A"), OutRate("A", r)>>

init_rtc == <<Select("B"), In("B"), Select("B"), OutEnabled("B"), EnableIrq(8)>>
              \o SetRate(rate)

i8259_init == <<InitPics, EnableIrq(2)>>

send_eoi_OneController(irq) == <<Eoi(irq)>>     (* a mutant *)
send_eoi(irq) == IF irq < 8 THEN <<Eoi(irq)>> ELSE <<Eoi(irq), Eoi(2)>>

(* Mutants of RTC_int: C is not read, and the flag is not set.             *)
RTC_int_KeepsC == <<ChangeFlag>> \o send_eoi(8)
RTC_int_NoFlag == <<Select("C"), In("C")>> \o send_eoi(8)

RTC_int == <<Select("C"), In("C"), ChangeFlag>> \o send_eoi(8)

(* The state in which entry calls i8259_init, as the BIOS leaves the clock *)
Init ==
  /\ index \in {"A", "B", "C"} /\ registers = [A |-> 38, B |-> 2, C |-> 0]
  /\ irr \in SUBSET {1} /\ isr = {} /\ masked = {}
  /\ cpu = "boot" /\ interrupted = "boot"
  /\ todo = i8259_init \o init_rtc \o <<EnableIrq(1), EnableIrq(8)>>
  /\ value = 0 /\ interrupt_flag = 0 /\ opens = 0

-----------------------------------------------------------------------------
(* The devices                                                             *)

HasBit40(byte) == (byte \div mask_40) % 2 = 1
With40(byte)   == IF HasBit40(byte) THEN byte ELSE byte + mask_40

(* IRQ 8 is high while an enabled flag has not been read.                  *)
Line(r) == HasBit40(r.B) /\ HasBit40(r.C)

(* The clock's registers change; a rising edge is latched.                 *)
SetRegisters(r) ==
  /\ registers' = r
  /\ irr' = IF Line(r) /\ ~ Line(registers) THEN irr \union {8} ELSE irr

Tick ==
  /\ SetRegisters([registers EXCEPT !.C = With40(@)])
  /\ UNCHANGED <<index, isr, masked, cpu, interrupted, todo, value,
                 interrupt_flag, opens>>

Key ==
  /\ irr' = irr \union {1}
  /\ UNCHANGED <<index, registers, isr, masked, cpu, interrupted, todo, value,
                 interrupt_flag, opens>>

-----------------------------------------------------------------------------
(* The processor makes the next access of the running routine.             *)

Next1(op) == todo # <<>> /\ Head(todo).op = op /\ todo' = Tail(todo)
Arg == Head(todo).arg

SelectStep ==
  /\ Next1("select")
  /\ index' = Head(todo).reg
  /\ UNCHANGED <<registers, irr, isr, masked, value, interrupt_flag>>

(* Reading C clears it.                                                    *)
InStep ==
  /\ Next1("in")
  /\ value' = registers[index]
  /\ SetRegisters(IF index = "C" THEN [registers EXCEPT !.C = 0] ELSE registers)
  /\ UNCHANGED <<index, isr, masked, interrupt_flag>>

(* A mutant: the high half of A is not kept.                               *)
OutStep_RateAlone ==
  /\ \/ /\ Next1("out enabled")
        /\ SetRegisters([registers EXCEPT ![index] = With40(value)])
     \/ /\ Next1("out rate")
        /\ SetRegisters([registers EXCEPT ![index] = Arg])
  /\ UNCHANGED <<index, isr, masked, value, interrupt_flag>>

OutStep ==
  /\ \/ /\ Next1("out enabled")
        /\ SetRegisters([registers EXCEPT ![index] = With40(value)])
     \/ /\ Next1("out rate")
        /\ SetRegisters([registers EXCEPT ![index] = 16 * (value \div 16) + Arg])
  /\ UNCHANGED <<index, isr, masked, value, interrupt_flag>>

MaskStep ==
  /\ \/ Next1("enable")  /\ masked' = masked \ {Arg}
     \/ Next1("disable") /\ masked' = masked \union {Arg}
  /\ UNCHANGED <<index, registers, irr, isr, value, interrupt_flag>>

(* The initialisation words forget what is requested and in service.       *)
InitStep ==
  /\ Next1("icw")
  /\ irr' = {} /\ isr' = {} /\ masked' = IRQs
  /\ UNCHANGED <<index, registers, value, interrupt_flag>>

EoiStep ==
  /\ Next1("eoi")
  /\ isr' = isr \ {Arg}
  /\ UNCHANGED <<index, registers, irr, masked, value, interrupt_flag>>

(* A mutant: the flag counts the ticks.                                    *)
ChangeFlagStep_Counts ==
  /\ Next1("change_flag")
  /\ interrupt_flag' = interrupt_flag + 1
  /\ UNCHANGED <<deviceVars, value>>

ChangeFlagStep ==
  /\ Next1("change_flag")
  /\ interrupt_flag' = 1
  /\ UNCHANGED <<deviceVars, value>>

PortStep ==
  /\ SelectStep \/ InStep \/ OutStep \/ MaskStep \/ InitStep \/ EoiStep \/ ChangeFlagStep
  /\ UNCHANGED <<cpu, interrupted, opens>>

(* A routine ends: entry sets IF, a handler returns.                       *)
RoutineEnds ==
  /\ todo = <<>>
  /\ \/ cpu = "boot" /\ cpu' = "user"
     \/ cpu = "handler" /\ cpu' = interrupted
  /\ UNCHANGED <<deviceVars, interrupted, todo, value, interrupt_flag, opens>>

-----------------------------------------------------------------------------
(* Interrupts                                                              *)

(* A mutant: system calls are entered with IF set.                         *)
InterruptsOn_InCalls == cpu \in {"user", "rtc_read"}

InterruptsOn == todo = <<>> /\ cpu \in {"user", "rtc_read"}

(* The controllers offer what is requested, not masked and of a higher     *)
(* priority than everything in service: IRQ 1 before the slave's IRQ 8.    *)
Offered(irq) ==
  IF irq = 1 THEN 1 \in irr \ masked /\ 1 \notin isr
  ELSE /\ 8 \in irr \ masked /\ 2 \notin masked
       /\ isr = {}
       /\ ~ (1 \in irr \ masked)

Interrupt(irq, levels, handler) ==
  /\ InterruptsOn /\ Offered(irq)
  /\ irr' = irr \ {irq}
  /\ isr' = isr \union levels
  /\ cpu' = "handler" /\ interrupted' = cpu
  /\ todo' = handler \o todo
  /\ UNCHANGED <<index, registers, masked, value, interrupt_flag, opens>>

ClockInterrupt    == Interrupt(8, {2, 8}, RTC_int)
(* What else keyboard_int does is in Terminal.                             *)
KeyboardInterrupt == Interrupt(1, {1}, send_eoi(1))

-----------------------------------------------------------------------------
(* The calls of programs                                                   *)

Call(routine) ==
  /\ cpu = "user" /\ todo = <<>>
  /\ todo' = routine
  /\ UNCHANGED <<deviceVars, interrupted, value>>

rtc_open ==
  /\ Call(init_rtc)
  /\ opens < MaxOpens /\ opens' = opens + 1
  /\ UNCHANGED <<cpu, interrupt_flag>>

rtc_close ==
  /\ opens > 0
  /\ Call(<<DisableIrq(8)>>)
  /\ opens' = opens - 1
  /\ UNCHANGED <<cpu, interrupt_flag>>

(* The frequencies that are no power of two from 2 to 1024 are refused.    *)
rtc_write(r) ==
  /\ opens > 0
  /\ Call(SetRate(r))
  /\ UNCHANGED <<cpu, interrupt_flag, opens>>

(* A mutant: the flag is as the ticks before left it.                      *)
rtc_read_FlagKept ==
  /\ opens > 0
  /\ Call(<<>>)
  /\ cpu' = "rtc_read"
  /\ UNCHANGED <<opens, interrupt_flag>>

rtc_read ==
  /\ opens > 0
  /\ Call(<<>>)
  /\ interrupt_flag' = 0
  /\ cpu' = "rtc_read"
  /\ UNCHANGED opens

ReadReturns ==
  /\ cpu = "rtc_read" /\ todo = <<>> /\ interrupt_flag # 0
  /\ interrupt_flag' = 0
  /\ cpu' = "user"
  /\ UNCHANGED <<deviceVars, interrupted, todo, value, opens>>

-----------------------------------------------------------------------------
Handle == PortStep \/ RoutineEnds \/ ClockInterrupt \/ KeyboardInterrupt

Next ==
  \/ Tick \/ Key
  \/ Handle
  \/ rtc_open \/ rtc_close \/ rtc_read \/ ReadReturns
  \/ \E r \in Rates : rtc_write(r)

(* The clock ticks and the processor runs; rtc_read's loop is left when it *)
(* sees the flag.  Keys and calls need not come.  Strong fairness of the   *)
(* delivery: the controllers offer an interrupt again until it is taken.   *)
Spec == Init /\ [][Next]_vars
FairSpec ==
  Spec /\ WF_vars(Tick) /\ WF_vars(PortStep \/ RoutineEnds)
       /\ SF_vars(ClockInterrupt) /\ SF_vars(ReadReturns)

-----------------------------------------------------------------------------
(* Properties                                                              *)

Byte == 0 .. 255

TypeOK ==
  /\ index \in {"A", "B", "C"} /\ registers \in [{"A", "B", "C"} -> Byte]
  /\ irr \subseteq {1, 8} /\ isr \subseteq IRQs /\ masked \subseteq IRQs
  /\ cpu \in {"boot", "user", "rtc_read", "handler"}
  /\ interrupted \in {"boot", "user", "rtc_read"}
  /\ value \in Byte /\ interrupt_flag \in {0, 1}
  /\ opens \in 0 .. MaxOpens

(* Whenever a routine reads or writes the clock's data port, the register  *)
(* selected is the one it means: no handler selects another in between.    *)
SelectedRegister ==
  todo # <<>> /\ Head(todo).op \in {"in", "out enabled", "out rate"} => index = Head(todo).reg

(* Programming the rate and the enable bit by read and write keeps the     *)
(* rest of both registers: the divider stays 2 and B keeps its low bits.   *)
OtherBitsKept == registers.A \div 16 = 2 /\ registers.B % mask_40 = 2

(* The clock's line is never left high with nothing to lower it: a request *)
(* is latched or RTC_int has yet to read C.  A lost edge would stop the    *)
(* clock for ever, since only a new edge makes a request.                  *)
NoLostEdge == Line(registers) => 8 \in irr \/ \E k \in DOMAIN todo : todo[k] = In("C")

(* Outside the handlers no interrupt is in service, so none is held back:  *)
(* both controllers are told of the end of each.                           *)
NothingLeftInService == cpu # "handler" => isr = {}

(* With every port access and handler step between, the driver is still a  *)
(* clock whose reader waits for a tick that comes after its call, that no  *)
(* tick reaches while IRQ 8 is masked, and whose flag a read takes.        *)
Reading == cpu = "rtc_read" \/ (cpu = "handler" /\ interrupted = "rtc_read")

Clock == INSTANCE ClockWait WITH masked <- 8 \in masked, waiting <- Reading
ImplementsClock == Clock!Spec

(* Keys have priority over the clock, but nobody types so fast that a key  *)
(* is pending whenever an interrupt could be taken.                        *)
TypistPauses == []<>(InterruptsOn /\ 1 \notin irr)

(* A reader that waits with IRQ 8 enabled is woken, whatever was pressed,  *)
(* closed, opened or masked before, if the keys leave the clock a chance.  *)
EnabledReaderWakes ==
  TypistPauses => ((cpu = "rtc_read" /\ 8 \notin masked) ~> cpu = "user")

=============================================================================
