------------------------------ MODULE RtcProofs ------------------------------
(***************************************************************************)
(* Proofs about Rtc, for every set of rates and number of descriptors.     *)
(* The invariant looks at the accesses left in todo: every access to the   *)
(* data port comes right behind the selection of its register, every write *)
(* behind a read of the same register, and what a handler has left to do   *)
(* says what it still owes the controllers.  The last part follows a read  *)
(* to its end.                                                             *)
(***************************************************************************)
EXTENDS Rtc, SequenceTheorems, TLAPS

Registers == {"A", "B", "C"}
Outs      == {"out enabled", "out rate"}
DataOps   == {"in"} \union Outs
IrqOps    == {"enable", "disable", "eoi"}
OtherOps  == {"select", "change_flag", "icw"}

Accesses ==
  { a \in [op : DataOps \union IrqOps \union OtherOps, reg : Registers \union {"none"}, arg : Nat] :
      /\ a.op \in DataOps \union {"select"} => a.reg \in Registers
      /\ a.op = "out enabled" => a.reg = "B"
      /\ a.op = "out rate" => a.reg = "A" /\ a.arg \in 6 .. 15
      /\ a.op \in IrqOps => a.arg \in IRQs }

(* A routine before its first access.                                      *)
Ordered(t) ==
  \A k \in DOMAIN t :
    /\ t[k].op \in DataOps => k > 1 /\ t[k - 1] = Select(t[k].reg)
    /\ t[k].op \in Outs => k > 2 /\ t[k - 2] = In(t[k].reg)
    /\ t[k].op = "icw" => k = 1
(* Only RTC_int sets the flag.                                             *)
NoFlag(t)  == \A k \in DOMAIN t : t[k].op # "change_flag"
Routine(t) == t \in Seq(Accesses) /\ Ordered(t) /\ NoFlag(t)

-----------------------------------------------------------------------------
(* The routines.                                                           *)

LEMMA AccessTypes ==
  /\ \A reg \in Registers : Select(reg) \in Accesses /\ In(reg) \in Accesses
  /\ OutEnabled("B") \in Accesses
  /\ \A r \in 6 .. 15 : OutRate("A", r) \in Accesses
  /\ \A irq \in IRQs : /\ EnableIrq(irq) \in Accesses /\ DisableIrq(irq) \in Accesses
                       /\ Eoi(irq) \in Accesses
  /\ ChangeFlag \in Accesses /\ InitPics \in Accesses
<1>1. ASSUME NEW op \in DataOps \union IrqOps \union OtherOps,
             NEW reg \in Registers \union {"none"}, NEW arg \in Nat,
             op \in DataOps \union {"select"} => reg \in Registers,
             op = "out enabled" => reg = "B",
             op = "out rate" => reg = "A" /\ arg \in 6 .. 15,
             op \in IrqOps => arg \in IRQs
      PROVE  Access(op, reg, arg) \in Accesses
  BY <1>1 DEF Access, Accesses
<1> USE DEF DataOps, Outs, IrqOps, OtherOps, Registers, IRQs
<1>2. \A reg \in Registers : Select(reg) \in Accesses
  BY <1>1 DEF Select
<1>3. \A reg \in Registers : In(reg) \in Accesses
  BY <1>1 DEF In
<1>4. OutEnabled("B") \in Accesses
  BY <1>1 DEF OutEnabled
<1>5. ASSUME NEW r \in 6 .. 15 PROVE OutRate("A", r) \in Accesses
  <2>1. r \in Nat
    OBVIOUS
  <2>2. Access("out rate", "A", r) \in Accesses
    BY <1>1, <2>1
  <2> QED
    BY <2>2 DEF OutRate
<1>6. \A irq \in IRQs : EnableIrq(irq) \in Accesses
  BY <1>1 DEF EnableIrq
<1>7. \A irq \in IRQs : DisableIrq(irq) \in Accesses
  BY <1>1 DEF DisableIrq
<1>8. \A irq \in IRQs : Eoi(irq) \in Accesses
  BY <1>1 DEF Eoi
<1>9. ChangeFlag \in Accesses /\ InitPics \in Accesses
  BY <1>1 DEF ChangeFlag, InitPics
<1> QED
  BY <1>2, <1>3, <1>4, <1>5, <1>6, <1>7, <1>8, <1>9

LEMMA AccessFields ==
  /\ \A reg : /\ Select(reg).op = "select" /\ Select(reg).reg = reg
              /\ In(reg).op = "in" /\ In(reg).reg = reg
              /\ OutEnabled(reg).op = "out enabled" /\ OutEnabled(reg).reg = reg
  /\ \A r : OutRate("A", r).op = "out rate" /\ OutRate("A", r).reg = "A"
  /\ \A irq : /\ EnableIrq(irq).op = "enable" /\ EnableIrq(irq).arg = irq
              /\ DisableIrq(irq).op = "disable"
              /\ Eoi(irq).op = "eoi" /\ Eoi(irq).arg = irq
  /\ ChangeFlag.op = "change_flag" /\ InitPics.op = "icw"
BY DEF Select, In, OutEnabled, OutRate, EnableIrq, DisableIrq, Eoi, ChangeFlag, InitPics, Access

(* The controllers are initialised by no routine but entry's.              *)
NoInit(t) == \A k \in DOMAIN t : t[k].op # "icw"

(* One routine after another.                                              *)
LEMMA Joined ==
  ASSUME NEW s, NEW t, Routine(s), Routine(t), NoInit(t)
  PROVE  Routine(s \o t) /\ (NoInit(s) => NoInit(s \o t))
<1>1. s \in Seq(Accesses) /\ t \in Seq(Accesses)
  BY DEF Routine
<1> DEFINE u == s \o t
<1>2. /\ u \in Seq(Accesses) /\ Len(u) = Len(s) + Len(t)
      /\ \A k \in 1 .. Len(s) + Len(t) : u[k] = IF k <= Len(s) THEN s[k] ELSE t[k - Len(s)]
  BY <1>1, ConcatProperties
<1>3. /\ Len(s) \in Nat /\ DOMAIN s = 1 .. Len(s)
      /\ Len(t) \in Nat /\ DOMAIN t = 1 .. Len(t)
      /\ DOMAIN u = 1 .. Len(s) + Len(t)
  BY <1>1, <1>2, LenProperties
<1> HIDE DEF u
<1>4. SUFFICES ASSUME NEW k \in DOMAIN u
               PROVE  /\ u[k].op \in DataOps => k > 1 /\ u[k - 1] = Select(u[k].reg)
                      /\ u[k].op \in Outs => k > 2 /\ u[k - 2] = In(u[k].reg)
                      /\ u[k].op = "icw" => k = 1 /\ ~ NoInit(s)
                      /\ u[k].op # "change_flag"
  BY <1>2 DEF Routine, Ordered, NoFlag, NoInit, u
<1>5. CASE k <= Len(s)
  <2>1. k \in DOMAIN s /\ u[k] = s[k]
    BY <1>2, <1>3, <1>5
  <2>2. \A j \in 1 .. k : u[j] = s[j]
    BY <1>2, <1>3, <1>5
  <2>3. (k > 1 => k - 1 \in 1 .. k) /\ (k > 2 => k - 2 \in 1 .. k)
    BY <1>3
  <2> QED
    BY <2>1, <2>2, <2>3 DEF Routine, Ordered, NoFlag, NoInit
<1>6. CASE k > Len(s)
  <2> DEFINE i == k - Len(s)
  <2>1. i \in DOMAIN t /\ u[k] = t[i]
    BY <1>2, <1>3, <1>6
  <2>2. (i > 1 => u[k - 1] = t[i - 1]) /\ (i > 2 => u[k - 2] = t[i - 2])
    <3>1. i > 1 => k - 1 \in 1 .. Len(s) + Len(t) /\ ~ (k - 1 <= Len(s))
      BY <1>3, <1>6
    <3>2. i > 2 => k - 2 \in 1 .. Len(s) + Len(t) /\ ~ (k - 2 <= Len(s))
      BY <1>3, <1>6
    <3> QED
      BY <1>2, <1>3, <3>1, <3>2
  <2>3. (i > 1 => k > 1) /\ (i > 2 => k > 2)
    BY <1>3
  <2> HIDE DEF i
  <2> QED
    BY <2>1, <2>2, <2>3 DEF Routine, Ordered, NoFlag, NoInit
<1> QED
  BY <1>3, <1>5, <1>6

LEMMA ShortRoutines ==
  /\ Routine(<<>>) /\ NoInit(<<>>)
  /\ \A a \in Accesses : a.op \notin DataOps \union {"change_flag"} =>
       Routine(<<a>>) /\ (a.op # "icw" => NoInit(<<a>>))
  /\ \A a, b \in Accesses :
       a.op \notin DataOps \union {"change_flag"}
       /\ b.op \notin DataOps \union {"icw", "change_flag"} =>
       Routine(<<a, b>>) /\ (a.op # "icw" => NoInit(<<a, b>>))
<1>1. Routine(<<>>) /\ NoInit(<<>>)
  BY DEF Routine, Ordered, NoFlag, NoInit
<1>2. ASSUME NEW a \in Accesses, a.op \notin DataOps \union {"change_flag"}
      PROVE  Routine(<<a>>) /\ (a.op # "icw" => NoInit(<<a>>))
  <2> DEFINE t == <<a>>
  <2>1. t \in Seq(Accesses) /\ DOMAIN t = {1} /\ t[1] = a
    OBVIOUS
  <2> HIDE DEF t
  <2>2. Routine(t) /\ (a.op # "icw" => NoInit(t))
    BY <1>2, <2>1 DEF Routine, Ordered, NoFlag, NoInit, DataOps
  <2> QED
    BY <2>2 DEF t
<1>3. ASSUME NEW a \in Accesses, NEW b \in Accesses,
             a.op \notin DataOps \union {"change_flag"},
             b.op \notin DataOps \union {"icw", "change_flag"}
      PROVE  Routine(<<a, b>>) /\ (a.op # "icw" => NoInit(<<a, b>>))
  <2> DEFINE t == <<a, b>>
  <2>1. t \in Seq(Accesses) /\ DOMAIN t = {1, 2} /\ t[1] = a /\ t[2] = b
    OBVIOUS
  <2> HIDE DEF t
  <2>2. Routine(t) /\ (a.op # "icw" => NoInit(t))
    BY <1>3, <2>1 DEF Routine, Ordered, NoFlag, NoInit, DataOps
  <2> QED
    BY <2>2 DEF t
<1> QED
  BY <1>1, <1>2, <1>3

(* Select, read, select and write the same register.                       *)
LEMMA WriteRoutine ==
  ASSUME NEW reg \in Registers, NEW out \in Accesses, out.op \in Outs, out.reg = reg
  PROVE  /\ Routine(<<Select(reg), In(reg), Select(reg), out>>)
         /\ NoInit(<<Select(reg), In(reg), Select(reg), out>>)
<1> DEFINE t == <<Select(reg), In(reg), Select(reg), out>>
<1>1. t \in Seq(Accesses)
  BY AccessTypes
<1>2. DOMAIN t = 1 .. 4
  OBVIOUS
<1>3. t[1] = Select(reg) /\ t[2] = In(reg) /\ t[3] = Select(reg) /\ t[4] = out
  OBVIOUS
<1> HIDE DEF t
<1>4. Ordered(t) /\ NoFlag(t) /\ NoInit(t)
  <2>1. /\ t[1].op = "select" /\ t[2].op = "in" /\ t[2].reg = reg
        /\ t[3].op = "select" /\ t[4].op \in Outs /\ t[4].reg = reg
    BY <1>3 DEF Select, In, Access
  <2>2. ASSUME NEW k \in 1 .. 4
        PROVE  /\ t[k].op \in DataOps => k > 1 /\ t[k - 1] = Select(t[k].reg)
               /\ t[k].op \in Outs => k > 2 /\ t[k - 2] = In(t[k].reg)
               /\ t[k].op \notin {"icw", "change_flag"}
    <3>1. CASE k = 1
      BY <2>1, <3>1 DEF Outs, DataOps
    <3>2. CASE k = 2
      <4>1. t[k - 1] = Select(reg) /\ t[k].op = "in" /\ t[k].reg = reg
        BY <1>3, <2>1, <3>2
      <4>2. k > 1 /\ t[k - 1] = Select(t[k].reg)
        BY <3>2, <4>1
      <4>3. t[k].op \notin Outs /\ t[k].op \notin {"icw", "change_flag"}
        BY <4>1 DEF Outs
      <4> QED
        BY <4>2, <4>3
    <3>3. CASE k = 3
      BY <2>1, <3>3 DEF Outs, DataOps
    <3>4. CASE k = 4
      <4>1. /\ t[k - 1] = Select(reg) /\ t[k - 2] = In(reg)
            /\ t[k].op \in Outs /\ t[k].reg = reg
        BY <1>3, <2>1, <3>4
      <4>2. k > 2 /\ t[k - 1] = Select(t[k].reg) /\ t[k - 2] = In(t[k].reg)
        BY <3>4, <4>1
      <4>3. t[k].op \notin {"icw", "change_flag"}
        BY <4>1 DEF Outs
      <4> QED
        BY <4>2, <4>3
    <3> QED
      BY <3>1, <3>2, <3>3, <3>4
  <2> QED
    BY <1>2, <2>2 DEF Ordered, NoFlag, NoInit
<1> QED
  BY <1>1, <1>4 DEF t, Routine

LEMMA SetRateRoutine ==
  ASSUME NEW r \in 6 .. 15
  PROVE  Routine(SetRate(r)) /\ NoInit(SetRate(r))
<1>1. "A" \in Registers /\ OutRate("A", r) \in Accesses
      /\ OutRate("A", r).op \in Outs /\ OutRate("A", r).reg = "A"
  BY AccessTypes, AccessFields DEF Registers, Outs
<1> QED
  BY <1>1, WriteRoutine DEF SetRate

LEMMA InitRoutine ==
  Routine(init_rtc) /\ NoInit(init_rtc)
<1> DEFINE enables == <<Select("B"), In("B"), Select("B"), OutEnabled("B")>>
           begins  == <<Select("B"), In("B"), Select("B"), OutEnabled("B"), EnableIrq(8)>>
<1>1. Routine(enables) /\ NoInit(enables)
  <2>1. "B" \in Registers /\ OutEnabled("B") \in Accesses
        /\ OutEnabled("B").op \in Outs /\ OutEnabled("B").reg = "B"
    BY AccessTypes, AccessFields DEF Registers, Outs
  <2> QED
    BY <2>1, WriteRoutine
<1>2. Routine(<<EnableIrq(8)>>) /\ NoInit(<<EnableIrq(8)>>)
  <2>1. EnableIrq(8) \in Accesses /\ EnableIrq(8).op = "enable"
    BY AccessTypes, AccessFields DEF IRQs
  <2> QED
    BY <2>1, ShortRoutines DEF DataOps, Outs
<1>3. Routine(SetRate(15)) /\ NoInit(SetRate(15))
  BY SetRateRoutine
<1>4. begins = enables \o <<EnableIrq(8)>>
  OBVIOUS
<1> HIDE DEF enables, begins
<1>5. Routine(begins) /\ NoInit(begins)
  BY <1>1, <1>2, <1>4, Joined
<1>6. Routine(begins \o SetRate(15)) /\ NoInit(begins \o SetRate(15))
  BY <1>3, <1>5, Joined
<1> QED
  BY <1>6 DEF begins, init_rtc, rate

LEMMA BootRoutine ==
  Routine(i8259_init \o init_rtc \o <<EnableIrq(1), EnableIrq(8)>>)
<1> DEFINE enables == <<EnableIrq(1), EnableIrq(8)>>
<1>1. Routine(i8259_init)
  <2>1. /\ InitPics \in Accesses /\ InitPics.op = "icw"
        /\ EnableIrq(2) \in Accesses /\ EnableIrq(2).op = "enable"
    BY AccessTypes, AccessFields DEF IRQs
  <2> QED
    BY <2>1, ShortRoutines DEF DataOps, Outs, i8259_init
<1>2. Routine(enables) /\ NoInit(enables)
  <2>1. /\ EnableIrq(1) \in Accesses /\ EnableIrq(1).op = "enable"
        /\ EnableIrq(8) \in Accesses /\ EnableIrq(8).op = "enable"
    BY AccessTypes, AccessFields DEF IRQs
  <2>2. Routine(enables)
    BY <2>1, ShortRoutines DEF DataOps, Outs
  <2>3. NoInit(enables)
    BY <2>1 DEF NoInit
  <2> QED
    BY <2>2, <2>3
<1> HIDE DEF enables
<1>3. Routine(i8259_init \o init_rtc)
  BY <1>1, InitRoutine, Joined
<1>4. Routine((i8259_init \o init_rtc) \o enables)
  BY <1>2, <1>3, Joined
<1> QED
  BY <1>4 DEF enables

(* The handlers select, read, set the flag and end interrupts only.        *)
HandlerOps == {"select", "in", "change_flag", "eoi"}

LEMMA HandlerRoutines ==
  /\ RTC_int \in Seq(Accesses) /\ Ordered(RTC_int) /\ Routine(send_eoi(1))
  /\ \A k \in DOMAIN RTC_int : RTC_int[k].op \in HandlerOps
  /\ \A k \in DOMAIN send_eoi(1) : send_eoi(1)[k].op \in HandlerOps \ {"change_flag"}
  /\ \E k \in DOMAIN RTC_int : RTC_int[k] = In("C")
  /\ \A k \in DOMAIN RTC_int :
       RTC_int[k] = In("C") => k + 1 \in DOMAIN RTC_int /\ RTC_int[k + 1] = ChangeFlag
  /\ \A irq \in {2, 8} : \E k \in DOMAIN RTC_int : RTC_int[k] = Eoi(irq)
  /\ \E k \in DOMAIN send_eoi(1) : send_eoi(1)[k] = Eoi(1)
<1>1. send_eoi(1) = <<Eoi(1)>> /\ Eoi(1) \in Accesses /\ Eoi(1).op = "eoi"
  <2>1. send_eoi(1) = <<Eoi(1)>>
    BY DEF send_eoi
  <2> QED
    BY <2>1, AccessTypes, AccessFields DEF IRQs
<1>2. /\ Routine(send_eoi(1))
      /\ \A k \in DOMAIN send_eoi(1) : send_eoi(1)[k].op \in HandlerOps \ {"change_flag"}
      /\ \E k \in DOMAIN send_eoi(1) : send_eoi(1)[k] = Eoi(1)
  <2> DEFINE t == <<Eoi(1)>>
  <2>1. DOMAIN t = {1} /\ t[1] = Eoi(1)
    OBVIOUS
  <2>2. Routine(t)
    BY <1>1, ShortRoutines DEF DataOps, Outs
  <2> HIDE DEF t
  <2>3. /\ \A k \in DOMAIN t : t[k].op \in HandlerOps \ {"change_flag"}
        /\ \E k \in DOMAIN t : t[k] = Eoi(1)
    BY <1>1, <2>1 DEF HandlerOps
  <2>4. send_eoi(1) = t
    BY <1>1 DEF t
  <2> QED
    BY <2>2, <2>3, <2>4
<1> DEFINE t    == RTC_int
           acts == <<Select("C"), In("C"), ChangeFlag>>
           ends == <<Eoi(8), Eoi(2)>>
<1>3. t = acts \o ends
  <2>1. send_eoi(8) = ends
    BY DEF send_eoi
  <2> QED
    BY <2>1, Zenon DEF RTC_int
<1>4. /\ acts \in Seq(Accesses) /\ Len(acts) = 3
      /\ acts[1] = Select("C") /\ acts[2] = In("C") /\ acts[3] = ChangeFlag
      /\ ends \in Seq(Accesses) /\ Len(ends) = 2 /\ ends[1] = Eoi(8) /\ ends[2] = Eoi(2)
  BY AccessTypes DEF Registers, IRQs
<1> HIDE DEF t, acts, ends
<1>5. /\ t \in Seq(Accesses) /\ DOMAIN t = 1 .. 5
      /\ t[1] = Select("C") /\ t[2] = In("C") /\ t[3] = ChangeFlag
      /\ t[4] = Eoi(8) /\ t[5] = Eoi(2)
  <2>1. /\ t \in Seq(Accesses) /\ Len(t) = Len(acts) + Len(ends)
        /\ \A k \in 1 .. Len(acts) + Len(ends) :
             t[k] = IF k <= Len(acts) THEN acts[k] ELSE ends[k - Len(acts)]
    BY <1>3, <1>4, ConcatProperties, Zenon
  <2>2. Len(t) = 5 /\ \A k \in 1 .. 5 : t[k] = IF k <= 3 THEN acts[k] ELSE ends[k - 3]
    BY <1>4, <2>1
  <2>3. DOMAIN t = 1 .. 5
    BY <2>1, <2>2, LenProperties
  <2>4. t[1] = acts[1] /\ t[2] = acts[2] /\ t[3] = acts[3] /\ t[4] = ends[1] /\ t[5] = ends[2]
    BY <2>2
  <2> QED
    BY <1>4, <2>1, <2>3, <2>4
<1>6. /\ t[1].op = "select" /\ t[2].op = "in" /\ t[2].reg = "C" /\ t[3].op = "change_flag"
      /\ t[4].op = "eoi" /\ t[5].op = "eoi"
  BY <1>5 DEF Select, In, ChangeFlag, Eoi, Access
<1>7. \A k \in DOMAIN t : t[k].op \in HandlerOps
  BY <1>5, <1>6 DEF HandlerOps
<1>8. Ordered(t)
  <2> SUFFICES ASSUME NEW k \in 1 .. 5
               PROVE  /\ t[k].op \in DataOps => k > 1 /\ t[k - 1] = Select(t[k].reg)
                      /\ t[k].op \in Outs => k > 2 /\ t[k - 2] = In(t[k].reg)
                      /\ t[k].op = "icw" => k = 1
    BY <1>5 DEF Ordered
  <2>1. CASE k = 2
    <3>1. k > 1 /\ t[k - 1] = Select(t[k].reg)
      BY <1>5, <1>6, <2>1
    <3>2. t[k].op = "in"
      BY <1>6, <2>1
    <3> QED
      BY <3>1, <3>2 DEF DataOps, Outs
  <2>2. CASE k # 2
    <3>1. t[k].op \in {"select", "change_flag", "eoi"}
      BY <1>5, <1>6, <2>2
    <3> QED
      BY <3>1 DEF DataOps, Outs
  <2> QED
    BY <2>1, <2>2
<1>9. /\ \E k \in DOMAIN t : t[k] = In("C")
      /\ \A irq \in {2, 8} : \E k \in DOMAIN t : t[k] = Eoi(irq)
  BY <1>5
<1>10. ASSUME NEW k \in DOMAIN t, t[k] = In("C")
       PROVE  k + 1 \in DOMAIN t /\ t[k + 1] = ChangeFlag
  <2>1. t[k].op = "in"
    BY <1>10 DEF In, Access
  <2>2. k = 2
    BY <1>5, <1>6, <2>1
  <2> QED
    BY <1>5, <2>2
<1> QED
  BY <1>2, <1>5, <1>7, <1>8, <1>9, <1>10 DEF t

LEMMA CallRoutines ==
  /\ Routine(<<>>) /\ Routine(<<DisableIrq(8)>>) /\ Routine(init_rtc)
  /\ NoInit(<<>>) /\ NoInit(<<DisableIrq(8)>>) /\ NoInit(init_rtc)
  /\ \A r \in Rates : Routine(SetRate(r)) /\ NoInit(SetRate(r))
<1>1. DisableIrq(8) \in Accesses /\ DisableIrq(8).op = "disable"
  BY AccessTypes, AccessFields DEF IRQs
<1>2. Routine(<<DisableIrq(8)>>) /\ NoInit(<<DisableIrq(8)>>)
  BY <1>1, ShortRoutines DEF DataOps, Outs
<1>3. \A r \in Rates : Routine(SetRate(r)) /\ NoInit(SetRate(r))
  BY SetRateRoutine, RtcAssumption
<1>4. Routine(<<>>) /\ NoInit(<<>>)
  BY ShortRoutines
<1> QED
  BY <1>2, <1>3, <1>4, InitRoutine

-----------------------------------------------------------------------------
(* The inductive invariant.                                                *)

(* The bytes each register may hold: A keeps its divider and B its low     *)
(* bits whatever rate is set, and C has the flag or nothing.               *)
Kept == [reg \in Registers |->
           IF reg = "A" THEN 32 .. 47 ELSE IF reg = "B" THEN {2, 66} ELSE {0, 64}]

Registered ==
  /\ registers \in [Registers -> Byte]
  /\ \A reg \in Registers : registers[reg] \in Kept[reg]

(* What is left of a routine: its next access to the data port finds its   *)
(* register selected, its next write the byte read from its register.      *)
Placed ==
  \A k \in DOMAIN todo :
    /\ todo[k].op \in DataOps =>
         IF k = 1 THEN index = todo[k].reg ELSE todo[k - 1] = Select(todo[k].reg)
    /\ todo[k].op \in Outs =>
         IF k > 2 THEN todo[k - 2] = In(todo[k].reg) ELSE value \in Kept[todo[k].reg]
    /\ todo[k].op = "icw" => k = 1 /\ registers["B"] = 2

(* A handler has an end of interrupt left for each interrupt in service.   *)
Serving ==
  /\ cpu = "handler" => /\ interrupted # "boot"
                        /\ \A k \in DOMAIN todo : todo[k].op \in HandlerOps
                        /\ \A irq \in isr : \E k \in DOMAIN todo : todo[k] = Eoi(irq)
  /\ cpu # "handler" => isr = {}
  /\ cpu = "rtc_read" => todo = <<>>

(* The flag is set by a handler only, with the clock's interrupt enabled.  *)
Flagging ==
  \A k \in DOMAIN todo : todo[k].op = "change_flag" => cpu = "handler" /\ 8 \notin masked

RtcInv == /\ TypeOK /\ todo \in Seq(Accesses)
          /\ Registered /\ Placed /\ Serving /\ Flagging /\ NoLostEdge

(* The clock's line needs both bits.                                       *)
LEMMA Lines ==
  ASSUME NEW r, r.B \in {2, 66}, r.C \in {0, 64}
  PROVE  Line(r) <=> r.B = 66 /\ r.C = 64
<1>1. ~ HasBit40(2) /\ HasBit40(66) /\ ~ HasBit40(0) /\ HasBit40(64)
  BY DEF HasBit40, mask_40
<1> QED
  BY <1>1 DEF Line

LEMMA Enabled40 ==
  /\ \A byte \in {2, 66} : With40(byte) = 66
  /\ \A byte \in {0, 64} : With40(byte) = 64
BY DEF With40, HasBit40, mask_40

(* A routine just begun is placed, whatever is selected and read.          *)
LEMMA Begun ==
  ASSUME NEW t, t \in Seq(Accesses), Ordered(t), todo' = t,
         NoInit(t) \/ registers["B"]' = 2
  PROVE  Placed'
<1> SUFFICES ASSUME NEW k \in DOMAIN t
             PROVE  /\ t[k].op \in DataOps =>
                         IF k = 1 THEN index' = t[k].reg ELSE t[k - 1] = Select(t[k].reg)
                    /\ t[k].op \in Outs =>
                         IF k > 2 THEN t[k - 2] = In(t[k].reg) ELSE value' \in Kept[t[k].reg]
                    /\ t[k].op = "icw" => k = 1 /\ registers["B"]' = 2
  BY DEF Placed
<1> QED
  BY DEF Ordered, NoInit

LEMMA InitInv == Init => RtcInv
<1> SUFFICES ASSUME Init PROVE RtcInv
  OBVIOUS
<1> DEFINE boots == i8259_init \o init_rtc \o <<EnableIrq(1), EnableIrq(8)>>
<1>1. Routine(boots)
  BY BootRoutine
<1>2. todo = boots /\ todo \in Seq(Accesses)
  BY <1>1 DEF Init, Routine
<1> HIDE DEF boots
<1>3. TypeOK
  BY RtcAssumption DEF Init, TypeOK, IRQs, Byte
<1>4. Registered
  BY DEF Init, Registered, Registers, Kept, Byte
<1>5. Placed
  <2>1. registers["B"] = 2
    BY DEF Init
  <2> QED
    BY <1>1, <1>2, <2>1 DEF Placed, Routine, Ordered
<1>6. Serving
  BY DEF Init, Serving
<1>7. Flagging
  BY <1>1, <1>2 DEF Flagging, Routine, NoFlag
<1>8. NoLostEdge
  <2>1. ~ Line(registers)
    BY Lines DEF Init
  <2> QED
    BY <2>1 DEF NoLostEdge
<1> QED
  BY <1>2, <1>3, <1>4, <1>5, <1>6, <1>7, <1>8 DEF RtcInv

(* The clock's registers change: an edge is latched, so none is lost.      *)
LEMMA EdgeLatched ==
  ASSUME NoLostEdge, NEW r, SetRegisters(r),
         \A k \in DOMAIN todo : todo[k] = In("C") =>
           ~ Line(r) \/ \E j \in DOMAIN todo' : todo'[j] = In("C")
  PROVE  NoLostEdge'
<1> SUFFICES ASSUME Line(r)
             PROVE  8 \in irr' \/ \E j \in DOMAIN todo' : todo'[j] = In("C")
  BY DEF NoLostEdge, SetRegisters
<1>1. CASE Line(registers)
  <2>1. irr' = irr
    BY <1>1 DEF SetRegisters
  <2> QED
    BY <1>1, <2>1 DEF NoLostEdge
<1>2. CASE ~ Line(registers)
  BY <1>2 DEF SetRegisters
<1> QED
  BY <1>1, <1>2

LEMMA TickInv ==
  ASSUME RtcInv, Tick PROVE RtcInv'
<1> USE DEF RtcInv
<1> DEFINE r == [registers EXCEPT !.C = With40(@)]
<1>1. /\ SetRegisters(r) /\ registers' = r /\ irr' \in {irr, irr \union {8}}
      /\ UNCHANGED <<index, isr, masked, cpu, interrupted, todo, value, interrupt_flag, opens>>
  BY DEF Tick, SetRegisters
<1>2. r \in [Registers -> Byte] /\ r["A"] = registers["A"] /\ r["B"] = registers["B"] /\ r["C"] = 64
  <2>1. registers["C"] \in {0, 64}
    BY DEF Registered, Kept, Registers
  <2>2. With40(registers["C"]) = 64
    BY <2>1, Enabled40
  <2>3. registers \in [Registers -> Byte] /\ "C" \in Registers /\ 64 \in Byte
    BY DEF Registered, Registers, Byte
  <2>4. r = [registers EXCEPT !["C"] = 64]
    BY <2>2
  <2> QED
    BY <2>3, <2>4 DEF Registers
<1> HIDE DEF r
<1>3. TypeOK'
  BY <1>1, <1>2 DEF TypeOK, Registers
<1>4. Registered'
  BY <1>1, <1>2 DEF Registered, Kept, Registers
<1>5. Placed'
  BY <1>1, <1>2 DEF Placed
<1>6. Serving' /\ Flagging'
  BY <1>1 DEF Serving, Flagging
<1>7. NoLostEdge'
  <2>1. UNCHANGED todo
    BY <1>1
  <2> QED
    BY <1>1, <2>1, EdgeLatched
<1> QED
  BY <1>1, <1>3, <1>4, <1>5, <1>6, <1>7

LEMMA KeyInv ==
  ASSUME RtcInv, Key PROVE RtcInv'
<1> USE DEF RtcInv, Key
<1>1. TypeOK'
  BY DEF TypeOK
<1>2. Registered' /\ Placed'
  BY DEF Registered, Placed
<1>3. Serving' /\ Flagging'
  BY DEF Serving, Flagging
<1>4. NoLostEdge'
  BY DEF NoLostEdge
<1> QED
  BY <1>1, <1>2, <1>3, <1>4

-----------------------------------------------------------------------------
(* The processor makes the next access.                                    *)

LEMMA Remaining ==
  ASSUME todo \in Seq(Accesses), todo # <<>>, todo' = Tail(todo)
  PROVE  /\ todo' \in Seq(Accesses)
         /\ Head(todo) = todo[1] /\ 1 \in DOMAIN todo /\ Head(todo) \in Accesses
         /\ \A k \in DOMAIN todo' :
              k \in Nat /\ k >= 1 /\ k + 1 \in DOMAIN todo /\ todo'[k] = todo[k + 1]
         /\ \A k \in DOMAIN todo :
              k \in Nat /\ (k = 1 \/ (k - 1 \in DOMAIN todo' /\ todo'[k - 1] = todo[k]))
<1>1. /\ Tail(todo) \in Seq(Accesses) /\ Len(Tail(todo)) = Len(todo) - 1
      /\ \A k \in 1 .. Len(Tail(todo)) : Tail(todo)[k] = todo[k + 1]
      /\ Head(todo) \in Accesses
  BY HeadTailProperties
<1>2. Len(todo) \in Nat /\ DOMAIN todo = 1 .. Len(todo)
      /\ DOMAIN Tail(todo) = 1 .. Len(Tail(todo))
  BY <1>1, LenProperties
<1>3. Len(todo) # 0
  BY EmptySeq
<1>4. Head(todo) = todo[1]
  OBVIOUS
<1> DEFINE rest == Tail(todo)
<1>5. todo' = rest
  OBVIOUS
<1>6. /\ rest \in Seq(Accesses) /\ Len(rest) = Len(todo) - 1 /\ DOMAIN rest = 1 .. Len(rest)
      /\ \A k \in 1 .. Len(rest) : rest[k] = todo[k + 1]
  BY <1>1, <1>2
<1> HIDE DEF rest
<1>7. ASSUME NEW k \in DOMAIN rest
      PROVE  k \in Nat /\ k >= 1 /\ k + 1 \in DOMAIN todo /\ rest[k] = todo[k + 1]
  BY <1>2, <1>6
<1>8. ASSUME NEW k \in DOMAIN todo
      PROVE  k \in Nat /\ (k = 1 \/ (k - 1 \in DOMAIN rest /\ rest[k - 1] = todo[k]))
  <2>1. k \in 1 .. Len(todo)
    BY <1>2
  <2>2. CASE k # 1
    <3>1. k - 1 \in 1 .. Len(rest) /\ (k - 1) + 1 = k
      BY <1>2, <1>6, <2>1, <2>2
    <3> QED
      BY <1>6, <2>1, <3>1
  <2> QED
    BY <2>1, <2>2
<1>9. 1 \in DOMAIN todo
  BY <1>2, <1>3
<1> QED
  BY <1>1, <1>4, <1>5, <1>6, <1>7, <1>8, <1>9

(* One access brings the next ones no further from their selection and     *)
(* their read than the code has them.                                      *)
LEMMA StaysPlaced ==
  ASSUME todo \in Seq(Accesses), todo # <<>>, todo' = Tail(todo), Registered, Placed,
         Head(todo).op = "select" => index' = Head(todo).reg,
         Head(todo).op = "in" => value' = registers[index],
         Head(todo).op # "in" => value' = value
  PROVE  Placed'
<1> SUFFICES ASSUME NEW k \in DOMAIN todo'
             PROVE  /\ todo'[k].op \in DataOps =>
                         IF k = 1 THEN index' = todo'[k].reg
                                  ELSE todo'[k - 1] = Select(todo'[k].reg)
                    /\ todo'[k].op \in Outs =>
                         IF k > 2 THEN todo'[k - 2] = In(todo'[k].reg)
                                  ELSE value' \in Kept[todo'[k].reg]
                    /\ todo'[k].op # "icw"
  BY DEF Placed
<1> DEFINE a == todo[k + 1]
<1>1. k \in Nat /\ k >= 1 /\ k + 1 \in DOMAIN todo /\ todo'[k] = a
      /\ Head(todo) = todo[1] /\ 1 \in DOMAIN todo
  BY Remaining
<1>2. /\ a.op \in DataOps => todo[k] = Select(a.reg)
      /\ a.op \in Outs => IF k > 1 THEN todo[k - 1] = In(a.reg) ELSE value \in Kept[a.reg]
      /\ a.op # "icw"
  <2>1. k + 1 # 1 /\ (k + 1) - 1 = k /\ (k + 1) - 2 = k - 1 /\ (k + 1 > 2 <=> k > 1)
    BY <1>1
  <2> QED
    BY <1>1, <2>1 DEF Placed
<1>3. \A j \in DOMAIN todo : j # 1 => j - 1 \in DOMAIN todo' /\ todo'[j - 1] = todo[j]
  BY Remaining
<1>4. DOMAIN todo = 1 .. Len(todo) /\ Len(todo) \in Nat
  BY LenProperties
<1>5. a \in Accesses
  BY <1>1, <1>4, ElementOfSeq
<1> HIDE DEF a
<1>6. ASSUME a.op \in DataOps
      PROVE  IF k = 1 THEN index' = a.reg ELSE todo'[k - 1] = Select(a.reg)
  <2>1. CASE k = 1
    <3>1. Head(todo) = Select(a.reg)
      BY <1>1, <1>2, <1>6, <2>1
    <3>2. Head(todo).op = "select" /\ Head(todo).reg = a.reg
      BY <3>1 DEF Select, Access
    <3> QED
      BY <2>1, <3>2
  <2>2. CASE k # 1
    <3>1. k \in DOMAIN todo
      BY <1>1, <1>4
    <3> QED
      BY <1>2, <1>3, <1>6, <2>2, <3>1
  <2> QED
    BY <2>1, <2>2
<1>7. ASSUME a.op \in Outs
      PROVE  IF k > 2 THEN todo'[k - 2] = In(a.reg) ELSE value' \in Kept[a.reg]
  <2>1. CASE k = 1
    <3>1. Head(todo) = Select(a.reg) /\ value \in Kept[a.reg]
      BY <1>1, <1>2, <1>7, <2>1 DEF DataOps
    <3>2. Head(todo).op = "select"
      BY <3>1 DEF Select, Access
    <3>3. value' = value
      BY <3>2
    <3> QED
      BY <2>1, <3>1, <3>3
  <2>2. CASE k = 2
    <3>1. Head(todo) = In(a.reg)
      BY <1>1, <1>2, <1>7, <2>2
    <3>2. Head(todo).op = "in" /\ Head(todo).reg = a.reg
      BY <3>1 DEF In, Access
    <3>3. index = a.reg
      BY <1>1, <3>2 DEF Placed, DataOps
    <3>4. a.reg \in Registers
      BY <1>5, <1>7 DEF Accesses, DataOps
    <3> QED
      BY <2>2, <3>2, <3>3, <3>4 DEF Registered
  <2>3. CASE k > 2
    <3>1. todo[k - 1] = In(a.reg) /\ k - 1 \in DOMAIN todo /\ k - 1 # 1
      BY <1>1, <1>2, <1>4, <1>7, <2>3
    <3>2. (k - 1) - 1 = k - 2
      BY <1>1
    <3> QED
      BY <1>3, <2>3, <3>1, <3>2
  <2> QED
    BY <1>1, <2>1, <2>2, <2>3
<1> QED
  BY <1>1, <1>2, <1>6, <1>7

(* Flagging and the ends still to come survive an access that changes      *)
(* neither the mask nor what is in service.                                *)
LEMMA StaysServing ==
  ASSUME todo \in Seq(Accesses), todo # <<>>, todo' = Tail(todo), Serving, UNCHANGED <<cpu, interrupted>>,
         isr' \subseteq isr,
         \A irq \in isr' : cpu = "handler" => todo[1] # Eoi(irq)
  PROVE  Serving'
<1>1. cpu # "rtc_read"
  BY DEF Serving
<1>2. CASE cpu = "handler"
  <2>1. interrupted' # "boot"
    BY <1>2 DEF Serving
  <2>2. \A k \in DOMAIN todo' : todo'[k].op \in HandlerOps
    BY <1>2, Remaining DEF Serving
  <2>3. ASSUME NEW irq \in isr' PROVE \E k \in DOMAIN todo' : todo'[k] = Eoi(irq)
    <3>1. PICK k \in DOMAIN todo : todo[k] = Eoi(irq)
      BY <1>2, <2>3 DEF Serving
    <3>2. k # 1
      BY <1>2, <2>3, <3>1
    <3>3. k - 1 \in DOMAIN todo' /\ todo'[k - 1] = todo[k]
      BY <3>2, Remaining
    <3> QED
      BY <3>1, <3>3
  <2> QED
    BY <1>1, <1>2, <2>1, <2>2, <2>3 DEF Serving
<1>3. CASE cpu # "handler"
  BY <1>1, <1>3 DEF Serving
<1> QED
  BY <1>2, <1>3

(* No edge is lost by an access other than the read of C.                  *)
LEMMA StillToRead ==
  ASSUME todo \in Seq(Accesses), todo # <<>>, todo' = Tail(todo), Head(todo) # In("C")
  PROVE  \A k \in DOMAIN todo : todo[k] = In("C") => \E j \in DOMAIN todo' : todo'[j] = In("C")
<1> SUFFICES ASSUME NEW k \in DOMAIN todo, todo[k] = In("C")
             PROVE  \E j \in DOMAIN todo' : todo'[j] = In("C")
  OBVIOUS
<1>1. k # 1
  BY Remaining
<1>2. k - 1 \in DOMAIN todo' /\ todo'[k - 1] = todo[k]
  BY <1>1, Remaining
<1> QED
  BY <1>2

LEMMA SelectInv ==
  ASSUME RtcInv, SelectStep, UNCHANGED <<cpu, interrupted, opens>> PROVE RtcInv'
<1> USE DEF RtcInv
<1>1. /\ todo # <<>> /\ todo' = Tail(todo) /\ Head(todo).op = "select" /\ index' = Head(todo).reg
      /\ UNCHANGED <<registers, irr, isr, masked, value, interrupt_flag>>
  BY DEF SelectStep, Next1
<1>2. /\ todo' \in Seq(Accesses) /\ Head(todo) \in Accesses /\ Head(todo) = todo[1]
      /\ \A k \in DOMAIN todo' : k + 1 \in DOMAIN todo /\ todo'[k] = todo[k + 1]
  BY <1>1, Remaining
<1>3. TypeOK'
  <2>1. Head(todo).reg \in Registers
    BY <1>1, <1>2 DEF Accesses
  <2> QED
    BY <1>1, <2>1 DEF TypeOK, Registers
<1>4. Registered'
  BY <1>1 DEF Registered
<1>5. Placed'
  BY <1>1, StaysPlaced
<1>6. Serving'
  <2>1. \A irq : todo[1] # Eoi(irq)
    BY <1>1, <1>2 DEF Eoi, Access
  <2> QED
    BY <1>1, <2>1, StaysServing
<1>7. Flagging'
  BY <1>1, <1>2 DEF Flagging
<1>8. NoLostEdge'
  <2>1. Head(todo) # In("C")
    BY <1>1 DEF In, Access
  <2> QED
    BY <1>1, <2>1, StillToRead DEF NoLostEdge
<1> QED
  BY <1>2, <1>3, <1>4, <1>5, <1>6, <1>7, <1>8

LEMMA InInv ==
  ASSUME RtcInv, InStep, UNCHANGED <<cpu, interrupted, opens>> PROVE RtcInv'
<1> USE DEF RtcInv
<1> DEFINE r == IF index = "C" THEN [registers EXCEPT !.C = 0] ELSE registers
<1>1. /\ todo # <<>> /\ todo' = Tail(todo) /\ Head(todo).op = "in" /\ value' = registers[index]
      /\ SetRegisters(r) /\ registers' = r /\ irr' \in {irr, irr \union {8}}
      /\ UNCHANGED <<index, isr, masked, interrupt_flag>>
  BY DEF InStep, Next1, SetRegisters
<1>2. /\ todo' \in Seq(Accesses) /\ Head(todo) \in Accesses /\ Head(todo) = todo[1]
      /\ 1 \in DOMAIN todo
      /\ \A k \in DOMAIN todo' : k + 1 \in DOMAIN todo /\ todo'[k] = todo[k + 1]
  BY <1>1, Remaining
<1>3. /\ r \in [Registers -> Byte] /\ r["A"] = registers["A"] /\ r["B"] = registers["B"]
      /\ r["C"] \in {0, registers["C"]} /\ (index = "C" => r["C"] = 0)
  <2>1. registers \in [Registers -> Byte] /\ "C" \in Registers /\ 0 \in Byte
    BY DEF Registered, Registers, Byte
  <2> QED
    BY <2>1 DEF Registers
<1> HIDE DEF r
<1>4. TypeOK'
  <2>1. registers[index] \in Byte
    BY DEF TypeOK
  <2> QED
    BY <1>1, <1>3, <2>1 DEF TypeOK, Registers
<1>5. Registered'
  BY <1>1, <1>3 DEF Registered, Kept, Registers
<1>6. Placed'
  BY <1>1, StaysPlaced
<1>7. Serving'
  <2>1. \A irq : todo[1] # Eoi(irq)
    BY <1>1, <1>2 DEF Eoi, Access
  <2> QED
    BY <1>1, <2>1, StaysServing
<1>8. Flagging'
  BY <1>1, <1>2 DEF Flagging
<1>9. NoLostEdge'
  <2>1. CASE Head(todo) = In("C")
    <3>1. index = "C"
      <4>1. todo[1].op \in DataOps /\ todo[1].reg = "C"
        BY <1>2, <2>1 DEF In, Access, DataOps
      <4> QED
        BY <1>2, <4>1 DEF Placed
    <3>2. ~ Line(r)
      <4>1. r.B \in {2, 66} /\ r.C \in {0, 64} /\ r.C = 0
        BY <1>3, <3>1 DEF Registered, Kept, Registers
      <4> QED
        BY <4>1, Lines
    <3> QED
      BY <1>1, <3>2, EdgeLatched
  <2>2. CASE Head(todo) # In("C")
    BY <1>1, <2>2, StillToRead, EdgeLatched
  <2> QED
    BY <2>1, <2>2
<1> QED
  BY <1>2, <1>4, <1>5, <1>6, <1>7, <1>8, <1>9

LEMMA OutInv ==
  ASSUME RtcInv, OutStep, UNCHANGED <<cpu, interrupted, opens>> PROVE RtcInv'
<1> USE DEF RtcInv
<1>1. /\ todo # <<>> /\ todo' = Tail(todo) /\ Head(todo).op \in Outs
      /\ UNCHANGED <<index, isr, masked, value, interrupt_flag>>
  BY DEF OutStep, Next1, Outs
<1>2. /\ todo' \in Seq(Accesses) /\ Head(todo) \in Accesses /\ Head(todo) = todo[1]
      /\ 1 \in DOMAIN todo
      /\ \A k \in DOMAIN todo' : k + 1 \in DOMAIN todo /\ todo'[k] = todo[k + 1]
  BY <1>1, Remaining
<1>3. index = todo[1].reg /\ value \in Kept[todo[1].reg]
  BY <1>1, <1>2 DEF Placed, DataOps
<1>4. PICK byte : /\ SetRegisters([registers EXCEPT ![index] = byte])
                  /\ \/ index = "A" /\ byte \in 32 .. 47
                     \/ index = "B" /\ byte \in {2, 66}
  <2>1. CASE Head(todo).op = "out enabled"
    <3>1. SetRegisters([registers EXCEPT ![index] = With40(value)])
      BY <2>1 DEF OutStep, Next1
    <3>2. index = "B"
      BY <1>2, <1>3, <2>1 DEF Accesses
    <3>3. value \in {2, 66}
      BY <1>3, <3>2 DEF Kept, Registers
    <3>4. With40(value) = 66
      BY <3>3, Enabled40
    <3> QED
      BY <3>1, <3>2, <3>4
  <2>2. CASE Head(todo).op = "out rate"
    <3>1. SetRegisters([registers EXCEPT ![index] = 16 * (value \div 16) + Arg])
      BY <2>2 DEF OutStep, Next1
    <3>2. index = "A" /\ Arg \in 6 .. 15
      BY <1>2, <1>3, <2>2 DEF Accesses, Arg
    <3>3. value \in 32 .. 47
      BY <1>3, <3>2 DEF Kept, Registers
    <3>4. 16 * (value \div 16) + Arg \in 32 .. 47
      BY <3>2, <3>3
    <3> QED
      BY <3>1, <3>2, <3>4
  <2> QED
    BY <1>1, <2>1, <2>2 DEF Outs
<1> DEFINE r == [registers EXCEPT ![index] = byte]
<1>5. SetRegisters(r) /\ registers' = r /\ irr' \in {irr, irr \union {8}}
  BY <1>4 DEF SetRegisters
<1>6. /\ r \in [Registers -> Byte]
      /\ \A reg \in Registers : r[reg] = IF reg = index THEN byte ELSE registers[reg]
  <2>1. registers \in [Registers -> Byte] /\ index \in Registers /\ byte \in Byte
    BY <1>4 DEF Registered, Registers, Byte
  <2> QED
    BY <2>1
<1> HIDE DEF r
<1>7. TypeOK'
  BY <1>1, <1>5, <1>6 DEF TypeOK, Registers
<1>8. Registered'
  <2>1. ASSUME NEW reg \in Registers PROVE r[reg] \in Kept[reg]
    <3>1. CASE reg = index
      BY <1>4, <1>6, <3>1 DEF Kept
    <3>2. CASE reg # index
      BY <1>6, <3>2 DEF Registered
    <3> QED
      BY <3>1, <3>2
  <2> QED
    BY <1>5, <1>6, <2>1 DEF Registered
<1>9. Placed'
  BY <1>1, StaysPlaced DEF Outs
<1>10. Serving'
  <2>1. Head(todo).op # "eoi"
    BY <1>1 DEF Outs
  <2>2. \A irq : todo[1] # Eoi(irq)
    BY <1>2, <2>1 DEF Eoi, Access
  <2> QED
    BY <1>1, <2>2, StaysServing
<1>11. Flagging'
  BY <1>1, <1>2 DEF Flagging
<1>12. NoLostEdge'
  <2>1. Head(todo).op # "in"
    BY <1>1 DEF Outs
  <2>2. Head(todo) # In("C")
    BY <2>1 DEF In, Access
  <2> QED
    BY <1>1, <1>5, <2>2, StillToRead, EdgeLatched
<1> QED
  BY <1>2, <1>7, <1>8, <1>9, <1>10, <1>11, <1>12

LEMMA MaskInv ==
  ASSUME RtcInv, MaskStep, UNCHANGED <<cpu, interrupted, opens>> PROVE RtcInv'
<1> USE DEF RtcInv
<1>1. /\ todo # <<>> /\ todo' = Tail(todo) /\ Head(todo).op \in {"enable", "disable"}
      /\ masked' \in {masked \ {Arg}, masked \union {Arg}}
      /\ UNCHANGED <<index, registers, irr, isr, value, interrupt_flag>>
  BY DEF MaskStep, Next1
<1>2. /\ todo' \in Seq(Accesses) /\ Head(todo) \in Accesses /\ Head(todo) = todo[1]
      /\ 1 \in DOMAIN todo
      /\ \A k \in DOMAIN todo' : k + 1 \in DOMAIN todo /\ todo'[k] = todo[k + 1]
  BY <1>1, Remaining
<1>3. Head(todo).op \notin {"select", "in", "change_flag", "eoi"}
  BY <1>1
<1>4. TypeOK'
  <2>1. Arg \in IRQs
    BY <1>1, <1>2 DEF Arg, Accesses, IrqOps
  <2> QED
    BY <1>1, <2>1 DEF TypeOK
<1>5. Registered'
  BY <1>1 DEF Registered
<1>6. Placed'
  BY <1>1, <1>3, StaysPlaced
<1>7. Serving'
  <2>1. \A irq : todo[1] # Eoi(irq)
    BY <1>2, <1>3 DEF Eoi, Access
  <2> QED
    BY <1>1, <2>1, StaysServing
<1>8. Flagging'
  <2>1. cpu # "handler"
    BY <1>2, <1>3 DEF Serving, HandlerOps
  <2> QED
    BY <1>2, <2>1 DEF Flagging
<1>9. NoLostEdge'
  <2>1. Head(todo) # In("C")
    BY <1>3 DEF In, Access
  <2> QED
    BY <1>1, <2>1, StillToRead DEF NoLostEdge
<1> QED
  BY <1>2, <1>4, <1>5, <1>6, <1>7, <1>8, <1>9

LEMMA InitStepInv ==
  ASSUME RtcInv, InitStep, UNCHANGED <<cpu, interrupted, opens>> PROVE RtcInv'
<1> USE DEF RtcInv
<1>1. /\ todo # <<>> /\ todo' = Tail(todo) /\ Head(todo).op = "icw"
      /\ irr' = {} /\ isr' = {} /\ masked' = IRQs
      /\ UNCHANGED <<index, registers, value, interrupt_flag>>
  BY DEF InitStep, Next1
<1>2. /\ todo' \in Seq(Accesses) /\ Head(todo) \in Accesses /\ Head(todo) = todo[1]
      /\ 1 \in DOMAIN todo
      /\ \A k \in DOMAIN todo' : k + 1 \in DOMAIN todo /\ todo'[k] = todo[k + 1]
  BY <1>1, Remaining
<1>3. TypeOK'
  BY <1>1 DEF TypeOK
<1>4. Registered'
  BY <1>1 DEF Registered
<1>5. Placed'
  BY <1>1, StaysPlaced
<1>6. Serving'
  BY <1>1, StaysServing
<1>7. Flagging'
  <2>1. cpu # "handler"
    BY <1>1, <1>2 DEF Serving, HandlerOps
  <2> QED
    BY <1>2, <2>1 DEF Flagging
<1>8. NoLostEdge'
  <2>1. registers["B"] = 2
    BY <1>1, <1>2 DEF Placed
  <2>2. registers["C"] \in {0, 64}
    BY DEF Registered, Kept, Registers
  <2>3. ~ Line(registers)
    BY <2>1, <2>2, Lines
  <2> QED
    BY <1>1, <2>3 DEF NoLostEdge
<1> QED
  BY <1>2, <1>3, <1>4, <1>5, <1>6, <1>7, <1>8

LEMMA EoiInv ==
  ASSUME RtcInv, EoiStep, UNCHANGED <<cpu, interrupted, opens>> PROVE RtcInv'
<1> USE DEF RtcInv
<1>1. /\ todo # <<>> /\ todo' = Tail(todo) /\ Head(todo).op = "eoi" /\ isr' = isr \ {Arg}
      /\ UNCHANGED <<index, registers, irr, masked, value, interrupt_flag>>
  BY DEF EoiStep, Next1
<1>2. /\ todo' \in Seq(Accesses) /\ Head(todo) \in Accesses /\ Head(todo) = todo[1]
      /\ \A k \in DOMAIN todo' : k + 1 \in DOMAIN todo /\ todo'[k] = todo[k + 1]
  BY <1>1, Remaining
<1>3. TypeOK'
  BY <1>1 DEF TypeOK
<1>4. Registered'
  BY <1>1 DEF Registered
<1>5. Placed'
  BY <1>1, StaysPlaced
<1>6. Serving'
  <2>1. \A irq \in isr' : todo[1] # Eoi(irq)
    BY <1>1, <1>2 DEF Eoi, Access, Arg
  <2> QED
    BY <1>1, <2>1, StaysServing
<1>7. Flagging'
  BY <1>1, <1>2 DEF Flagging
<1>8. NoLostEdge'
  <2>1. Head(todo) # In("C")
    BY <1>1 DEF In, Access
  <2> QED
    BY <1>1, <2>1, StillToRead DEF NoLostEdge
<1> QED
  BY <1>2, <1>3, <1>4, <1>5, <1>6, <1>7, <1>8

LEMMA ChangeFlagInv ==
  ASSUME RtcInv, ChangeFlagStep, UNCHANGED <<cpu, interrupted, opens>> PROVE RtcInv'
<1> USE DEF RtcInv
<1>1. /\ todo # <<>> /\ todo' = Tail(todo) /\ Head(todo).op = "change_flag"
      /\ interrupt_flag' = 1
      /\ UNCHANGED <<index, registers, irr, isr, masked, value>>
  BY DEF ChangeFlagStep, Next1, deviceVars
<1>2. /\ todo' \in Seq(Accesses) /\ Head(todo) \in Accesses /\ Head(todo) = todo[1]
      /\ \A k \in DOMAIN todo' : k + 1 \in DOMAIN todo /\ todo'[k] = todo[k + 1]
  BY <1>1, Remaining
<1>3. TypeOK'
  BY <1>1 DEF TypeOK
<1>4. Registered'
  BY <1>1 DEF Registered
<1>5. Placed'
  BY <1>1, StaysPlaced
<1>6. Serving'
  <2>1. \A irq : todo[1] # Eoi(irq)
    BY <1>1, <1>2 DEF Eoi, Access
  <2> QED
    BY <1>1, <2>1, StaysServing
<1>7. Flagging'
  BY <1>1, <1>2 DEF Flagging
<1>8. NoLostEdge'
  <2>1. Head(todo) # In("C")
    BY <1>1 DEF In, Access
  <2> QED
    BY <1>1, <2>1, StillToRead DEF NoLostEdge
<1> QED
  BY <1>2, <1>3, <1>4, <1>5, <1>6, <1>7, <1>8

LEMMA PortStepInv ==
  ASSUME RtcInv, PortStep PROVE RtcInv'
<1>1. UNCHANGED <<cpu, interrupted, opens>>
  BY DEF PortStep
<1>2. CASE SelectStep
  BY <1>1, <1>2, SelectInv
<1>3. CASE InStep
  BY <1>1, <1>3, InInv
<1>4. CASE OutStep
  BY <1>1, <1>4, OutInv
<1>5. CASE MaskStep
  BY <1>1, <1>5, MaskInv
<1>6. CASE InitStep
  BY <1>1, <1>6, InitStepInv
<1>7. CASE EoiStep
  BY <1>1, <1>7, EoiInv
<1>8. CASE ChangeFlagStep
  BY <1>1, <1>8, ChangeFlagInv
<1> QED
  BY <1>2, <1>3, <1>4, <1>5, <1>6, <1>7, <1>8 DEF PortStep

-----------------------------------------------------------------------------
(* Interrupts, and routines that begin and end.                            *)

LEMMA RoutineEndsInv ==
  ASSUME RtcInv, RoutineEnds PROVE RtcInv'
<1> USE DEF RtcInv
<1>1. /\ todo = <<>>
      /\ UNCHANGED <<index, registers, irr, isr, masked, interrupted, todo, value,
                     interrupt_flag, opens>>
      /\ \/ cpu = "boot" /\ cpu' = "user"
         \/ cpu = "handler" /\ cpu' = interrupted
  BY DEF RoutineEnds, deviceVars
<1>2. TypeOK'
  BY <1>1 DEF TypeOK
<1>3. Registered'
  BY <1>1 DEF Registered
<1>4. Placed'
  BY <1>1 DEF Placed
<1>5. isr = {}
  BY <1>1 DEF Serving
<1>6. cpu' # "handler"
  BY <1>1 DEF TypeOK
<1>7. Serving'
  BY <1>1, <1>5, <1>6 DEF Serving
<1>8. Flagging'
  BY <1>1 DEF Flagging
<1>9. NoLostEdge'
  BY <1>1 DEF NoLostEdge
<1> QED
  BY <1>1, <1>2, <1>3, <1>4, <1>7, <1>8, <1>9

(* A handler begins on a processor at rest.                                *)
LEMMA ClockInterruptInv ==
  ASSUME RtcInv, ClockInterrupt PROVE RtcInv'
<1> USE DEF RtcInv
<1>1. /\ todo = <<>> /\ cpu \in {"user", "rtc_read"} /\ isr = {} /\ 8 \notin masked
      /\ irr' = irr \ {8} /\ isr' = {2, 8} /\ cpu' = "handler" /\ interrupted' = cpu
      /\ todo' = RTC_int
      /\ UNCHANGED <<index, registers, masked, value, interrupt_flag, opens>>
  <2>1. todo = <<>> /\ todo' = RTC_int \o todo
    BY DEF ClockInterrupt, Interrupt, InterruptsOn
  <2>2. RTC_int \o <<>> = RTC_int
    BY HandlerRoutines, ConcatEmptySeq
  <2>3. todo' = RTC_int
    BY <2>1, <2>2
  <2> QED
    BY <2>1, <2>3 DEF ClockInterrupt, Interrupt, InterruptsOn, Offered
<1>2. /\ RTC_int \in Seq(Accesses) /\ Ordered(RTC_int)
      /\ \A k \in DOMAIN RTC_int : RTC_int[k].op \in HandlerOps
      /\ \E k \in DOMAIN RTC_int : RTC_int[k] = In("C")
      /\ \A irq \in {2, 8} : \E k \in DOMAIN RTC_int : RTC_int[k] = Eoi(irq)
  BY HandlerRoutines
<1> DEFINE handler == RTC_int
<1>3. todo' = handler
  BY <1>1
<1> HIDE DEF handler
<1>4. TypeOK'
  BY <1>1 DEF TypeOK, IRQs
<1>5. Registered'
  BY <1>1 DEF Registered
<1>6. Placed'
  <2>1. NoInit(RTC_int)
    BY <1>2 DEF NoInit, HandlerOps
  <2> QED
    BY <1>1, <1>2, <2>1, Begun
<1>7. Serving' /\ Flagging'
  <2>1. /\ interrupted' # "boot"
        /\ \A k \in DOMAIN todo' : todo'[k].op \in HandlerOps
        /\ \A irq \in isr' : \E k \in DOMAIN todo' : todo'[k] = Eoi(irq)
    BY <1>1, <1>2
  <2> QED
    BY <1>1, <2>1 DEF Serving, Flagging
<1>8. NoLostEdge'
  <2>1. \E k \in DOMAIN todo' : todo'[k] = In("C")
    BY <1>1, <1>2
  <2> QED
    BY <2>1 DEF NoLostEdge
<1> QED
  BY <1>1, <1>2, <1>4, <1>5, <1>6, <1>7, <1>8

LEMMA KeyboardInterruptInv ==
  ASSUME RtcInv, KeyboardInterrupt PROVE RtcInv'
<1> USE DEF RtcInv
<1>1. /\ Routine(send_eoi(1))
      /\ \A k \in DOMAIN send_eoi(1) : send_eoi(1)[k].op \in HandlerOps \ {"change_flag"}
      /\ \E k \in DOMAIN send_eoi(1) : send_eoi(1)[k] = Eoi(1)
  BY HandlerRoutines
<1>2. /\ todo = <<>> /\ cpu \in {"user", "rtc_read"} /\ isr = {}
      /\ irr' = irr \ {1} /\ isr' = {1} /\ cpu' = "handler" /\ interrupted' = cpu
      /\ todo' = send_eoi(1)
      /\ UNCHANGED <<index, registers, masked, value, interrupt_flag, opens>>
  <2>1. /\ todo = <<>> /\ cpu \in {"user", "rtc_read"} /\ isr' = isr \union {1}
        /\ irr' = irr \ {1} /\ cpu' = "handler" /\ interrupted' = cpu
        /\ todo' = send_eoi(1) \o todo
        /\ UNCHANGED <<index, registers, masked, value, interrupt_flag, opens>>
    BY DEF KeyboardInterrupt, Interrupt, InterruptsOn
  <2>2. send_eoi(1) \o <<>> = send_eoi(1)
    BY <1>1, ConcatEmptySeq DEF Routine
  <2>3. isr = {}
    BY <2>1 DEF Serving
  <2> QED
    BY <2>1, <2>2, <2>3
<1>3. send_eoi(1) \in Seq(Accesses) /\ Ordered(send_eoi(1)) /\ NoInit(send_eoi(1))
  BY <1>1 DEF Routine, NoInit, HandlerOps
<1>4. TypeOK'
  BY <1>2 DEF TypeOK, IRQs
<1>5. Registered'
  BY <1>2 DEF Registered
<1>6. Placed'
  BY <1>2, <1>3, Begun
<1>7. Serving' /\ Flagging'
  BY <1>1, <1>2 DEF Serving, Flagging
<1>8. NoLostEdge'
  BY <1>2 DEF NoLostEdge
<1> QED
  BY <1>2, <1>3, <1>4, <1>5, <1>6, <1>7, <1>8

(* A call begins its routine on a processor at rest, and changes no device *)
(* in doing so.                                                            *)
LEMMA CallInv ==
  ASSUME RtcInv, NEW t, Routine(t), NoInit(t), Call(t),
         interrupt_flag' \in {0, 1}, opens' \in 0 .. MaxOpens,
         cpu' \in {"user", "rtc_read"}, cpu' = "rtc_read" => t = <<>>
  PROVE  RtcInv'
<1> USE DEF RtcInv
<1>1. /\ cpu = "user" /\ todo = <<>> /\ todo' = t
      /\ UNCHANGED <<index, registers, irr, isr, masked, interrupted, value>>
  BY DEF Call, deviceVars
<1>2. t \in Seq(Accesses) /\ Ordered(t) /\ NoFlag(t)
  BY DEF Routine
<1>3. TypeOK'
  BY <1>1 DEF TypeOK
<1>4. Registered'
  BY <1>1 DEF Registered
<1>5. Placed'
  BY <1>1, <1>2, Begun
<1>6. Serving'
  BY <1>1 DEF Serving
<1>7. Flagging'
  BY <1>1, <1>2 DEF Flagging, NoFlag
<1>8. NoLostEdge'
  BY <1>1 DEF NoLostEdge
<1> QED
  BY <1>1, <1>2, <1>3, <1>4, <1>5, <1>6, <1>7, <1>8

LEMMA CallsInv ==
  ASSUME RtcInv,
         rtc_open \/ rtc_close \/ rtc_read \/ \E r \in Rates : rtc_write(r)
  PROVE  RtcInv'
<1>1. /\ interrupt_flag \in {0, 1} /\ opens \in 0 .. MaxOpens /\ MaxOpens \in Nat
  BY RtcAssumption DEF RtcInv, TypeOK
<1>2. CASE rtc_open
  <2>1. /\ Call(init_rtc) /\ opens' \in 0 .. MaxOpens /\ cpu' = "user"
        /\ interrupt_flag' = interrupt_flag
    BY <1>1, <1>2 DEF rtc_open, Call
  <2> QED
    BY <1>1, <2>1, CallRoutines, CallInv
<1>3. CASE rtc_close
  <2>1. /\ Call(<<DisableIrq(8)>>) /\ opens' \in 0 .. MaxOpens /\ cpu' = "user"
        /\ interrupt_flag' = interrupt_flag
    BY <1>1, <1>3 DEF rtc_close, Call
  <2> QED
    BY <1>1, <2>1, CallRoutines, CallInv
<1>4. CASE rtc_read
  <2>1. Call(<<>>) /\ interrupt_flag' = 0 /\ opens' = opens /\ cpu' = "rtc_read"
    BY <1>4 DEF rtc_read
  <2> QED
    BY <1>1, <2>1, CallRoutines, CallInv
<1>5. ASSUME NEW r \in Rates, rtc_write(r) PROVE RtcInv'
  <2>1. /\ Call(SetRate(r)) /\ opens' = opens /\ cpu' = "user"
        /\ interrupt_flag' = interrupt_flag
    BY <1>5 DEF rtc_write, Call
  <2> QED
    BY <1>1, <2>1, CallRoutines, CallInv
<1> QED
  BY <1>2, <1>3, <1>4, <1>5

LEMMA ReadReturnsInv ==
  ASSUME RtcInv, ReadReturns PROVE RtcInv'
<1> USE DEF RtcInv, ReadReturns, deviceVars
<1>1. TypeOK'
  BY DEF TypeOK
<1>2. Registered' /\ Placed'
  BY DEF Registered, Placed
<1>3. Serving' /\ Flagging'
  BY DEF Serving, Flagging
<1>4. NoLostEdge'
  BY DEF NoLostEdge
<1> QED
  BY <1>1, <1>2, <1>3, <1>4

-----------------------------------------------------------------------------
(* The theorems.                                                           *)

LEMMA StepInv == RtcInv /\ [Next]_vars => RtcInv'
<1> SUFFICES ASSUME RtcInv, [Next]_vars PROVE RtcInv'
  OBVIOUS
<1>1. CASE Tick
  BY <1>1, TickInv
<1>2. CASE Key
  BY <1>2, KeyInv
<1>3. CASE Handle
  BY <1>3, PortStepInv, RoutineEndsInv, ClockInterruptInv, KeyboardInterruptInv DEF Handle
<1>4. CASE rtc_open \/ rtc_close \/ rtc_read \/ \E r \in Rates : rtc_write(r)
  BY <1>4, CallsInv
<1>5. CASE ReadReturns
  BY <1>5, ReadReturnsInv
<1>6. CASE UNCHANGED vars
  <2>1. UNCHANGED <<index, registers, irr, isr, masked, cpu, interrupted, todo, value,
                    interrupt_flag, opens>>
    BY <1>6 DEF vars, deviceVars
  <2>2. TypeOK' /\ Registered' /\ Placed'
    BY <2>1 DEF RtcInv, TypeOK, Registered, Placed
  <2>3. Serving' /\ Flagging' /\ NoLostEdge'
    BY <2>1 DEF RtcInv, Serving, Flagging, NoLostEdge
  <2> QED
    BY <2>1, <2>2, <2>3 DEF RtcInv
<1> QED
  BY <1>1, <1>2, <1>3, <1>4, <1>5, <1>6 DEF Next

LEMMA InvAlways == Spec => []RtcInv
BY InitInv, StepInv, PTL DEF Spec

(* For every set of rates and number of descriptors, the variables have    *)
(* their types.                                                            *)
THEOREM TypeCorrect == Spec => []TypeOK
<1>1. RtcInv => TypeOK
  BY DEF RtcInv
<1> QED
  BY <1>1, InvAlways, PTL

(* rtc.c, RTC_int: whatever ticks, keys and interrupts come between, every *)
(* access to the data port finds the register selected that it means.      *)
THEOREM SelectedCorrect == Spec => []SelectedRegister
<1>1. RtcInv => SelectedRegister
  <2> SUFFICES ASSUME RtcInv, todo # <<>>, Head(todo).op \in DataOps
               PROVE  index = Head(todo).reg
    BY DEF SelectedRegister, DataOps, Outs
  <2>1. todo \in Seq(Accesses)
    BY DEF RtcInv
  <2>2. 1 \in DOMAIN todo /\ Head(todo) = todo[1]
    <3>1. Len(todo) \in Nat \ {0} /\ DOMAIN todo = 1 .. Len(todo)
      BY <2>1, EmptySeq, LenProperties
    <3> QED
      BY <2>1, <3>1
  <2> QED
    BY <2>2 DEF RtcInv, Placed
<1> QED
  BY <1>1, InvAlways, PTL

(* init_rtc, rtc_open, rtc_write: reading, changing and writing back keeps *)
(* the divider of A and the low bits of B, whatever interrupts come.       *)
THEOREM BitsCorrect == Spec => []OtherBitsKept
<1>1. RtcInv => OtherBitsKept
  <2> SUFFICES ASSUME RtcInv PROVE OtherBitsKept
    OBVIOUS
  <2>1. registers["A"] \in 32 .. 47 /\ registers["B"] \in {2, 66}
    BY DEF RtcInv, Registered, Kept, Registers
  <2> QED
    BY <2>1 DEF OtherBitsKept, mask_40
<1> QED
  BY <1>1, InvAlways, PTL

(* RTC_int reads C, and the controllers hold what they cannot deliver: no  *)
(* edge of the clock's line is lost, with IRQ 8 masked or not.             *)
THEOREM NoEdgeLost == Spec => []NoLostEdge
<1>1. RtcInv => NoLostEdge
  BY DEF RtcInv
<1> QED
  BY <1>1, InvAlways, PTL

(* send_eoi tells both controllers: no handler returns with an interrupt   *)
(* in service that would hold the later ones back.                         *)
THEOREM InServiceCorrect == Spec => []NothingLeftInService
<1>1. RtcInv => NothingLeftInService
  BY DEF RtcInv, Serving, NothingLeftInService
<1> QED
  BY <1>1, InvAlways, PTL

(* Every step of the ports, handlers and calls is a step of the clock that *)
(* the callers see, or leaves that clock as it is.                         *)
LEMMA PortStepIsClock ==
  ASSUME RtcInv, PortStep
  PROVE  Clock!Next \/ UNCHANGED Clock!vars
<1>1. /\ UNCHANGED <<cpu, interrupted>>
      /\ Reading' = Reading
  BY DEF PortStep, Reading
<1>2. CASE MaskStep \/ InitStep
  <2>1. interrupt_flag' = interrupt_flag
    BY <1>2 DEF MaskStep, InitStep
  <2>2. (8 \in masked)' \in BOOLEAN
    OBVIOUS
  <2> QED
    BY <1>1, <2>1, <2>2 DEF Clock!Next, Clock!SetMask
<1>3. CASE ChangeFlagStep
  <2>1. /\ todo # <<>> /\ todo' = Tail(todo) /\ Head(todo).op = "change_flag"
        /\ interrupt_flag' = 1 /\ masked' = masked
    BY <1>3 DEF ChangeFlagStep, Next1, deviceVars
  <2>2. 1 \in DOMAIN todo /\ todo[1].op = "change_flag"
    BY <2>1, Remaining DEF RtcInv
  <2>3. 8 \notin masked
    BY <2>2 DEF RtcInv, Flagging
  <2> QED
    BY <1>1, <2>1, <2>3 DEF Clock!Next, Clock!Ticks
<1>4. CASE SelectStep \/ InStep \/ OutStep \/ EoiStep
  <2>1. UNCHANGED <<interrupt_flag, masked>>
    BY <1>4 DEF SelectStep, InStep, OutStep, EoiStep
  <2> QED
    BY <1>1, <2>1 DEF Clock!vars
<1> QED
  BY <1>2, <1>3, <1>4 DEF PortStep

LEMMA OtherStepIsClock ==
  ASSUME RtcInv, Next, ~ PortStep
  PROVE  Clock!Next \/ UNCHANGED Clock!vars
<1>1. CASE Tick \/ Key
  BY <1>1 DEF Tick, Key, Reading, Clock!vars
<1>2. CASE RoutineEnds
  <2>1. interrupted \in {"boot", "user", "rtc_read"} /\ UNCHANGED <<interrupt_flag, masked>>
    BY <1>2 DEF RtcInv, TypeOK, RoutineEnds, deviceVars
  <2>2. Reading' = Reading
    BY <1>2, <2>1 DEF RoutineEnds, Reading
  <2> QED
    BY <2>1, <2>2 DEF Clock!vars
<1>3. CASE ClockInterrupt \/ KeyboardInterrupt
  <2>1. /\ cpu \in {"user", "rtc_read"} /\ cpu' = "handler" /\ interrupted' = cpu
        /\ UNCHANGED <<interrupt_flag, masked>>
    BY <1>3 DEF ClockInterrupt, KeyboardInterrupt, Interrupt, InterruptsOn
  <2>2. Reading' = Reading
    BY <2>1 DEF Reading
  <2> QED
    BY <2>1, <2>2 DEF Clock!vars
<1>4. CASE rtc_open \/ rtc_close \/ \E r \in Rates : rtc_write(r)
  <2>1. UNCHANGED <<cpu, interrupted, interrupt_flag, masked>>
    BY <1>4 DEF rtc_open, rtc_close, rtc_write, Call, deviceVars
  <2> QED
    BY <2>1 DEF Clock!vars, Reading
<1>5. CASE rtc_read
  <2>1. cpu = "user" /\ cpu' = "rtc_read" /\ interrupt_flag' = 0 /\ masked' = masked
    BY <1>5 DEF rtc_read, Call, deviceVars
  <2> QED
    BY <2>1 DEF Reading, Clock!Next, Clock!StartRead
<1>6. CASE ReadReturns
  <2>1. /\ cpu = "rtc_read" /\ cpu' = "user" /\ interrupt_flag = 1 /\ interrupt_flag' = 0
        /\ masked' = masked
    BY <1>6 DEF ReadReturns, deviceVars, RtcInv, TypeOK
  <2> QED
    BY <2>1 DEF Reading, Clock!Next, Clock!EndRead
<1> QED
  BY <1>1, <1>2, <1>3, <1>4, <1>5, <1>6 DEF Next, Handle

(* With every port access and handler step between, the driver is a clock  *)
(* whose reader waits for a tick that comes after its call.                *)
THEOREM ClockImplemented == Spec => ImplementsClock
<1>1. Init => Clock!Init
  BY DEF Init, Clock!Init, Reading
<1>2. RtcInv /\ [Next]_vars => [Clock!Next]_(Clock!vars)
  <2> SUFFICES ASSUME RtcInv, [Next]_vars
               PROVE  Clock!Next \/ UNCHANGED Clock!vars
    OBVIOUS
  <2>1. CASE UNCHANGED vars
    BY <2>1 DEF vars, deviceVars, Clock!vars, Reading
  <2> QED
    BY <2>1, PortStepIsClock, OtherStepIsClock
<1> QED
  BY <1>1, <1>2, InvAlways, PTL DEF Spec, ImplementsClock, Clock!Spec

-----------------------------------------------------------------------------
(* A reader that waits with IRQ 8 enabled is woken.                        *)

(* The accesses left of the running routine.                               *)
Left == { todo[k] : k \in DOMAIN todo }

(* The clock's interrupt and the slave's line are enabled, or will be      *)
(* before the routine of entry ends, and nothing takes that back; who      *)
(* reads C tells of the tick in the next step.                             *)
Wired ==
  /\ registers["B"] = 66 \/ OutEnabled("B") \in Left
  /\ (2 \notin masked /\ \A a \in Left : a.op # "icw") \/ EnableIrq(2) \in Left
  /\ \A a \in Left : a.op = "disable" => a.arg = 8
  /\ \A k \in DOMAIN todo :
       todo[k] = In("C") => k + 1 \in DOMAIN todo /\ todo[k + 1] = ChangeFlag

(* A routine that masks no line but the clock's and reads no C.            *)
Plain(t) ==
  \A k \in DOMAIN t : t[k] # In("C") /\ (t[k].op = "disable" => t[k].arg = 8)

(* A routine that makes an access.                                         *)
Makes(t, a) == \E k \in DOMAIN t : t[k] = a

LEMMA JoinedPlain ==
  ASSUME NEW s, NEW t, s \in Seq(Accesses), t \in Seq(Accesses)
  PROVE  /\ Plain(s) /\ Plain(t) => Plain(s \o t)
         /\ \A a : Makes(s, a) \/ Makes(t, a) => Makes(s \o t, a)
<1> DEFINE u == s \o t
<1>1. /\ u \in Seq(Accesses) /\ Len(u) = Len(s) + Len(t)
      /\ \A k \in 1 .. Len(s) + Len(t) : u[k] = IF k <= Len(s) THEN s[k] ELSE t[k - Len(s)]
  BY ConcatProperties
<1>2. /\ Len(s) \in Nat /\ DOMAIN s = 1 .. Len(s)
      /\ Len(t) \in Nat /\ DOMAIN t = 1 .. Len(t)
      /\ DOMAIN u = 1 .. Len(s) + Len(t)
  BY <1>1, LenProperties
<1> HIDE DEF u
<1>3. ASSUME NEW k \in DOMAIN u
      PROVE  \/ k \in DOMAIN s /\ u[k] = s[k]
             \/ k - Len(s) \in DOMAIN t /\ u[k] = t[k - Len(s)]
  BY <1>1, <1>2
<1>4. ASSUME NEW k \in DOMAIN s PROVE k \in DOMAIN u /\ u[k] = s[k]
  BY <1>1, <1>2
<1>5. ASSUME NEW k \in DOMAIN t PROVE Len(s) + k \in DOMAIN u /\ u[Len(s) + k] = t[k]
  BY <1>1, <1>2
<1>6. Plain(s) /\ Plain(t) => Plain(u)
  BY <1>3 DEF Plain
<1>7. ASSUME NEW a, Makes(s, a) \/ Makes(t, a) PROVE Makes(u, a)
  BY <1>4, <1>5, <1>7 DEF Makes
<1> QED
  BY <1>6, <1>7 DEF u

LEMMA WritePlain ==
  ASSUME NEW reg \in {"A", "B"}, NEW out \in Accesses, out.op \in Outs
  PROVE  Plain(<<Select(reg), In(reg), Select(reg), out>>)
<1> DEFINE t == <<Select(reg), In(reg), Select(reg), out>>
<1>1. /\ DOMAIN t = 1 .. 4
      /\ t[1] = Select(reg) /\ t[2] = In(reg) /\ t[3] = Select(reg) /\ t[4] = out
  OBVIOUS
<1> HIDE DEF t
<1>2. /\ Select(reg).op = "select" /\ In(reg).op = "in" /\ In(reg).reg = reg
      /\ In("C").op = "in" /\ In("C").reg = "C"
  BY DEF Select, In, Access
<1>3. ASSUME NEW k \in 1 .. 4 PROVE t[k].op # "disable" /\ (t[k].op # "in" \/ t[k].reg # "C")
  <2>1. k = 1 \/ k = 2 \/ k = 3 \/ k = 4
    OBVIOUS
  <2> QED
    BY <1>1, <1>2, <2>1 DEF Outs
<1>4. Plain(t)
  BY <1>1, <1>2, <1>3 DEF Plain
<1> QED
  BY <1>4 DEF t

(* The steps of the calls.                                                 *)
LEMMA PlainRoutines ==
  /\ Plain(<<>>) /\ Plain(<<DisableIrq(8)>>) /\ Plain(send_eoi(1))
  /\ \A r \in 6 .. 15 : Plain(SetRate(r))
  /\ Plain(init_rtc) /\ Makes(init_rtc, OutEnabled("B"))
<1>1. /\ DisableIrq(8).arg = 8 /\ DisableIrq(8).op = "disable" /\ Eoi(1).op = "eoi"
      /\ EnableIrq(8).op = "enable"
      /\ In("C").op = "in" /\ In("C").reg = "C"
  BY DEF DisableIrq, Eoi, EnableIrq, In, Access
<1>2. Plain(<<>>)
  BY DEF Plain
<1>3. ASSUME NEW a, a.op # "in", a.op = "disable" => a.arg = 8
      PROVE  Plain(<<a>>)
  BY <1>1, <1>3 DEF Plain
<1>4. "A" \in {"A", "B"} /\ "B" \in {"A", "B"}
  OBVIOUS
<1>5. ASSUME NEW r \in 6 .. 15 PROVE Plain(SetRate(r))
  <2>1. OutRate("A", r) \in Accesses /\ OutRate("A", r).op \in Outs
    BY AccessTypes, AccessFields DEF Outs
  <2> QED
    BY <1>4, <2>1, WritePlain DEF SetRate
<1>6. send_eoi(1) = <<Eoi(1)>>
  BY DEF send_eoi
<1>7. Plain(init_rtc) /\ Makes(init_rtc, OutEnabled("B"))
  <2> DEFINE enables == <<Select("B"), In("B"), Select("B"), OutEnabled("B")>>
             begins  == <<Select("B"), In("B"), Select("B"), OutEnabled("B"), EnableIrq(8)>>
  <2>1. Plain(enables) /\ Makes(enables, OutEnabled("B"))
    <3>1. Plain(enables)
      <4>1. OutEnabled("B") \in Accesses /\ OutEnabled("B").op \in Outs
        BY AccessTypes, AccessFields DEF Outs
      <4> QED
        BY <1>4, <4>1, WritePlain
    <3>2. 4 \in DOMAIN enables /\ enables[4] = OutEnabled("B")
      OBVIOUS
    <3> QED
      BY <3>1, <3>2 DEF Makes
  <2>2. begins = enables \o <<EnableIrq(8)>>
    OBVIOUS
  <2>3. Plain(<<EnableIrq(8)>>) /\ Plain(SetRate(15))
    BY <1>1, <1>3, <1>5
  <2>4. /\ enables \in Seq(Accesses) /\ <<EnableIrq(8)>> \in Seq(Accesses)
        /\ begins \in Seq(Accesses) /\ SetRate(15) \in Seq(Accesses)
    <3>1. EnableIrq(8) \in Accesses /\ OutEnabled("B") \in Accesses
          /\ Select("B") \in Accesses /\ In("B") \in Accesses
      BY AccessTypes DEF IRQs, Registers
    <3>2. SetRate(15) \in Seq(Accesses)
      BY SetRateRoutine DEF Routine
    <3> QED
      BY <3>1, <3>2
  <2> HIDE DEF enables, begins
  <2>5. Plain(begins) /\ Makes(begins, OutEnabled("B"))
    BY <2>1, <2>2, <2>3, <2>4, JoinedPlain
  <2>6. /\ Plain(begins \o SetRate(15))
        /\ Makes(begins \o SetRate(15), OutEnabled("B"))
    BY <2>3, <2>4, <2>5, JoinedPlain
  <2> QED
    BY <2>6 DEF begins, init_rtc, rate
<1> QED
  BY <1>1, <1>2, <1>3, <1>5, <1>6, <1>7

LEMMA WiredInit == Init => Wired
<1> SUFFICES ASSUME Init PROVE Wired
  OBVIOUS
<1> DEFINE enables == <<EnableIrq(1), EnableIrq(8)>>
           first == i8259_init \o init_rtc
<1>1. /\ InitPics \in Accesses /\ EnableIrq(1) \in Accesses /\ EnableIrq(2) \in Accesses
      /\ EnableIrq(8) \in Accesses
      /\ In("C").op = "in" /\ InitPics.op = "icw"
      /\ \A irq : EnableIrq(irq).op = "enable"
  BY AccessTypes, AccessFields DEF IRQs
<1>2. /\ i8259_init \in Seq(Accesses) /\ Plain(i8259_init)
      /\ Makes(i8259_init, EnableIrq(2))
  <2>1. /\ i8259_init \in Seq(Accesses) /\ DOMAIN i8259_init = {1, 2}
        /\ i8259_init[1] = InitPics /\ i8259_init[2] = EnableIrq(2)
    BY <1>1 DEF i8259_init
  <2> QED
    BY <1>1, <2>1 DEF Plain, Makes
<1>3. enables \in Seq(Accesses) /\ Plain(enables)
  <2>1. /\ enables \in Seq(Accesses) /\ DOMAIN enables = {1, 2}
        /\ enables[1] = EnableIrq(1) /\ enables[2] = EnableIrq(8)
    BY <1>1
  <2> QED
    BY <1>1, <2>1 DEF Plain
<1>4. init_rtc \in Seq(Accesses)
  BY InitRoutine DEF Routine
<1>5. /\ first \in Seq(Accesses) /\ Plain(first)
      /\ Makes(first, EnableIrq(2))
      /\ Makes(first, OutEnabled("B"))
  <2>1. first \in Seq(Accesses)
    BY <1>2, <1>4, ConcatProperties
  <2> QED
    BY <1>2, <1>4, <2>1, JoinedPlain, PlainRoutines
<1>6. todo = first \o enables
  BY DEF Init
<1> HIDE DEF first, enables
<1>7. /\ Plain(todo)
      /\ Makes(todo, EnableIrq(2))
      /\ Makes(todo, OutEnabled("B"))
  BY <1>3, <1>5, <1>6, JoinedPlain
<1> QED
  BY <1>7 DEF Wired, Left, Plain, Makes

(* What is left after one more access.                                     *)
LEMMA LeftShrinks ==
  ASSUME RtcInv, todo # <<>>, todo' = Tail(todo)
  PROVE  /\ Head(todo) \in Left /\ Left' \subseteq Left
         /\ \A a \in Left : a = Head(todo) \/ a \in Left'
         /\ \A a \in Left' : a.op # "icw"
<1>1. /\ todo' \in Seq(Accesses) /\ Head(todo) = todo[1] /\ 1 \in DOMAIN todo
      /\ \A k \in DOMAIN todo' :
           k \in Nat /\ k >= 1 /\ k + 1 \in DOMAIN todo /\ todo'[k] = todo[k + 1]
      /\ \A k \in DOMAIN todo :
           k \in Nat /\ (k = 1 \/ (k - 1 \in DOMAIN todo' /\ todo'[k - 1] = todo[k]))
  BY Remaining DEF RtcInv
<1>2. Head(todo) \in Left
  BY <1>1 DEF Left
<1>3. Left' \subseteq Left
  BY <1>1 DEF Left
<1>4. \A a \in Left : a = Head(todo) \/ a \in Left'
  BY <1>1 DEF Left
<1>5. ASSUME NEW k \in DOMAIN todo' PROVE todo'[k].op # "icw"
  <2>1. k + 1 \in DOMAIN todo /\ todo'[k] = todo[k + 1] /\ k + 1 # 1
    BY <1>1
  <2> QED
    BY <2>1 DEF RtcInv, Placed
<1>6. \A a \in Left' : a.op # "icw"
  BY <1>5 DEF Left
<1> QED
  BY <1>2, <1>3, <1>4, <1>6

LEMMA FirstPlaced ==
  ASSUME RtcInv, 1 \in DOMAIN todo
  PROVE  /\ todo[1].op \in DataOps => index = todo[1].reg
         /\ todo[1].op \in Outs => value \in Kept[todo[1].reg]
<1>1. ~ (1 > 2)
  OBVIOUS
<1> HIDE DEF DataOps, Outs, Kept
<1> QED
  BY <1>1 DEF RtcInv, Placed

LEMMA WiredPort ==
  ASSUME RtcInv, Wired, PortStep
  PROVE  Wired'
<1>1. todo # <<>> /\ todo' = Tail(todo)
  BY DEF PortStep, SelectStep, InStep, OutStep, MaskStep, InitStep, EoiStep, ChangeFlagStep, Next1
<1>2. /\ Head(todo) \in Left /\ Left' \subseteq Left
      /\ \A a \in Left : a = Head(todo) \/ a \in Left'
      /\ \A a \in Left' : a.op # "icw"
  BY <1>1, LeftShrinks
<1>3. /\ Head(todo) = todo[1] /\ 1 \in DOMAIN todo /\ Head(todo) \in Accesses
      /\ \A k \in DOMAIN todo' :
           k \in Nat /\ k >= 1 /\ k + 1 \in DOMAIN todo /\ todo'[k] = todo[k + 1]
      /\ \A k \in DOMAIN todo :
           k \in Nat /\ (k = 1 \/ (k - 1 \in DOMAIN todo' /\ todo'[k - 1] = todo[k]))
  BY <1>1, Remaining DEF RtcInv
<1> DEFINE op == Head(todo).op
<1>4. registers'["B"] = 66 \/ OutEnabled("B") \in Left'
  <2>1. CASE OutStep /\ op = "out enabled"
    <3>1. registers' = [registers EXCEPT ![index] = With40(value)]
      BY <2>1 DEF OutStep, Next1, SetRegisters
    <3>2. todo[1].op \in Outs /\ todo[1].op \in DataOps /\ todo[1].reg = "B"
      BY <1>3, <2>1 DEF Accesses, Outs, DataOps
    <3>3. index = "B" /\ value \in {2, 66}
      <4>1. /\ todo[1].op \in DataOps => index = todo[1].reg
            /\ todo[1].op \in Outs => value \in Kept[todo[1].reg]
        BY <1>3, FirstPlaced
      <4>2. Kept["B"] = {2, 66}
        BY DEF Kept, Registers
      <4> QED
        BY <3>2, <4>1, <4>2
    <3>4. With40(value) = 66
      BY <3>3, Enabled40
    <3> QED
      BY <3>1, <3>3, <3>4 DEF RtcInv, Registered, Registers
  <2>2. CASE ~ (OutStep /\ op = "out enabled")
    <3>1. op # "out enabled"
      BY <2>2 DEF PortStep, SelectStep, InStep, OutStep, MaskStep, InitStep, EoiStep,
                  ChangeFlagStep, Next1
    <3>2. registers'["B"] = registers["B"]
      <4>1. CASE SelectStep \/ MaskStep \/ InitStep \/ EoiStep \/ ChangeFlagStep
        BY <4>1 DEF SelectStep, MaskStep, InitStep, EoiStep, ChangeFlagStep, deviceVars
      <4>2. CASE InStep
        BY <4>2 DEF InStep, SetRegisters, RtcInv, Registered, Registers
      <4>3. CASE OutStep
        <5>1. op = "out rate"
          BY <3>1, <4>3 DEF OutStep, Next1
        <5>2. todo[1].op \in DataOps /\ todo[1].reg = "A"
          BY <1>3, <5>1 DEF Accesses, DataOps, Outs
        <5>3. index = "A"
          BY <1>3, <5>2 DEF RtcInv, Placed
        <5>4. registers' = [registers EXCEPT !["A"] = 16 * (value \div 16) + Arg]
          BY <4>3, <3>1, <5>3 DEF OutStep, Next1, SetRegisters
        <5> QED
          BY <5>4 DEF RtcInv, Registered, Registers
      <4> QED
        BY <4>1, <4>2, <4>3 DEF PortStep
    <3>3. OutEnabled("B") # Head(todo)
      <4>1. OutEnabled("B").op = "out enabled"
        BY AccessFields
      <4> QED
        BY <3>1, <4>1
    <3> QED
      BY <1>2, <3>2, <3>3 DEF Wired
  <2> QED
    BY <2>1, <2>2
<1>5. (2 \notin masked' /\ \A a \in Left' : a.op # "icw") \/ EnableIrq(2) \in Left'
  <2>1. CASE Head(todo) = EnableIrq(2)
    <3>1. op = "enable" /\ Arg = 2
      <4>1. EnableIrq(2).op = "enable" /\ EnableIrq(2).arg = 2
        BY AccessFields
      <4> QED
        BY <2>1, <4>1 DEF Arg
    <3>2. masked' = masked \ {2}
      BY <3>1 DEF PortStep, SelectStep, InStep, OutStep, MaskStep, InitStep, EoiStep,
                  ChangeFlagStep, Next1
    <3> QED
      BY <1>2, <3>2
  <2>2. CASE Head(todo) # EnableIrq(2) /\ EnableIrq(2) \in Left
    BY <1>2, <2>2
  <2>3. CASE 2 \notin masked /\ \A a \in Left : a.op # "icw"
    <3>1. op # "icw"
      BY <1>2, <2>3
    <3>2. op = "disable" => Arg = 8
      BY <1>2 DEF Wired, Arg
    <3>3. 2 \notin masked'
      <4>1. CASE SelectStep \/ InStep \/ OutStep \/ EoiStep \/ ChangeFlagStep
        BY <2>3, <4>1 DEF SelectStep, InStep, OutStep, EoiStep, ChangeFlagStep, deviceVars
      <4>2. CASE MaskStep
        BY <2>3, <3>2, <4>2 DEF MaskStep, Next1
      <4>3. ~ InitStep
        BY <3>1 DEF InitStep, Next1
      <4> QED
        BY <4>1, <4>2, <4>3 DEF PortStep
    <3> QED
      BY <1>2, <3>3
  <2> QED
    BY <2>1, <2>2, <2>3 DEF Wired
<1>6. \A a \in Left' : a.op = "disable" => a.arg = 8
  BY <1>2 DEF Wired
<1>7. ASSUME NEW k \in DOMAIN todo', todo'[k] = In("C")
      PROVE  k + 1 \in DOMAIN todo' /\ todo'[k + 1] = ChangeFlag
  <2> DEFINE j == k + 1
  <2>1. j \in DOMAIN todo /\ todo[j] = In("C") /\ k \in Nat /\ k >= 1
    BY <1>3, <1>7
  <2>2. j + 1 \in DOMAIN todo /\ todo[j + 1] = ChangeFlag
    BY <2>1 DEF Wired
  <2>3. (j + 1) - 1 \in DOMAIN todo' /\ todo'[(j + 1) - 1] = todo[j + 1]
    BY <1>3, <2>1, <2>2
  <2>4. (j + 1) - 1 = k + 1
    BY <2>1
  <2> QED
    BY <2>2, <2>3, <2>4
<1> QED
  BY <1>4, <1>5, <1>6, <1>7 DEF Wired

(* Where no routine runs, both lines are enabled; a routine that begins    *)
(* leaves them so.                                                         *)
LEMMA WiredBegins ==
  ASSUME RtcInv, Wired, todo = <<>>, UNCHANGED <<registers, masked>>,
         \A a \in Left' : a.op # "icw" /\ (a.op = "disable" => a.arg = 8),
         \A k \in DOMAIN todo' :
           todo'[k] = In("C") => k + 1 \in DOMAIN todo' /\ todo'[k + 1] = ChangeFlag
  PROVE  Wired'
<1>1. Left = {}
  BY DEF Left
<1>2. registers["B"] = 66 /\ 2 \notin masked
  BY <1>1 DEF Wired
<1> QED
  BY <1>2 DEF Wired

LEMMA WiredStep == RtcInv /\ Wired /\ [Next]_vars => Wired'
<1> SUFFICES ASSUME RtcInv, Wired, [Next]_vars PROVE Wired'
  OBVIOUS
<1>1. ASSUME UNCHANGED <<todo, masked>>, registers'["B"] = registers["B"] PROVE Wired'
  BY <1>1 DEF Wired, Left
<1>2. CASE Tick
  <2>1. UNCHANGED <<todo, masked>> /\ registers' = [registers EXCEPT !["C"] = With40(registers["C"])]
    BY <1>2 DEF Tick, SetRegisters
  <2> QED
    BY <1>1, <2>1 DEF RtcInv, Registered, Registers
<1>3. CASE Key \/ ReadReturns \/ UNCHANGED vars
  BY <1>1, <1>3 DEF Key, ReadReturns, vars, deviceVars
<1>4. CASE RoutineEnds
  BY <1>1, <1>4 DEF RoutineEnds, deviceVars
<1>5. ASSUME NEW t \in Seq(Accesses), Plain(t), NoInit(t), todo = <<>>, todo' = t,
             UNCHANGED <<registers, masked>>
      PROVE  Wired'
  <2>1. \A a \in Left' : a.op # "icw" /\ (a.op = "disable" => a.arg = 8)
    BY <1>5 DEF Plain, NoInit, Left
  <2>2. \A k \in DOMAIN todo' : todo'[k] # In("C")
    BY <1>5 DEF Plain
  <2> QED
    BY <1>5, <2>1, <2>2, WiredBegins
<1>6. CASE ClockInterrupt
  <2>1. /\ todo = <<>> /\ todo' = RTC_int \o todo /\ UNCHANGED <<registers, masked>>
    BY <1>6 DEF ClockInterrupt, Interrupt, InterruptsOn
  <2>2. RTC_int \o <<>> = RTC_int
    BY HandlerRoutines, ConcatEmptySeq
  <2> DEFINE t == RTC_int
  <2>3. /\ \A k \in DOMAIN t : t[k].op \in HandlerOps
        /\ \A k \in DOMAIN t : t[k] = In("C") => k + 1 \in DOMAIN t /\ t[k + 1] = ChangeFlag
        /\ todo' = t
    BY <2>1, <2>2, HandlerRoutines
  <2> HIDE DEF t
  <2>4. \A a \in Left' : a.op # "icw" /\ a.op # "disable"
    BY <2>3 DEF Left, HandlerOps
  <2> QED
    BY <2>1, <2>3, <2>4, WiredBegins
<1>7. CASE KeyboardInterrupt
  <2>1. /\ todo = <<>> /\ todo' = send_eoi(1) \o todo /\ UNCHANGED <<registers, masked>>
    BY <1>7 DEF KeyboardInterrupt, Interrupt, InterruptsOn
  <2>2. send_eoi(1) \in Seq(Accesses) /\ NoInit(send_eoi(1))
    BY HandlerRoutines DEF Routine, NoInit, HandlerOps
  <2>3. send_eoi(1) \o <<>> = send_eoi(1)
    BY <2>2, ConcatEmptySeq
  <2> QED
    BY <1>5, <2>1, <2>2, <2>3, PlainRoutines
<1>8. ASSUME NEW t, Call(t), Plain(t), Routine(t), NoInit(t) PROVE Wired'
  <2>1. todo = <<>> /\ todo' = t /\ UNCHANGED <<registers, masked>> /\ t \in Seq(Accesses)
    BY <1>8 DEF Call, deviceVars, Routine
  <2> QED
    BY <1>5, <1>8, <2>1
<1>9. CASE rtc_open
  BY <1>8, <1>9, CallRoutines, PlainRoutines DEF rtc_open
<1>10. CASE rtc_close
  BY <1>8, <1>10, CallRoutines, PlainRoutines DEF rtc_close
<1>11. CASE rtc_read
  BY <1>8, <1>11, CallRoutines, PlainRoutines DEF rtc_read
<1>12. ASSUME NEW r \in Rates, rtc_write(r) PROVE Wired'
  <2>1. Call(SetRate(r)) /\ r \in 6 .. 15
    BY <1>12, RtcAssumption DEF rtc_write
  <2> QED
    BY <1>8, <2>1, CallRoutines, PlainRoutines
<1> QED
  BY <1>2, <1>3, <1>4, <1>6, <1>7, <1>9, <1>10, <1>11, <1>12, WiredPort DEF Next, Handle

LEMMA WiredAlways == Spec => []Wired
BY WiredInit, WiredStep, InvAlways, PTL DEF Spec

(* A read that has begun and not ended, with IRQ 8 enabled.                *)
Waits   == Reading /\ 8 \notin masked
Latched == Waits /\ 8 \in irr
(* RTC_int has interrupted it and has the flag still to set.               *)
Pending == Waits /\ ChangeFlag \in Left
Told    == Waits /\ interrupt_flag = 1

(* In a read the clock and the slave's line are enabled.                   *)
LEMMA WiredReader ==
  ASSUME RtcInv, Wired, Reading
  PROVE  registers["B"] = 66 /\ 2 \notin masked
<1>1. \A a \in Left : a.op \in HandlerOps
  BY DEF RtcInv, Serving, Reading, Left
<1>2. OutEnabled("B").op = "out enabled" /\ EnableIrq(2).op = "enable"
  BY AccessFields
<1> QED
  BY <1>1, <1>2 DEF Wired, HandlerOps

(* With its line high the clock has asked for an interrupt, or is being    *)
(* answered.                                                               *)
LEMMA HighIsSeen ==
  ASSUME RtcInv, Wired, Waits, registers["C"] # 0
  PROVE  Latched \/ Pending
<1>1. registers["B"] = 66 /\ registers["C"] = 64
  <2>1. registers["C"] \in {0, 64}
    BY DEF RtcInv, Registered, Kept, Registers
  <2> QED
    BY <2>1, WiredReader DEF Waits
<1>2. Line(registers)
  BY <1>1, Lines
<1>3. CASE 8 \in irr
  BY <1>3 DEF Latched
<1>4. ASSUME NEW k \in DOMAIN todo, todo[k] = In("C") PROVE ChangeFlag \in Left
  BY <1>4 DEF Wired, Left
<1> QED
  BY <1>2, <1>3, <1>4 DEF RtcInv, NoLostEdge, Pending

(* A clock interrupt taken in a read will set the flag.                    *)
LEMMA InterruptTells ==
  ASSUME RtcInv, Waits, ClockInterrupt
  PROVE  Pending'
<1>1. /\ cpu \in {"user", "rtc_read"} /\ cpu' = "handler" /\ interrupted' = cpu
      /\ todo = <<>> /\ todo' = RTC_int \o todo /\ masked' = masked
  BY DEF ClockInterrupt, Interrupt, InterruptsOn
<1>2. Waits'
  BY <1>1 DEF Waits, Reading
<1>3. RTC_int \o <<>> = RTC_int
  BY HandlerRoutines, ConcatEmptySeq
<1>4. \E k \in DOMAIN RTC_int : RTC_int[k] = ChangeFlag
  BY HandlerRoutines
<1>5. ChangeFlag \in Left'
  BY <1>1, <1>3, <1>4 DEF Left
<1> QED
  BY <1>2, <1>5 DEF Pending

(* Until the read ends: the mask stays, a tick latched stays until it is   *)
(* taken, and what RTC_int has to tell is told.                            *)
LEMMA ReadGoesOn ==
  ASSUME RtcInv, Waits, Next
  PROVE  \/ cpu' = "user"
         \/ /\ Waits'
            /\ interrupt_flag' \in {interrupt_flag, 1}
            /\ 8 \in irr => 8 \in irr' \/ Pending'
            /\ Pending => Pending' \/ interrupt_flag' = 1
<1>1. CASE Tick \/ Key
  BY <1>1 DEF Tick, Key, SetRegisters, Waits, Reading, Pending, Left
<1>2. CASE RoutineEnds
  <2>1. cpu = "handler" /\ cpu' = "rtc_read" /\ todo = <<>>
        /\ UNCHANGED <<masked, irr, interrupt_flag>>
    BY <1>2 DEF RoutineEnds, Waits, Reading, deviceVars
  <2> QED
    BY <2>1 DEF Waits, Reading, Pending, Left
<1>3. CASE ClockInterrupt
  <2>1. interrupt_flag' = interrupt_flag
    BY <1>3 DEF ClockInterrupt, Interrupt
  <2> QED
    BY <1>3, <2>1, InterruptTells DEF Pending
<1>4. CASE KeyboardInterrupt
  <2>1. /\ cpu = "rtc_read" /\ cpu' = "handler" /\ interrupted' = cpu /\ todo = <<>>
        /\ irr' = irr \ {1} /\ UNCHANGED <<masked, interrupt_flag>>
    BY <1>4 DEF KeyboardInterrupt, Interrupt, InterruptsOn, Waits, Reading
  <2> QED
    BY <2>1 DEF Waits, Reading, Pending, Left
<1>5. CASE ReadReturns
  BY <1>5 DEF ReadReturns
<1>6. CASE PortStep
  <2>1. /\ todo # <<>> /\ todo' = Tail(todo) /\ UNCHANGED <<cpu, interrupted>>
    BY <1>6 DEF PortStep, SelectStep, InStep, OutStep, MaskStep, InitStep, EoiStep,
                ChangeFlagStep, Next1
  <2>2. /\ Head(todo) \in Left /\ \A a \in Left : a = Head(todo) \/ a \in Left'
    BY <2>1, LeftShrinks
  <2>3. Head(todo).op \in HandlerOps
    BY <2>1, <2>2 DEF RtcInv, Serving, Waits, Reading, Left
  <2>4. SelectStep \/ InStep \/ EoiStep \/ ChangeFlagStep
    BY <1>6, <2>3 DEF PortStep, OutStep, MaskStep, InitStep, Next1, HandlerOps
  <2>5. masked' = masked /\ Waits'
    BY <2>1, <2>4 DEF SelectStep, InStep, EoiStep, ChangeFlagStep, deviceVars, Waits, Reading
  <2>6. 8 \in irr => 8 \in irr'
    BY <2>4 DEF SelectStep, InStep, EoiStep, ChangeFlagStep, deviceVars, SetRegisters
  <2>7. \/ ChangeFlagStep /\ interrupt_flag' = 1
        \/ interrupt_flag' = interrupt_flag /\ Head(todo).op # "change_flag"
    BY <2>4 DEF SelectStep, InStep, EoiStep, ChangeFlagStep, Next1
  <2>8. ChangeFlag.op = "change_flag"
    BY AccessFields
  <2> QED
    BY <2>2, <2>5, <2>6, <2>7, <2>8 DEF Pending
<1>7. ~ (rtc_open \/ rtc_close \/ rtc_read \/ \E r \in Rates : rtc_write(r))
  BY DEF rtc_open, rtc_close, rtc_read, rtc_write, Call, Waits, Reading
<1> QED
  BY <1>1, <1>2, <1>3, <1>4, <1>5, <1>6, <1>7 DEF Next, Handle

(* The steps fairness asks for are enabled when their guards hold.         *)
TickEnabled      == [](Reading /\ registers["C"] = 0 => ENABLED <<Tick>>_vars)
InterruptEnabled == [](InterruptsOn /\ Offered(8) => ENABLED <<ClockInterrupt>>_vars)
ReturnEnabled    == [](cpu = "rtc_read" /\ todo = <<>> /\ interrupt_flag # 0
                         => ENABLED <<ReadReturns>>_vars)

(* rtc.c, rtc_read: with the fairness of FairSpec and a typist who pauses  *)
(* again and again, a read that has begun with IRQ 8 unmasked gets past    *)
(* its wait: the next edge is latched, delivered when the keyboard's line  *)
(* is quiet, and its handler sets the flag the read waits for.             *)
THEOREM EnabledReaderWoken ==
  FairSpec /\ TickEnabled /\ InterruptEnabled /\ ReturnEnabled => EnabledReaderWakes
<1> DEFINE Quiet  == Reading /\ registers["C"] = 0
           Takes  == InterruptsOn /\ Offered(8)
           Leaves == cpu = "rtc_read" /\ todo = <<>> /\ interrupt_flag # 0
           Pause  == InterruptsOn /\ 1 \notin irr
           User   == cpu = "user"
           Starts == cpu = "rtc_read" /\ 8 \notin masked
<1>1. RtcInv /\ [Next]_vars /\ Waits => Waits' \/ User'
  BY ReadGoesOn DEF Waits, Reading, vars, deviceVars
<1>2. RtcInv /\ [Next]_vars /\ Latched => Latched' \/ Pending' \/ User'
  BY ReadGoesOn DEF Latched, Waits, Reading, vars, deviceVars
<1>3. RtcInv /\ [Next]_vars /\ Pending => Pending' \/ Told' \/ User'
  BY ReadGoesOn DEF Pending, Told, Waits, Reading, Left, vars, deviceVars
<1>4. RtcInv /\ [Next]_vars /\ Told => Told' \/ User'
  BY ReadGoesOn DEF Told, Waits, Reading, vars, deviceVars
<1>5. RtcInv /\ <<Tick>>_vars => ~ Quiet'
  <2> SUFFICES ASSUME RtcInv, Tick PROVE registers'["C"] # 0
    OBVIOUS
  <2>1. registers' = [registers EXCEPT !["C"] = With40(registers["C"])]
    BY DEF Tick, SetRegisters
  <2>2. registers["C"] \in {0, 64} /\ registers \in [Registers -> Byte]
    BY DEF RtcInv, Registered, Kept, Registers
  <2> QED
    BY <2>1, <2>2, Enabled40 DEF Registers
<1>6. RtcInv /\ Wired /\ Waits => Quiet \/ Latched \/ Pending
  BY HighIsSeen DEF Waits
<1>7. RtcInv /\ Wired /\ Latched /\ Pause => Takes
  BY WiredReader DEF RtcInv, Serving, InterruptsOn, Offered, Latched, Waits
<1>8. RtcInv /\ Latched /\ <<ClockInterrupt>>_vars => Pending'
  BY InterruptTells DEF Latched
<1>9. RtcInv /\ Pending => ~ Pause
  BY DEF Pending, Left, InterruptsOn
<1>10. Told /\ Pause => Leaves
  BY DEF Told, Waits, Reading, InterruptsOn
<1>11. <<ReadReturns>>_vars => User'
  BY DEF ReadReturns
<1>12. Starts => Waits
  BY DEF Waits, Reading
<1>13. TickEnabled <=> [](Quiet => ENABLED <<Tick>>_vars)
  BY DEF TickEnabled
<1>14. InterruptEnabled <=> [](Takes => ENABLED <<ClockInterrupt>>_vars)
  BY DEF InterruptEnabled
<1>15. ReturnEnabled <=> [](Leaves => ENABLED <<ReadReturns>>_vars)
  BY DEF ReturnEnabled
<1>16. EnabledReaderWakes <=> ([]<>Pause => (Starts ~> User))
  BY DEF EnabledReaderWakes, TypistPauses
<1> HIDE DEF Quiet, Takes, Leaves, Pause, User, Starts
<1> QED
  BY <1>1, <1>2, <1>3, <1>4, <1>5, <1>6, <1>7, <1>8, <1>9, <1>10, <1>11, <1>12,
     <1>13, <1>14, <1>15, <1>16, InvAlways, WiredAlways, PTL DEF FairSpec, Spec

=============================================================================
