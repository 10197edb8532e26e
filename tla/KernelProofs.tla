---------------------------- MODULE KernelProofs ----------------------------
(***************************************************************************)
(* Proofs about Kernel, for every set of vectors programs use and every    *)
(* depth of the kernel's stack: what may interrupt what, and that the      *)
(* kernel's start gets to the shell.                                       *)
(***************************************************************************)
EXTENDS Kernel, SequenceTheorems, TLAPS

(* Code of a higher rank runs on top of code of a lower one only.          *)
Started == {"entry", "execute", "loop", "halted", "user"}
Rank(c) == CASE c \in Started             -> 1
             [] c \in {"call", "waiting"} -> 2
             [] c = "exception"           -> 3
             [] OTHER                     -> 4

SetUp == kernel.idt = TRUE /\ kernel.tss = TRUE /\ kernel.remapped = TRUE

(* What the processor executes is set up for.                              *)
Prepared ==
  /\ "video" \in kernel.mapped
  /\ interrupts = TRUE => SetUp
  /\ code \notin {"entry", "halted"} => SetUp
  /\ code = "entry" => /\ step > 4 => kernel.tss = TRUE
                       /\ step > 5 => kernel.idt = TRUE
                       /\ step > 6 => kernel.remapped = TRUE
  /\ code = "execute" => step \in 1 .. 5
  /\ \A k \in DOMAIN frames : frames[k].code = "execute" => step \in 1 .. 5

(* What was interrupted: in the order of the ranks, from one of the first. *)
(* A program and an exception are interrupted with IF set only.  With the  *)
(* cursor off the screen exceptions follow on anything.                    *)
Follows(c, d) == Rank(c) < Rank(d) \/ (cursor = "off" /\ d = "exception")

Stacked ==
  /\ \A k \in DOMAIN frames :
       /\ frames[k].code \notin {"reset", "lost"}
       /\ frames[k].code = "user" => frames[k].interrupts = TRUE
       /\ frames[k].code = "exception" => frames[k].interrupts = TRUE \/ cursor = "off"
       /\ k = 1 => frames[k].code \in Started
  /\ \A j, k \in DOMAIN frames : j < k => Follows(frames[j].code, frames[k].code)

(* What runs on top of it.                                                 *)
OnTop ==
  /\ code = "reset" => cursor = "off"
  /\ cursor = "off" => code \in {"exception", "reset"} \union Handlers
  /\ cursor = "off" /\ code \in Handlers => frames[Len(frames)].code = "exception"
  /\ code \in Started \ {"loop"} => frames = <<>>
  /\ code = "loop" /\ interrupts = TRUE => frames = <<>>
  /\ code \in {"call", "waiting", "exception"} \union Handlers => frames # <<>>
  /\ code \in {"call", "waiting"} \union Handlers =>
       \A k \in DOMAIN frames : Rank(frames[k].code) < Rank(code)
  /\ code = "exception" /\ interrupts = TRUE =>
       \A k \in DOMAIN frames : Follows(frames[k].code, code)
  /\ code \in Handlers \union {"call"} => interrupts = FALSE
  /\ code = "user" => interrupts = TRUE

(* What has interrupted a call or a handler.                               *)
Alone ==
  \A k \in DOMAIN frames : frames[k].code \in Handlers \union {"call"} =>
    /\ code \in {"exception", "reset"} /\ interrupts = FALSE
    /\ \A j \in DOMAIN frames : k < j => frames[j].code = "exception"

KernelInv == TypeOK /\ Prepared /\ Stacked /\ OnTop /\ Alone

-----------------------------------------------------------------------------
(* The gates                                                               *)

Gates == [type : {"trap", "interrupt"}, dpl : {0, USER_LEVEL_DPL}, present : BOOLEAN,
          handler : {"none"}]

LEMMA FilledGates ==
  ASSUME NEW v \in Vectors
  PROVE  /\ fill_idt[v] \in Gates
         /\ fill_idt[v].type = "trap" <=> v < RESERVED_NUM
         /\ fill_idt[v].dpl = USER_LEVEL_DPL <=> v = SYS_CALL_VEC
         /\ fill_idt[v].present = TRUE <=>
              v < RESERVED_NUM \/ v \in {KEYBOARD_VEC, RTC_VEC, SYS_CALL_VEC}
<1> USE DEF RESERVED_NUM, KEYBOARD_VEC, RTC_VEC, SYS_CALL_VEC, USER_LEVEL_DPL
<1>1. CASE v < RESERVED_NUM
  <2>1. fill_idt[v] = [type |-> "trap", dpl |-> 0, present |-> TRUE, handler |-> "none"]
    BY <1>1 DEF fill_idt, EmptyGate
  <2> QED BY <1>1, <2>1 DEF Gates
<1>2. CASE v = SYS_CALL_VEC
  <2>1. fill_idt[v] = [EmptyGate("interrupt", TRUE) EXCEPT !.dpl = USER_LEVEL_DPL]
    BY <1>2 DEF fill_idt
  <2>2. fill_idt[v] = [type |-> "interrupt", dpl |-> 3, present |-> TRUE, handler |-> "none"]
    BY <2>1 DEF EmptyGate
  <2> QED BY <1>2, <2>2 DEF Gates
<1>3. CASE ~ (v < RESERVED_NUM) /\ v # SYS_CALL_VEC
  <2>1. fill_idt[v] = EmptyGate("interrupt", v \in {KEYBOARD_VEC, RTC_VEC})
    BY <1>3 DEF fill_idt
  <2> DEFINE p == v \in {KEYBOARD_VEC, RTC_VEC}
  <2>2. fill_idt[v] = [type |-> "interrupt", dpl |-> 0, present |-> p, handler |-> "none"]
    BY <2>1 DEF EmptyGate
  <2>3. p \in BOOLEAN /\ (p = TRUE <=> v \in {KEYBOARD_VEC, RTC_VEC})
    OBVIOUS
  <2> HIDE DEF p
  <2> QED BY <1>3, <2>2, <2>3 DEF Gates
<1> QED BY <1>1, <1>2, <1>3

(* What init_idt gives each vector that something uses.                    *)
LEMMA HandledGates ==
  ASSUME NEW v \in Vectors
  PROVE  /\ init_idt[v].type = "trap" <=> v < RESERVED_NUM
         /\ init_idt[v].dpl = USER_LEVEL_DPL <=> v = SYS_CALL_VEC
         /\ v < RESERVED_NUM \/ v \in {KEYBOARD_VEC, RTC_VEC, SYS_CALL_VEC} => GateOf(v) = init_idt[v]
         /\ v <= 18 => init_idt[v].handler = "exception"
         /\ v = RTC_VEC => init_idt[v].handler = "RTC_int"
         /\ v = KEYBOARD_VEC => init_idt[v].handler = "keyboard_int"
         /\ v = SYS_CALL_VEC => init_idt[v].handler = "call"
<1> DEFINE h == CASE v <= 18           -> "exception"
                  [] v = RTC_VEC       -> "RTC_int"
                  [] v = KEYBOARD_VEC  -> "keyboard_int"
                  [] v = SYS_CALL_VEC  -> "call"
                  [] OTHER             -> "none"
<1>1. init_idt[v] = [fill_idt[v] EXCEPT !.handler = h]
  BY DEF init_idt
<1>2. /\ v <= 18 => h = "exception"
      /\ v = RTC_VEC => h = "RTC_int"
      /\ v = KEYBOARD_VEC => h = "keyboard_int"
      /\ v = SYS_CALL_VEC => h = "call"
  BY DEF KEYBOARD_VEC, RTC_VEC, SYS_CALL_VEC
<1> HIDE DEF h
<1>3. fill_idt[v] \in Gates
  BY FilledGates
<1>4. /\ init_idt[v].type = fill_idt[v].type /\ init_idt[v].dpl = fill_idt[v].dpl
      /\ init_idt[v].handler = h
  BY <1>1, <1>3 DEF Gates
<1>5. fill_idt[v].present = TRUE => init_idt[v].present = TRUE
  BY <1>1, <1>3 DEF Gates
<1>6. init_idt[v].present = TRUE => GateOf(v) = init_idt[v]
  BY DEF GateOf
<1> QED BY <1>2, <1>4, <1>5, <1>6, FilledGates

LEMMA IntGates ==
  ASSUME NEW v \in Vectors
  PROVE  \/ GateOfIntN(v).handler = "call" /\ ~ LeavesIF(GateOfIntN(v))
         \/ GateOfIntN(v).handler = "exception" /\ LeavesIF(GateOfIntN(v))
<1>1. CASE v = SYS_CALL_VEC
  <2>1. GateOfIntN(v) = init_idt[v]
    BY <1>1, HandledGates DEF GateOfIntN
  <2> QED BY <1>1, <2>1, HandledGates DEF LeavesIF, SYS_CALL_VEC, RESERVED_NUM
<1>2. CASE v # SYS_CALL_VEC
  <2>1. GateOfIntN(v) = init_idt[GENERAL_PROTECTION_VEC]
    BY <1>2, HandledGates DEF GateOfIntN
  <2>2. /\ GENERAL_PROTECTION_VEC \in Vectors /\ GENERAL_PROTECTION_VEC <= 18
        /\ GENERAL_PROTECTION_VEC < RESERVED_NUM
    BY DEF Vectors, NUM_VEC, GENERAL_PROTECTION_VEC, RESERVED_NUM
  <2> QED BY <2>1, <2>2, HandledGates DEF LeavesIF
<1> QED BY <1>1, <1>2

LEMMA DeviceGates ==
  ASSUME NEW v \in {KEYBOARD_VEC, RTC_VEC}
  PROVE  GateOf(v).handler \in Handlers /\ ~ LeavesIF(GateOf(v))
<1>1. v \in Vectors /\ ~ (v < RESERVED_NUM)
  BY DEF Vectors, NUM_VEC, KEYBOARD_VEC, RTC_VEC, RESERVED_NUM
<1> QED BY <1>1, HandledGates DEF LeavesIF, Handlers

LEMMA PageFaultGate ==
  GateOf(PAGE_FAULT_VEC).handler = "exception" /\ LeavesIF(GateOf(PAGE_FAULT_VEC))
<1>1. PAGE_FAULT_VEC \in Vectors /\ PAGE_FAULT_VEC < RESERVED_NUM /\ PAGE_FAULT_VEC <= 18
  BY DEF Vectors, NUM_VEC, PAGE_FAULT_VEC, RESERVED_NUM
<1> QED BY <1>1, HandledGates DEF LeavesIF

-----------------------------------------------------------------------------
(* The stack                                                               *)

LEMMA RankType == \A c : Rank(c) \in 1 .. 4 /\ (Rank(c) = 1 <=> c \in Started)
BY DEF Rank, Started

LEMMA FramesSeq ==
  ASSUME TypeOK
  PROVE  /\ Len(frames) \in Nat /\ DOMAIN frames = 1 .. Len(frames)
         /\ \A k \in DOMAIN frames : frames[k] \in [code : Codes, interrupts : BOOLEAN]
         /\ frames = <<>> <=> Len(frames) = 0
<1> DEFINE F == [code : Codes, interrupts : BOOLEAN]
<1>1. frames \in Seq(F)
  BY DEF TypeOK
<1> HIDE DEF F
<1>2. Len(frames) \in Nat /\ frames \in [1 .. Len(frames) -> F] /\ DOMAIN frames = 1 .. Len(frames)
  BY <1>1, LenProperties
<1>3. frames = <<>> <=> Len(frames) = 0
  BY <1>1, EmptySeq
<1>4. \A k \in DOMAIN frames : frames[k] \in F
  BY <1>2
<1> QED BY <1>2, <1>3, <1>4 DEF F

(* What a handler that is entered leaves on the stack.                     *)
LEMMA Pushed ==
  ASSUME TypeOK, Prepared, SetUp, OnTop, Len(frames) < MaxFrames, NEW gate, Enters(gate)
  PROVE  /\ code' = gate.handler /\ interrupts' = (interrupts /\ LeavesIF(gate))
         /\ UNCHANGED <<multiboot, step, kernel>>
         /\ frames' \in Seq([code : Codes, interrupts : BOOLEAN])
         /\ Len(frames') = Len(frames) + 1 /\ DOMAIN frames' = 1 .. Len(frames) + 1
         /\ \A k \in DOMAIN frames : frames'[k] = frames[k]
         /\ frames'[Len(frames) + 1] = Frame
<1>1. Frame \in [code : Codes, interrupts : BOOLEAN]
  BY DEF Frame, TypeOK
<1>2. Delivered
  BY DEF Delivered, SetUp
<1>3. frames' = Append(frames, Frame)
  <2>1. code = "user" => frames = <<>>
    BY DEF OnTop, Started
  <2>2. frames = <<>> => Append(frames, Frame) = <<Frame>>
    OBVIOUS
  <2> QED BY <1>2, <2>1, <2>2 DEF Enters
<1>4. /\ frames' \in Seq([code : Codes, interrupts : BOOLEAN])
      /\ Len(frames') = Len(frames) + 1
      /\ \A k \in 1 .. Len(frames) : frames'[k] = frames[k]
      /\ frames'[Len(frames) + 1] = Frame
  BY <1>1, <1>3, FramesSeq DEF TypeOK
<1>5. DOMAIN frames' = 1 .. Len(frames) + 1
  BY <1>4, LenProperties
<1> QED BY <1>2, <1>4, <1>5, FramesSeq DEF Enters

(* The ranks rise from frame to frame: until the cursor leaves the screen  *)
(* there is room for what interrupts the code above them.                  *)
LEMMA Shallow ==
  ASSUME TypeOK, Stacked, cursor # "off", NEW bound \in 1 .. 5,
         \A k \in DOMAIN frames : Rank(frames[k].code) < bound
  PROVE  Len(frames) < bound
<1> DEFINE r(k) == Rank(frames[k].code)
<1>1. /\ Len(frames) \in Nat /\ DOMAIN frames = 1 .. Len(frames)
      /\ \A k \in DOMAIN frames : r(k) \in 1 .. 4 /\ r(k) < bound
      /\ \A j, k \in DOMAIN frames : j < k => r(j) < r(k)
  BY FramesSeq, RankType DEF Stacked, Follows
<1> HIDE DEF r
<1>2. 1 \in DOMAIN frames => r(1) >= 1
  BY <1>1
<1>3. 2 \in DOMAIN frames => r(2) >= 2
  <2>1. 2 \in DOMAIN frames => 1 \in DOMAIN frames
    BY <1>1
  <2> QED BY <1>1, <1>2, <2>1
<1>4. 3 \in DOMAIN frames => r(3) >= 3
  <2>1. 3 \in DOMAIN frames => 2 \in DOMAIN frames
    BY <1>1
  <2> QED BY <1>1, <1>3, <2>1
<1>5. 4 \in DOMAIN frames => r(4) >= 4
  <2>1. 4 \in DOMAIN frames => 3 \in DOMAIN frames
    BY <1>1
  <2> QED BY <1>1, <1>4, <2>1
<1>6. 5 \notin DOMAIN frames
  <2>1. 5 \in DOMAIN frames => 4 \in DOMAIN frames
    BY <1>1
  <2> QED BY <1>1, <1>5, <2>1
<1>7. bound \in 1 .. 5 /\ \A n \in 1 .. 5 : n \in DOMAIN frames => n < bound
  <2> SUFFICES ASSUME NEW n \in 1 .. 5, n \in DOMAIN frames PROVE n < bound
    OBVIOUS
  <2>1. n \in {1, 2, 3, 4} /\ r(n) >= n
    BY <1>2, <1>3, <1>4, <1>5, <1>6
  <2> QED BY <1>1, <2>1
<1>8. Len(frames) <= 4
  BY <1>1, <1>6
<1>9. CASE Len(frames) = 0
  BY <1>9
<1>10. CASE Len(frames) \in 1 .. 4
  <2>1. Len(frames) \in 1 .. 5 /\ Len(frames) \in DOMAIN frames
    BY <1>1, <1>10
  <2> QED BY <1>7, <2>1
<1> QED BY <1>1, <1>8, <1>9, <1>10

(* What a return leaves.                                                   *)
LEMMA Popped ==
  ASSUME TypeOK, frames # <<>>, Returns
  PROVE  /\ Len(frames) \in DOMAIN frames
         /\ code' = frames[Len(frames)].code /\ interrupts' = frames[Len(frames)].interrupts
         /\ UNCHANGED <<multiboot, step, kernel, cursor>>
         /\ frames' \in Seq([code : Codes, interrupts : BOOLEAN])
         /\ Len(frames') = Len(frames) - 1 /\ DOMAIN frames' = 1 .. Len(frames) - 1
         /\ \A k \in DOMAIN frames' : k \in DOMAIN frames /\ frames'[k] = frames[k]
<1>1. Len(frames) \in Nat \ {0} /\ DOMAIN frames = 1 .. Len(frames)
  BY FramesSeq
<1>2. \A k \in 1 .. Len(frames) - 1 : frames[k] \in [code : Codes, interrupts : BOOLEAN]
  BY <1>1, FramesSeq
<1>3. frames' = SubSeq(frames, 1, Len(frames) - 1)
  BY DEF Returns
<1>4. /\ frames' \in Seq([code : Codes, interrupts : BOOLEAN])
      /\ Len(frames') = Len(frames) - 1
      /\ \A k \in 1 .. Len(frames) - 1 : frames'[k] = frames[k]
  BY <1>1, <1>2, <1>3, SubSeqProperties
<1>5. DOMAIN frames' = 1 .. Len(frames) - 1
  BY <1>4, LenProperties
<1> QED BY <1>1, <1>4, <1>5 DEF Returns

-----------------------------------------------------------------------------
(* Entering and leaving handlers                                           *)

(* What may be entered: what ranks higher than what is interrupted, or the *)
(* page fault of a call, a handler or, off the screen, of an exception.    *)
MayEnter(gate) ==
  /\ cursor' \in {cursor, "off"}
  /\ gate.handler \in {"call", "exception"} \union Handlers
  /\ code \notin {"reset", "lost"}
  /\ frames = <<>> => code \in Started
  /\ \A k \in DOMAIN frames :
       Rank(frames[k].code) < Rank(code) \/ (cursor' = "off" /\ code = "exception")
  /\ code = "user" => interrupts = TRUE
  /\ code = "exception" => interrupts = TRUE \/ cursor' = "off"
  /\ gate.handler \in Handlers => interrupts = TRUE
  /\ cursor' = "off" => gate.handler = "exception" \/ (gate.handler \in Handlers /\ code = "exception")
  /\ \/ /\ code \notin Handlers \union {"call"} /\ Rank(code) < Rank(gate.handler)
        /\ gate.handler # "exception" => ~ LeavesIF(gate)
     \/ /\ gate.handler = "exception" /\ code \in Handlers \union {"call", "exception"}
        /\ code = "exception" => cursor' = "off"

LEMMA DeliveredKeeps ==
  ASSUME KernelInv, SetUp, Len(frames) < MaxFrames, NEW gate, Enters(gate), MayEnter(gate)
  PROVE  KernelInv'
<1> USE DEF KernelInv
<1> DEFINE n == Len(frames)
<1>1. /\ n \in Nat /\ DOMAIN frames = 1 .. n /\ (frames = <<>> <=> n = 0)
      /\ \A k \in DOMAIN frames : frames[k] \in [code : Codes, interrupts : BOOLEAN]
  BY FramesSeq
<1>2. /\ code' = gate.handler /\ interrupts' = (interrupts /\ LeavesIF(gate))
      /\ UNCHANGED <<multiboot, step, kernel>>
      /\ frames' \in Seq([code : Codes, interrupts : BOOLEAN])
      /\ Len(frames') = n + 1 /\ DOMAIN frames' = 1 .. n + 1
      /\ \A k \in 1 .. n : frames'[k] = frames[k]
      /\ frames'[n + 1] = Frame
  BY <1>1, Pushed
<1>3. Frame.code = code /\ Frame.interrupts = interrupts
  BY DEF Frame
<1> HIDE DEF n
<1>4. interrupts' \in BOOLEAN /\ (interrupts' = TRUE => interrupts = TRUE)
        /\ (~ LeavesIF(gate) => interrupts' = FALSE)
        /\ (interrupts = FALSE => interrupts' = FALSE)
  BY <1>2 DEF TypeOK
<1>5. TypeOK'
  BY <1>2, <1>4 DEF TypeOK, Codes, Cursors, MayEnter
<1>6. Prepared'
  <2>1. SetUp' /\ "video" \in kernel'.mapped
    BY <1>2 DEF SetUp, Prepared
  <2>2. code' \notin {"entry", "execute", "halted"}
    BY <1>2 DEF Handlers, MayEnter
  <2>3. \A k \in DOMAIN frames' : frames'[k].code = "execute" => step' \in 1 .. 5
    BY <1>1, <1>2, <1>3 DEF Prepared
  <2> QED BY <2>1, <2>2, <2>3 DEF Prepared
<1>7. Stacked'
  <2>1. ASSUME NEW k \in DOMAIN frames'
        PROVE  /\ frames'[k].code \notin {"reset", "lost"}
               /\ frames'[k].code = "user" => frames'[k].interrupts = TRUE
               /\ frames'[k].code = "exception" => frames'[k].interrupts = TRUE \/ cursor' = "off"
               /\ k = 1 => frames'[k].code \in Started
    <3>1. CASE k \in 1 .. n
      BY <1>1, <1>2, <3>1 DEF Stacked, MayEnter
    <3>2. CASE k = n + 1
      <4>1. frames'[k] = Frame
        BY <1>2, <3>2
      <4>2. k = 1 => code \in Started
        BY <1>1, <3>2 DEF MayEnter
      <4> QED BY <1>3, <4>1, <4>2 DEF MayEnter
    <3>3. k \in 1 .. n \/ k = n + 1
      BY <1>1, <1>2
    <3> QED BY <3>1, <3>2, <3>3
  <2>2. ASSUME NEW j \in DOMAIN frames', NEW k \in DOMAIN frames', j < k
        PROVE  \/ Rank(frames'[j].code) < Rank(frames'[k].code)
               \/ cursor' = "off" /\ frames'[k].code = "exception"
    <3>1. j \in 1 .. n /\ frames'[j] = frames[j]
      BY <1>1, <1>2, <2>2
    <3>2. CASE k \in 1 .. n
      BY <1>1, <1>2, <2>2, <3>1, <3>2 DEF Stacked, Follows, MayEnter
    <3>3. CASE k = n + 1
      BY <1>1, <1>2, <1>3, <3>1, <3>3 DEF MayEnter
    <3> QED BY <1>1, <1>2, <3>2, <3>3
  <2> QED BY <2>1, <2>2 DEF Stacked, Follows
<1>8. Alone'
  <2> SUFFICES ASSUME NEW k \in DOMAIN frames', frames'[k].code \in Handlers \union {"call"}
               PROVE  /\ code' = "exception" /\ interrupts' = FALSE
                      /\ \A j \in DOMAIN frames' : k < j => frames'[j].code = "exception"
    BY DEF Alone
  <2>1. CASE k \in 1 .. n
    <3>1. /\ code = "exception" /\ interrupts = FALSE
          /\ \A j \in DOMAIN frames : k < j => frames[j].code = "exception"
      BY <1>1, <1>2, <2>1 DEF Alone, MayEnter
    <3>2. Rank("exception") = 3 /\ Rank("call") = 2
      BY DEF Rank, Started
    <3>3. code' = "exception"
      BY <1>2, <3>1, <3>2 DEF MayEnter
    <3>4. \A j \in DOMAIN frames' : j \in DOMAIN frames \/ frames'[j].code = code
      BY <1>1, <1>2, <1>3
    <3> QED BY <1>1, <1>2, <1>4, <3>1, <3>3, <3>4
  <2>2. CASE k = n + 1
    <3>1. code \in Handlers \union {"call"}
      BY <1>2, <1>3, <2>2
    <3>2. code' = "exception" /\ interrupts' = FALSE
      BY <1>2, <1>4, <3>1 DEF MayEnter, OnTop
    <3> QED BY <1>1, <1>2, <2>2, <3>2
  <2>3. k \in 1 .. n \/ k = n + 1
    BY <1>1, <1>2
  <2> QED BY <2>1, <2>2, <2>3
<1>9. OnTop'
  <2>1. code' \in {"call", "exception"} \union Handlers /\ frames' # <<>>
    BY <1>1, <1>2, EmptySeq DEF MayEnter
  <2>2. code' \in Handlers \union {"call"} => interrupts' = FALSE
    BY <1>2, <1>4 DEF Handlers, MayEnter
  <2>3. cursor' = "off" /\ code' \in Handlers => frames'[Len(frames')].code = "exception"
    BY <1>2, <1>3 DEF MayEnter, Handlers
  <2>4. ASSUME code' # "exception", NEW k \in DOMAIN frames'
        PROVE  Rank(frames'[k].code) < Rank(code')
    <3>1. Rank(code) < Rank(code') /\ code \notin Handlers \union {"call"}
      BY <1>2, <2>4 DEF MayEnter
    <3>2. CASE k \in 1 .. n /\ code # "exception"
      BY <1>1, <1>2, <3>1, <3>2, RankType DEF MayEnter
    <3>3. CASE k \in 1 .. n /\ code = "exception"
      <4>1. code' \in Handlers
        BY <1>2, <3>1, <3>3, <2>1, <2>4 DEF Rank, Started
      <4>2. interrupts = TRUE
        BY <1>2, <4>1 DEF MayEnter
      <4>3. frames[k].code \notin Handlers \union {"call", "reset", "lost"}
        BY <1>1, <3>3, <4>2 DEF Alone, Stacked
      <4>4. frames[k].code \in Started \union {"waiting", "exception"}
        BY <1>1, <3>3, <4>3 DEF Codes, Started
      <4>5. Rank(frames[k].code) < 4 /\ Rank(code') = 4
        BY <4>1, <4>4 DEF Rank, Started, Handlers
      <4> QED BY <1>2, <3>3, <4>5
    <3>4. CASE k = n + 1
      BY <1>2, <1>3, <3>1, <3>4
    <3> QED BY <1>1, <1>2, <3>2, <3>3, <3>4
  <2>5. ASSUME code' = "exception", interrupts' = TRUE, NEW k \in DOMAIN frames'
        PROVE  Rank(frames'[k].code) < Rank(code') \/ cursor' = "off"
    <3>1. SUFFICES ASSUME cursor' # "off" PROVE Rank(frames'[k].code) < Rank(code')
      OBVIOUS
    <3>2. Rank(code) < Rank(code')
      BY <1>2, <1>4, <2>5, <3>1 DEF MayEnter, OnTop
    <3>3. CASE k \in 1 .. n
      BY <1>1, <1>2, <3>1, <3>2, <3>3, RankType DEF MayEnter
    <3>4. CASE k = n + 1
      BY <1>2, <1>3, <3>2, <3>4
    <3> QED BY <1>1, <1>2, <3>3, <3>4
  <2>6. cursor' = "off" => code' \in {"exception", "reset"} \union Handlers
    BY <1>2 DEF MayEnter
  <2>7. code' \notin Started /\ code' \notin {"reset", "waiting", "user"}
    BY <2>1 DEF Handlers, Started
  <2>8. code' \in {"call", "waiting"} \union Handlers =>
          \A k \in DOMAIN frames' : Rank(frames'[k].code) < Rank(code')
    BY <2>4 DEF Handlers
  <2>9. code' = "exception" /\ interrupts' = TRUE =>
          \A k \in DOMAIN frames' : Rank(frames'[k].code) < Rank(code')
                                    \/ (cursor' = "off" /\ code' = "exception")
    BY <2>5
  <2> QED BY <2>1, <2>2, <2>3, <2>6, <2>7, <2>8, <2>9 DEF OnTop, Follows, Started
<1> QED BY <1>5, <1>6, <1>7, <1>8, <1>9

(* Without room on the stack the machine resets, off the screen only.      *)
LEMMA ResetKeeps ==
  ASSUME KernelInv, SetUp, ~ (Len(frames) < MaxFrames), NEW gate, Enters(gate), MayEnter(gate)
  PROVE  KernelInv'
<1> USE DEF KernelInv
<1>1. cursor' = "off"
  <2>1. SUFFICES ASSUME cursor' # "off" PROVE Len(frames) < MaxFrames
    OBVIOUS
  <2>2. cursor # "off" /\ \A k \in DOMAIN frames : Rank(frames[k].code) < Rank(code)
    BY <2>1 DEF MayEnter
  <2>3. Rank(code) \in 1 .. 5 /\ Rank(code) <= 4
    BY RankType
  <2>4. Len(frames) < Rank(code)
    BY <2>2, <2>3, Shallow
  <2>5. Len(frames) \in Nat
    BY FramesSeq
  <2> QED BY <2>3, <2>4, <2>5, KernelAssumption
<1>2. /\ code' = "reset" /\ frames' = frames /\ interrupts' = (interrupts /\ LeavesIF(gate))
      /\ UNCHANGED <<multiboot, step, kernel>>
  <2>1. ~ Delivered
    BY DEF Delivered
  <2> QED BY <2>1 DEF Enters
<1>3. interrupts' \in BOOLEAN /\ (interrupts = FALSE => interrupts' = FALSE)
  BY <1>2 DEF TypeOK
<1>4. TypeOK'
  BY <1>1, <1>2, <1>3 DEF TypeOK, Codes, Cursors
<1>5. Prepared'
  <2>1. SetUp'
    BY <1>2 DEF SetUp
  <2> QED BY <1>2, <2>1 DEF Prepared
<1>6. Stacked'
  BY <1>1, <1>2 DEF Stacked, Follows
<1>7. OnTop'
  BY <1>1, <1>2 DEF OnTop, Handlers, Started
<1>8. Alone'
  BY <1>2, <1>3 DEF Alone
<1> QED BY <1>4, <1>5, <1>6, <1>7, <1>8

LEMMA EntersKeeps ==
  ASSUME KernelInv, SetUp, NEW gate, Enters(gate), MayEnter(gate)
  PROVE  KernelInv'
BY DeliveredKeeps, ResetKeeps

(* Returning to what was interrupted.                                      *)
LEMMA ReturnsKeeps ==
  ASSUME KernelInv, Returns, code \in {"call", "waiting"} \union Handlers
  PROVE  KernelInv'
<1> USE DEF KernelInv
<1> DEFINE n == Len(frames)
           top == frames[n]
<1>1. /\ n \in Nat \ {0} /\ DOMAIN frames = 1 .. n /\ n \in DOMAIN frames
      /\ \A k \in DOMAIN frames : frames[k] \in [code : Codes, interrupts : BOOLEAN]
      /\ frames # <<>>
  BY FramesSeq DEF OnTop
<1>2. /\ code' = top.code /\ interrupts' = top.interrupts
      /\ UNCHANGED <<multiboot, step, kernel, cursor>>
      /\ frames' \in Seq([code : Codes, interrupts : BOOLEAN])
      /\ Len(frames') = n - 1 /\ DOMAIN frames' = 1 .. n - 1
      /\ \A k \in DOMAIN frames' : k \in DOMAIN frames /\ frames'[k] = frames[k]
  BY <1>1, Popped
<1>3. /\ top.code \in Codes /\ top.interrupts \in BOOLEAN
      /\ top.code \notin {"reset", "lost"}
      /\ top.code = "user" => top.interrupts = TRUE
      /\ n = 1 => top.code \in Started
      /\ top.code = "execute" => step \in 1 .. 5
  BY <1>1 DEF Stacked, Prepared
<1>4. \A k \in DOMAIN frames' : \/ Rank(frames'[k].code) < Rank(top.code)
                                \/ cursor = "off" /\ top.code = "exception"
  <2>1. ASSUME NEW k \in DOMAIN frames'
        PROVE  \/ Rank(frames'[k].code) < Rank(top.code)
               \/ cursor = "off" /\ top.code = "exception"
    <3>1. k \in DOMAIN frames /\ k < n /\ frames'[k] = frames[k]
      BY <1>1, <1>2
    <3> QED BY <1>1, <3>1 DEF Stacked, Follows
  <2> QED BY <2>1
<1>5. \A k \in DOMAIN frames : frames[k].code \notin Handlers \union {"call"}
  BY DEF Alone, Handlers
<1>6. code \notin {"entry", "halted"} /\ SetUp
  BY DEF Handlers, Prepared
<1>7. cursor = "off" => top.code = "exception"
  BY DEF OnTop, Handlers
<1> HIDE DEF n, top
<1>8. TypeOK'
  BY <1>2, <1>3 DEF TypeOK
<1>9. Prepared'
  <2>1. SetUp' /\ "video" \in kernel'.mapped
    BY <1>2, <1>6 DEF SetUp, Prepared
  <2>2. \A k \in DOMAIN frames' : frames'[k].code = "execute" => step' \in 1 .. 5
    BY <1>2 DEF Prepared
  <2>3. code' = "execute" => step' \in 1 .. 5
    BY <1>2, <1>3
  <2> QED BY <2>1, <2>2, <2>3 DEF Prepared, SetUp
<1>10. Stacked'
  <2>1. ASSUME NEW k \in DOMAIN frames'
        PROVE  /\ frames'[k].code \notin {"reset", "lost"}
               /\ frames'[k].code = "user" => frames'[k].interrupts = TRUE
               /\ frames'[k].code = "exception" => frames'[k].interrupts = TRUE \/ cursor' = "off"
               /\ k = 1 => frames'[k].code \in Started
    BY <1>2 DEF Stacked
  <2>2. ASSUME NEW j \in DOMAIN frames', NEW k \in DOMAIN frames', j < k
        PROVE  \/ Rank(frames'[j].code) < Rank(frames'[k].code)
               \/ cursor' = "off" /\ frames'[k].code = "exception"
    BY <1>2, <2>2 DEF Stacked, Follows
  <2> QED BY <2>1, <2>2 DEF Stacked, Follows
<1>11. OnTop'
  <2>1. frames' = <<>> <=> n = 1
    BY <1>1, <1>2, EmptySeq
  <2>2. top.code \in Started => n = 1
    <3>1. ASSUME n # 1, top.code \in Started PROVE FALSE
      <4>1. 1 \in DOMAIN frames' /\ top.code # "exception"
        BY <1>1, <1>2, <3>1 DEF Started
      <4>2. Rank(frames'[1].code) < Rank(top.code)
        BY <1>4, <4>1
      <4> QED BY <3>1, <4>2, RankType
    <3> QED BY <3>1
  <2>3. code' \notin Handlers \union {"call"}
    BY <1>1, <1>2, <1>5 DEF top
  <2>4. code' = "exception" /\ interrupts' = TRUE =>
          \A k \in DOMAIN frames' : Rank(frames'[k].code) < Rank(code')
                                    \/ (cursor' = "off" /\ code' = "exception")
    BY <1>2, <1>4
  <2>5. code' \in {"call", "waiting", "exception"} \union Handlers => frames' # <<>>
    BY <1>2, <1>3, <2>1 DEF Started, Handlers
  <2>6. code' \in Started => frames' = <<>>
    BY <1>2, <2>1, <2>2
  <2>7. code' = "user" => interrupts' = TRUE
    BY <1>2, <1>3
  <2>8. code' = "waiting" => \A k \in DOMAIN frames' : Rank(frames'[k].code) < Rank(code')
    BY <1>2, <1>4
  <2>9. code' # "reset" /\ (cursor' = "off" => code' = "exception")
    BY <1>2, <1>3, <1>7
  <2> QED BY <2>3, <2>4, <2>5, <2>6, <2>7, <2>8, <2>9 DEF OnTop, Follows, Started
<1>12. Alone'
  BY <1>2, <1>5 DEF Alone
<1> QED BY <1>8, <1>9, <1>10, <1>11, <1>12

-----------------------------------------------------------------------------
(* The kernel's start                                                      *)

LEMMA EntryOrder ==
  /\ Len(EntrySteps) = 13
  /\ EntrySteps[4] = "tss" /\ EntrySteps[5] = "init_idt" /\ EntrySteps[6] = "i8259_init"
  /\ EntrySteps[13] = "execute"
  /\ \A n \in 1 .. 13 : EntrySteps[n] = "sti" => n = 11
  /\ \A n \in 1 .. 13 : EntrySteps[n] = "execute" => n = 13
BY DEF EntrySteps

LEMMA ExecuteOrder ==
  /\ Len(ExecuteSteps) = 5
  /\ \A n \in 1 .. 5 : ExecuteSteps[n] # "context_switch" => n # 5
BY DEF ExecuteSteps

KernelRecords == [idt : BOOLEAN, tss : BOOLEAN, remapped : BOOLEAN, enabled : SUBSET {1, 2, 8},
           mapped : SUBSET Pages, addr_boot_block : {"any", "image"},
           boot_block : {"any", "image"}]

(* No step of entry undoes what one before it has set up.                  *)
LEMMA AfterKeeps ==
  ASSUME NEW k \in KernelRecords, NEW s
  PROVE  /\ After(s, k) \in KernelRecords
         /\ "video" \in k.mapped => "video" \in After(s, k).mapped
         /\ k.tss = TRUE \/ s = "tss" => After(s, k).tss = TRUE
         /\ k.idt = TRUE \/ s = "init_idt" => After(s, k).idt = TRUE
         /\ k.remapped = TRUE \/ s = "i8259_init" => After(s, k).remapped = TRUE
<1>1. CASE s = "modules" /\ 3 \in multiboot.flags /\ multiboot.modules
  <2>1. After(s, k) = [k EXCEPT !.addr_boot_block = "image"]
    BY <1>1 DEF After
  <2> QED BY <1>1, <2>1 DEF KernelRecords
<1>2. CASE s = "tss"
  <2>1. After(s, k) = [k EXCEPT !.tss = TRUE]
    BY <1>2 DEF After
  <2> QED BY <1>2, <2>1 DEF KernelRecords
<1>3. CASE s = "init_idt"
  <2>1. After(s, k) = [k EXCEPT !.idt = TRUE]
    BY <1>3 DEF After
  <2> QED BY <1>3, <2>1 DEF KernelRecords
<1>4. CASE s = "i8259_init"
  <2>1. After(s, k) = [k EXCEPT !.remapped = TRUE, !.enabled = {2}]
    BY <1>4 DEF After
  <2> DEFINE t == [k EXCEPT !.remapped = TRUE]
  <2>2. t \in KernelRecords /\ t.remapped = TRUE /\ t.tss = k.tss /\ t.idt = k.idt /\ t.mapped = k.mapped
    BY DEF KernelRecords
  <2>3. After(s, k) = [t EXCEPT !.enabled = {2}]
    BY <2>1
  <2> HIDE DEF t
  <2> QED BY <1>4, <2>2, <2>3 DEF KernelRecords
<1>5. CASE s = "init_paging"
  <2>1. After(s, k) = [k EXCEPT !.mapped = {"kernel", "video"}]
    BY <1>5 DEF After
  <2> QED BY <1>5, <2>1 DEF KernelRecords, Pages
<1>6. CASE s = "init_rtc"
  <2>1. After(s, k) = [k EXCEPT !.enabled = k.enabled \union {8}]
    BY <1>6 DEF After
  <2> QED BY <1>6, <2>1 DEF KernelRecords
<1>7. CASE s = "enable_irq"
  <2>1. After(s, k) = [k EXCEPT !.enabled = k.enabled \union {1, 8}]
    BY <1>7 DEF After
  <2> QED BY <1>7, <2>1 DEF KernelRecords
<1>8. CASE s = "fs_init"
  <2>1. After(s, k) = [k EXCEPT !.boot_block = k.addr_boot_block]
    BY <1>8 DEF After
  <2> QED BY <1>8, <2>1 DEF KernelRecords
<1>9. CASE /\ s \notin {"tss", "init_idt", "i8259_init", "init_paging", "init_rtc", "enable_irq",
                        "fs_init"}
           /\ ~ (s = "modules" /\ 3 \in multiboot.flags /\ multiboot.modules)
  <2>1. After(s, k) = k
    BY <1>9 DEF After
  <2> QED BY <1>9, <2>1
<1> QED BY <1>1, <1>2, <1>3, <1>4, <1>5, <1>6, <1>7, <1>8, <1>9

LEMMA KernelInit == Init => KernelInv
<1> SUFFICES ASSUME Init PROVE KernelInv
  OBVIOUS
<1>0. /\ multiboot \in Multiboot /\ code = "entry" /\ step = 1 /\ interrupts = FALSE
      /\ frames = <<>> /\ cursor = "in line"
      /\ kernel = [idt |-> FALSE, tss |-> FALSE, remapped |-> FALSE, enabled |-> {1, 8},
                  mapped |-> Pages, addr_boot_block |-> "any", boot_block |-> "any"]
  BY DEF Init
<1>1. frames = <<>> /\ DOMAIN frames = {} /\ code = "entry" /\ step = 1 /\ interrupts = FALSE
  <2>1. frames = <<>> /\ code = "entry" /\ step = 1 /\ interrupts = FALSE
    BY <1>0
  <2> QED BY <2>1
<1>2. kernel \in KernelRecords /\ "video" \in kernel.mapped
  BY <1>0 DEF KernelRecords, Pages
<1>3. TypeOK
  <2>1. frames \in Seq([code : Codes, interrupts : BOOLEAN])
    BY <1>1, EmptySeq
  <2>2. code \in Codes /\ interrupts \in BOOLEAN
    BY <1>0 DEF Codes
  <2>3. step \in 1 .. Len(EntrySteps)
    BY <1>1, EntryOrder
  <2>4. multiboot \in Multiboot /\ cursor \in Cursors
    BY <1>0 DEF Cursors
  <2> QED BY <1>2, <2>1, <2>2, <2>3, <2>4 DEF TypeOK, KernelRecords
<1>4. Prepared
  BY <1>1, <1>2 DEF Prepared
<1>5. Stacked /\ OnTop /\ Alone
  BY <1>0, <1>1 DEF Stacked, OnTop, Alone, Handlers, Started
<1> QED BY <1>3, <1>4, <1>5 DEF KernelInv

(* The steps of the kernel's start, which interrupt nothing.               *)
LEMMA StartKeeps ==
  ASSUME KernelInv, code \in Started \union {"call"}, code' \in Codes, interrupts' \in BOOLEAN,
         step' \in 1 .. 13, kernel' \in KernelRecords, frames' = <<>>,
         UNCHANGED <<multiboot, cursor>>,
         code' \in Started, code' = "user" => interrupts' = TRUE,
         Prepared'
  PROVE  KernelInv'
<1>1. DOMAIN frames' = {} /\ cursor' # "off"
  BY DEF KernelInv, OnTop, Handlers, Started
<1>2. TypeOK'
  BY <1>1, EntryOrder DEF KernelInv, TypeOK, KernelRecords
<1>3. Stacked' /\ OnTop' /\ Alone'
  BY <1>1 DEF Stacked, OnTop, Alone, Handlers, Started
<1> QED BY <1>2, <1>3 DEF KernelInv

LEMMA EntryKeeps ==
  ASSUME KernelInv, EntryStep
  PROVE  KernelInv'
<1> USE DEF KernelInv
<1>1. /\ code = "entry" /\ frames = <<>> /\ step \in 1 .. 13 /\ interrupts \in BOOLEAN
      /\ kernel \in KernelRecords /\ DOMAIN frames = {}
  BY EntryOrder DEF EntryStep, OnTop, Started, TypeOK, KernelRecords
<1>2. CASE EntryReturns /\ Goes("halted", interrupts)
  <2>1. code' = "halted" /\ UNCHANGED <<multiboot, step, interrupts, frames, kernel, cursor>>
    BY <1>2 DEF Goes
  <2>2. Prepared'
    BY <1>1, <2>1 DEF Prepared, SetUp
  <2> QED BY <1>1, <2>1, <2>2, StartKeeps DEF Codes, Started
<1>3. CASE ~ (EntryReturns /\ Goes("halted", interrupts))
  <2> DEFINE s == EntrySteps[step]
  <2>1. /\ kernel' = After(s, kernel)
        /\ interrupts' = (interrupts \/ s = "sti")
        /\ UNCHANGED <<multiboot, frames, cursor>>
        /\ \/ s = "execute" /\ code' = "execute" /\ step' = 1
           \/ s # "execute" /\ code' = "entry" /\ step' = step + 1
    BY <1>1, <1>3 DEF EntryStep
  <2>2. /\ kernel' \in KernelRecords /\ "video" \in kernel'.mapped
        /\ kernel.tss = TRUE \/ s = "tss" => kernel'.tss = TRUE
        /\ kernel.idt = TRUE \/ s = "init_idt" => kernel'.idt = TRUE
        /\ kernel.remapped = TRUE \/ s = "i8259_init" => kernel'.remapped = TRUE
    BY <1>1, <2>1, AfterKeeps DEF Prepared
  <2>3. /\ s = "sti" => step > 6
        /\ s = "execute" => step = 13
        /\ step = 13 => s = "execute"
        /\ step = 4 => s = "tss"
        /\ step = 5 => s = "init_idt"
        /\ step = 6 => s = "i8259_init"
    BY <1>1, EntryOrder
  <2> HIDE DEF s
  <2>4. interrupts' \in BOOLEAN /\ (interrupts' = TRUE => interrupts = TRUE \/ s = "sti")
    BY <1>1, <2>1
  <2>5. step > 6 => SetUp
    BY <1>1 DEF Prepared, SetUp
  <2>6. SetUp => SetUp'
    BY <2>2 DEF SetUp
  <2>7. interrupts' = TRUE => SetUp'
    BY <2>3, <2>4, <2>5, <2>6 DEF Prepared
  <2>8. CASE s = "execute"
    <3>1. SetUp'
      BY <2>3, <2>5, <2>6, <2>8
    <3>2. Prepared'
      BY <1>1, <2>1, <2>2, <2>8, <3>1 DEF Prepared
    <3> QED BY <1>1, <2>1, <2>2, <2>4, <2>8, <3>2, StartKeeps DEF Codes, Started
  <2>9. CASE s # "execute"
    <3>1. code' = "entry" /\ step' = step + 1 /\ step' \in 1 .. 13
      BY <1>1, <2>1, <2>3, <2>9
    <3>2. /\ step' > 4 => kernel'.tss = TRUE
          /\ step' > 5 => kernel'.idt = TRUE
          /\ step' > 6 => kernel'.remapped = TRUE
      <4>1. /\ step' > 4 => step > 4 \/ s = "tss"
            /\ step' > 5 => step > 5 \/ s = "init_idt"
            /\ step' > 6 => step > 6 \/ s = "i8259_init"
        BY <1>1, <2>3, <3>1
      <4> QED BY <1>1, <2>2, <4>1 DEF Prepared
    <3>3. Prepared'
      BY <1>1, <2>1, <2>2, <2>7, <3>1, <3>2 DEF Prepared
    <3> QED BY <1>1, <2>1, <2>2, <2>4, <3>1, <3>3, StartKeeps DEF Codes, Started
  <2> QED BY <2>8, <2>9
<1> QED BY <1>2, <1>3

LEMMA ExecuteKeeps ==
  ASSUME KernelInv, ExecuteStep
  PROVE  KernelInv'
<1> USE DEF KernelInv
<1>1. /\ code = "execute" /\ frames = <<>> /\ step \in 1 .. 5 /\ interrupts \in BOOLEAN
      /\ kernel \in KernelRecords /\ SetUp /\ "video" \in kernel.mapped /\ DOMAIN frames = {}
  BY DEF ExecuteStep, OnTop, Started, TypeOK, KernelRecords, Prepared
<1>2. CASE Goes("loop", interrupts)
  <2>1. code' = "loop" /\ UNCHANGED <<multiboot, step, interrupts, frames, kernel, cursor>>
    BY <1>2 DEF Goes
  <2>2. Prepared'
    BY <1>1, <2>1 DEF Prepared, SetUp
  <2> QED BY <1>1, <2>1, <2>2, StartKeeps DEF Codes, Started
<1>3. CASE StartsProgram
  <2>1. code' = "user" /\ interrupts' = TRUE /\ UNCHANGED <<multiboot, step, frames, kernel, cursor>>
    BY <1>1, <1>3 DEF StartsProgram, ProgramFlags
  <2>2. Prepared'
    BY <1>1, <2>1 DEF Prepared, SetUp
  <2> QED BY <1>1, <2>1, <2>2, StartKeeps DEF Codes, Started
<1>4. CASE /\ ExecuteSteps[step] # "context_switch" /\ step' = step + 1
           /\ kernel' = IF ExecuteSteps[step] = "get_addr"
                        THEN [kernel EXCEPT !.mapped = @ \union {"program"}] ELSE kernel
           /\ UNCHANGED <<multiboot, code, interrupts, frames, cursor>>
  <2>1. step' \in 1 .. 5
    BY <1>1, <1>4, ExecuteOrder
  <2>2. kernel' \in KernelRecords /\ "video" \in kernel'.mapped /\ SetUp'
    <3>1. CASE ExecuteSteps[step] = "get_addr"
      <4>1. kernel' = [kernel EXCEPT !.mapped = kernel.mapped \union {"program"}]
        BY <1>4, <3>1
      <4> QED BY <1>1, <4>1 DEF KernelRecords, Pages, SetUp
    <3>2. CASE ExecuteSteps[step] # "get_addr"
      BY <1>1, <1>4, <3>2 DEF SetUp
    <3> QED BY <3>1, <3>2
  <2>3. Prepared'
    BY <1>1, <1>4, <2>1, <2>2 DEF Prepared
  <2> QED BY <1>1, <1>4, <2>1, <2>2, <2>3, StartKeeps DEF Codes, Started
<1> QED BY <1>2, <1>3, <1>4 DEF ExecuteStep

-----------------------------------------------------------------------------
(* Programs, calls and interrupts                                          *)

LEMMA IntKeeps ==
  ASSUME KernelInv, IntInstruction
  PROVE  KernelInv'
<1> USE KernelAssumption DEF KernelInv
<1>1. PICK v \in IntN : code = "user" /\ Enters(GateOfIntN(v)) /\ UNCHANGED cursor
  BY DEF IntInstruction
<1> DEFINE gate == GateOfIntN(v)
<1>2. /\ gate.handler \in {"call", "exception"} \union Handlers
      /\ gate.handler # "exception" => ~ LeavesIF(gate)
      /\ gate.handler \in {"call", "exception"}
  BY IntGates
<1>3. frames = <<>> /\ interrupts = TRUE /\ SetUp /\ DOMAIN frames = {} /\ cursor' # "off"
  BY <1>1 DEF OnTop, Prepared, Started, Handlers
<1> HIDE DEF gate
<1>4. Rank(code) < Rank(gate.handler) /\ code \notin Handlers \union {"call"}
  BY <1>1, <1>2 DEF Rank, Started, Handlers
<1>5. MayEnter(gate)
  BY <1>1, <1>2, <1>3, <1>4 DEF MayEnter, Started, Handlers
<1> QED BY <1>1, <1>3, <1>5, EntersKeeps DEF gate

LEMMA InterruptKeeps ==
  ASSUME KernelInv, Interrupt
  PROVE  KernelInv'
<1> USE DEF KernelInv
<1>1. PICK irq \in kernel.enabled \ {2} : Enters(GateOf(Vector(irq)))
  BY DEF Interrupt
<1>2. interrupts = TRUE /\ code \notin {"reset", "lost"} /\ cursor' = cursor
  BY DEF Interrupt, TypeOK
<1>3. SetUp
  BY <1>2 DEF Prepared
<1>4. Vector(irq) \in {KEYBOARD_VEC, RTC_VEC}
  <2>1. irq \in {1, 8}
    BY DEF TypeOK
  <2>2. Vector(irq) = RESERVED_NUM + irq
    BY <1>3 DEF Vector, SetUp
  <2> QED BY <2>1, <2>2 DEF RESERVED_NUM, KEYBOARD_VEC, RTC_VEC
<1> DEFINE gate == GateOf(Vector(irq))
<1>5. gate.handler \in Handlers /\ ~ LeavesIF(gate)
  BY <1>4, DeviceGates
<1> HIDE DEF gate
<1>6. code \notin Handlers \union {"call"}
  BY <1>2 DEF OnTop
<1>7. code \in Started \union {"waiting", "exception"}
  BY <1>2, <1>6 DEF TypeOK, Codes, Started
<1>8. Rank(code) < Rank(gate.handler)
  BY <1>5, <1>7 DEF Rank, Started, Handlers
<1>9. frames = <<>> => code \in Started
  BY <1>7 DEF OnTop
<1>10. \A k \in DOMAIN frames :
         Rank(frames[k].code) < Rank(code) \/ (cursor' = "off" /\ code = "exception")
  <2>1. CASE code \in Started
    <3>1. frames = <<>>
      BY <1>2, <2>1 DEF OnTop
    <3> QED BY <3>1
  <2>2. CASE code = "waiting"
    BY <2>2 DEF OnTop
  <2>3. CASE code = "exception"
    BY <1>2, <2>3 DEF OnTop, Follows
  <2> QED BY <1>7, <2>1, <2>2, <2>3
<1>11. cursor' = "off" => code = "exception"
  BY <1>2, <1>6 DEF OnTop
<1>12. MayEnter(gate)
  BY <1>1, <1>2, <1>5, <1>6, <1>8, <1>9, <1>10, <1>11 DEF MayEnter
<1> QED BY <1>1, <1>3, <1>12, EntersKeeps DEF gate

(* The cells of the screen are mapped: only what may address others faults,*)
(* or what prints with the cursor off the screen.                          *)
LEMMA FaultKeeps ==
  ASSUME KernelInv, PageFault \/ LeavesScreen
  PROVE  KernelInv'
<1> USE DEF KernelInv
<1> DEFINE gate == GateOf(PAGE_FAULT_VEC)
<1>1. /\ Enters(gate) /\ "video" \in kernel.mapped
      /\ cursor' \in {cursor, "off"}
      /\ code \in {"user", "call", "waiting", "keyboard_int", "execute", "exception"}
      /\ code = "exception" => cursor' = "off"
  <2>1. CASE PageFault
    <3>1. /\ Addresses \ kernel.mapped # {} /\ Enters(gate) /\ "video" \in kernel.mapped
          /\ UNCHANGED cursor
      BY <2>1 DEF PageFault, Prepared
    <3> QED BY <3>1 DEF Addresses, Cells
  <2>2. CASE LeavesScreen
    BY <2>2 DEF LeavesScreen, Prepared
  <2> QED BY <2>1, <2>2
<1>2. gate.handler = "exception" /\ LeavesIF(gate)
  BY PageFaultGate
<1> HIDE DEF gate
<1>3. /\ SetUp
      /\ frames = <<>> => code \in Started
      /\ code = "user" => interrupts = TRUE
  BY <1>1 DEF Prepared, OnTop, Started, Handlers
<1>4. \A k \in DOMAIN frames :
        Rank(frames[k].code) < Rank(code) \/ (cursor' = "off" /\ code = "exception")
  <2>1. CASE code \in {"user", "execute"}
    <3>1. frames = <<>>
      BY <2>1 DEF OnTop, Started
    <3> QED BY <3>1
  <2>2. CASE code \in {"call", "waiting", "keyboard_int"}
    BY <2>2 DEF OnTop, Handlers
  <2>3. CASE code = "exception"
    BY <1>1, <2>3
  <2> QED BY <1>1, <2>1, <2>2, <2>3
<1>5. \/ code \notin Handlers \union {"call"} /\ Rank(code) < Rank(gate.handler)
      \/ code \in Handlers \union {"call", "exception"}
  BY <1>1, <1>2 DEF Rank, Started, Handlers
<1>6. MayEnter(gate)
  BY <1>1, <1>2, <1>3, <1>4, <1>5 DEF MayEnter, Handlers
<1> QED BY <1>1, <1>3, <1>6, EntersKeeps DEF gate

(* The cursor goes astray, still on the screen.                            *)
LEMMA StraysKeeps ==
  ASSUME KernelInv, Strays
  PROVE  KernelInv'
<1> USE DEF KernelInv
<1>1. /\ cursor = "in line" /\ cursor' = "astray"
      /\ UNCHANGED <<multiboot, code, step, interrupts, frames, kernel>>
  BY DEF Strays
<1>2. TypeOK' /\ Prepared' /\ Alone'
  BY <1>1 DEF TypeOK, Cursors, Prepared, SetUp, Alone
<1>3. Stacked' /\ OnTop'
  BY <1>1 DEF Stacked, OnTop, Follows
<1> QED BY <1>2, <1>3

(* What a call does without returning: it waits, starts a program or ends  *)
(* the first.                                                              *)
LEMMA CallKeeps ==
  ASSUME KernelInv, CallWaits \/ CallExecutes \/ CallEndsShell
  PROVE  KernelInv'
<1> USE DEF KernelInv
<1>1. /\ code = "call" /\ interrupts = FALSE /\ SetUp /\ frames # <<>> /\ cursor # "off"
      /\ \A k \in DOMAIN frames : Rank(frames[k].code) < Rank(code)
      /\ \A k \in DOMAIN frames : frames[k].code \notin Handlers \union {"call"}
  BY DEF CallWaits, CallExecutes, CallEndsShell, OnTop, Alone, Prepared, Handlers
<1>2. CASE CallExecutes
  <2>1. /\ code' = "user" /\ interrupts' = TRUE /\ frames' = <<>> /\ DOMAIN frames' = {}
        /\ UNCHANGED <<multiboot, step, kernel, cursor>>
    BY <1>2 DEF CallExecutes, StartsProgram, ProgramFlags
  <2>2. kernel \in KernelRecords /\ step \in 1 .. 13
    BY EntryOrder DEF TypeOK, KernelRecords
  <2>3. Prepared'
    BY <1>1, <2>1 DEF Prepared, SetUp
  <2> QED BY <1>1, <2>1, <2>2, <2>3, StartKeeps DEF Codes, Started
<1>3. CASE CallWaits \/ CallEndsShell
  <2>1. /\ \/ code' = "waiting" /\ interrupts' = TRUE
           \/ code' \in {"loop", "lost"} /\ interrupts' = FALSE
        /\ UNCHANGED <<multiboot, step, frames, kernel, cursor>>
    BY <1>1, <1>3 DEF CallWaits, CallEndsShell, Goes
  <2>2. TypeOK'
    BY <2>1 DEF TypeOK, Codes
  <2>3. Prepared' /\ Stacked' /\ Alone'
    BY <1>1, <2>1 DEF Prepared, Stacked, Follows, Alone, SetUp
  <2>4. Rank("waiting") = Rank("call")
    BY DEF Rank, Started
  <2>5. OnTop'
    BY <1>1, <2>1, <2>4 DEF OnTop, Handlers, Started
  <2> QED BY <2>2, <2>3, <2>5
<1> QED BY <1>2, <1>3

LEMMA KernelStepKeeps == KernelInv /\ [Next]_vars => KernelInv'
<1> SUFFICES ASSUME KernelInv, [Next]_vars PROVE KernelInv'
  OBVIOUS
<1>1. CASE KernelStep
  BY <1>1, EntryKeeps, ExecuteKeeps DEF KernelStep
<1>2. CASE IntInstruction
  BY <1>2, IntKeeps
<1>3. CASE CallReturns \/ WaitReturns \/ HandlerReturns
  BY <1>3, ReturnsKeeps DEF CallReturns, WaitReturns, HandlerReturns
<1>4. CASE CallWaits \/ CallExecutes \/ CallEndsShell
  BY <1>4, CallKeeps
<1>5. CASE Interrupt
  BY <1>5, InterruptKeeps
<1>6. CASE PageFault \/ LeavesScreen
  BY <1>6, FaultKeeps
<1>7. CASE Strays
  BY <1>7, StraysKeeps
<1>8. CASE UNCHANGED vars
  BY <1>8 DEF vars, KernelInv, TypeOK, Prepared, Stacked, OnTop, Alone, Follows, SetUp
<1> QED BY <1>1, <1>2, <1>3, <1>4, <1>5, <1>6, <1>7, <1>8 DEF Next

LEMMA KernelAlways == Spec => []KernelInv
<1> QED BY KernelInit, KernelStepKeeps, PTL DEF Spec

-----------------------------------------------------------------------------
(* What follows                                                            *)

(* What is on the stack and what the tables hold keep their shape through  *)
(* every nesting.                                                          *)
THEOREM TypeCorrect == Spec => []TypeOK
<1>1. KernelInv => TypeOK
  BY DEF KernelInv
<1> QED BY <1>1, KernelAlways, PTL

(* Whatever the boot loader passes and whenever a device interrupts, the   *)
(* tables are there before anything is delivered: entry sets IF after all  *)
(* of them, and no step after that takes one back.  A stack with room for  *)
(* four frames is never full before the cursor has left the screen.        *)
THEOREM NeverResets == Spec => []ResetOffScreen
<1>1. KernelInv => ResetOffScreen
  BY DEF KernelInv, OnTop, ResetOffScreen
<1> QED BY <1>1, KernelAlways, PTL

(* A call that has not set IF and a handler run alone, however programs    *)
(* use int instructions and however often its fault handler faults: what   *)
(* the modules of the calls and the handlers take for granted.             *)
THEOREM CallsAlone == Spec => []CallsRunAlone
<1>1. KernelInv => CallsRunAlone
  <2> SUFFICES ASSUME KernelInv, NEW k \in DOMAIN frames,
                      frames[k].code \in Handlers \union {"call"}
               PROVE  /\ code \in {"exception", "reset"} /\ ~ interrupts
                      /\ \A j \in k + 1 .. Len(frames) : frames[j].code = "exception"
    BY DEF CallsRunAlone
  <2>1. /\ code \in {"exception", "reset"} /\ interrupts = FALSE
        /\ \A j \in DOMAIN frames : k < j => frames[j].code = "exception"
    BY DEF KernelInv, Alone
  <2>2. DOMAIN frames = 1 .. Len(frames) /\ Len(frames) \in Nat
    BY FramesSeq DEF KernelInv
  <2>3. \A j \in k + 1 .. Len(frames) : j \in DOMAIN frames /\ k < j
    BY <2>2
  <2> QED BY <2>1, <2>3
<1> QED BY <1>1, KernelAlways, PTL

(* The stack's depth is bounded by the program, whatever room it has: the  *)
(* four ranks rise from frame to frame, but for the exceptions of a cursor *)
(* that has left the screen.                                               *)
THEOREM NestingCorrect == Spec => []NestingBounded
<1>1. KernelInv => NestingBounded
  <2> SUFFICES ASSUME KernelInv PROVE NestingBounded
    OBVIOUS
  <2>1. /\ Len(frames) \in Nat /\ DOMAIN frames = 1 .. Len(frames)
        /\ \A k \in DOMAIN frames : Rank(frames[k].code) \in 1 .. 4
    BY FramesSeq, RankType DEF KernelInv
  <2>2. ASSUME NEW j \in DOMAIN frames, NEW k \in DOMAIN frames, j # k,
               frames[j].code = frames[k].code
        PROVE  cursor = "off" /\ frames[k].code = "exception"
    <3>1. j < k \/ k < j
      BY <2>1, <2>2
    <3>2. Rank(frames[j].code) = Rank(frames[k].code)
      BY <2>2
    <3>3. \/ Follows(frames[j].code, frames[k].code)
          \/ Follows(frames[k].code, frames[j].code)
      BY <3>1 DEF KernelInv, Stacked
    <3> QED BY <2>1, <2>2, <3>2, <3>3 DEF Follows
  <2>3. cursor # "off" => Len(frames) <= 4
    <3>1. SUFFICES ASSUME cursor # "off" PROVE Len(frames) < 5
      BY <2>1
    <3>2. \A k \in DOMAIN frames : Rank(frames[k].code) < 5
      BY <2>1
    <3> QED BY <3>1, <3>2, Shallow DEF KernelInv
  <2> QED BY <2>2, <2>3 DEF NestingBounded
<1> QED BY <1>1, KernelAlways, PTL

(* No nesting of calls and interrupts returns to a program with IF clear.  *)
THEOREM ProgramsCorrect == Spec => []ProgramsInterruptible
<1>1. KernelInv => ProgramsInterruptible
  BY DEF KernelInv, OnTop, ProgramsInterruptible
<1> QED BY <1>1, KernelAlways, PTL

(* Whatever vectors programs use, none enters a device's handler.          *)
THEOREM OnlyDevices == Spec => DevicesRunHandlers
<1>1. KernelInv /\ [Next]_vars => [IntInstruction => code' \notin Handlers]_vars
  <2> SUFFICES ASSUME KernelInv, IntInstruction PROVE code' \notin Handlers
    OBVIOUS
  <2>1. PICK v \in IntN : code = "user" /\ Enters(GateOfIntN(v))
    BY DEF IntInstruction
  <2>2. GateOfIntN(v).handler \in {"call", "exception"}
    BY IntGates, KernelAssumption
  <2>3. code' \in {"reset", GateOfIntN(v).handler}
    BY <2>1 DEF Enters
  <2> QED BY <2>2, <2>3 DEF Handlers
<1> QED BY <1>1, KernelAlways, PTL DEF Spec, DevicesRunHandlers

-----------------------------------------------------------------------------
(* The kernel gets to the shell: of the 18 steps of its start each is taken*)
(* once, handlers run in between, and no other step leads anywhere else.   *)

(* The 13 steps of entry and the 5 of its execute, one after the other.    *)
StartCode(s) == IF s <= 13 THEN "entry" ELSE "execute"
StartStep(s) == IF s <= 13 THEN s ELSE s - 13

Sane == /\ multiboot.magic = TRUE /\ multiboot.shell = TRUE
        /\ multiboot.modules = TRUE /\ multiboot.loads = TRUE
        /\ 3 \in multiboot.flags /\ ~ ({4, 5} \subseteq multiboot.flags)

(* Step s of them is next, here or under a handler that has interrupted it,*)
(* and the image has been found as far as the steps before have looked.    *)
Stage(s) ==
  /\ Sane
  /\ step = StartStep(s)
  /\ \/ code = StartCode(s) /\ frames = <<>>
     \/ code \in Handlers /\ Len(frames) = 1 /\ frames[1].code = StartCode(s)
  /\ s > 2  => kernel.addr_boot_block = "image"
  /\ s > 10 => kernel.boot_block = "image"
  /\ s > 15 => "program" \in kernel.mapped

Done == code = "user" \/ cursor = "off"

LEMMA AfterFinds ==
  ASSUME NEW k \in KernelRecords, NEW s
  PROVE  /\ \/ k.addr_boot_block = "image"
            \/ s = "modules" /\ 3 \in multiboot.flags /\ multiboot.modules
            => After(s, k).addr_boot_block = "image"
         /\ k.addr_boot_block = "image" /\ (k.boot_block = "image" \/ s = "fs_init")
            => After(s, k).boot_block = "image"
<1>1. CASE s = "modules" /\ 3 \in multiboot.flags /\ multiboot.modules
  <2>1. After(s, k) = [k EXCEPT !.addr_boot_block = "image"]
    BY <1>1 DEF After
  <2> QED BY <1>1, <2>1 DEF KernelRecords
<1>2. CASE s = "tss"
  <2>1. After(s, k) = [k EXCEPT !.tss = TRUE]
    BY <1>2 DEF After
  <2> QED BY <1>2, <2>1 DEF KernelRecords
<1>3. CASE s = "init_idt"
  <2>1. After(s, k) = [k EXCEPT !.idt = TRUE]
    BY <1>3 DEF After
  <2> QED BY <1>3, <2>1 DEF KernelRecords
<1>4. CASE s = "i8259_init"
  <2>1. After(s, k) = [k EXCEPT !.remapped = TRUE, !.enabled = {2}]
    BY <1>4 DEF After
  <2> DEFINE t == [k EXCEPT !.remapped = TRUE]
  <2>2. /\ t \in KernelRecords /\ t.addr_boot_block = k.addr_boot_block
        /\ t.boot_block = k.boot_block
    BY DEF KernelRecords
  <2>3. After(s, k) = [t EXCEPT !.enabled = {2}]
    BY <2>1
  <2> HIDE DEF t
  <2> QED BY <1>4, <2>2, <2>3 DEF KernelRecords
<1>5. CASE s = "init_paging"
  <2>1. After(s, k) = [k EXCEPT !.mapped = {"kernel", "video"}]
    BY <1>5 DEF After
  <2> QED BY <1>5, <2>1 DEF KernelRecords
<1>6. CASE s = "init_rtc"
  <2>1. After(s, k) = [k EXCEPT !.enabled = k.enabled \union {8}]
    BY <1>6 DEF After
  <2> QED BY <1>6, <2>1 DEF KernelRecords
<1>7. CASE s = "enable_irq"
  <2>1. After(s, k) = [k EXCEPT !.enabled = k.enabled \union {1, 8}]
    BY <1>7 DEF After
  <2> QED BY <1>7, <2>1 DEF KernelRecords
<1>8. CASE s = "fs_init"
  <2>1. After(s, k) = [k EXCEPT !.boot_block = k.addr_boot_block]
    BY <1>8 DEF After
  <2> QED BY <1>8, <2>1 DEF KernelRecords
<1>9. CASE /\ s \notin {"tss", "init_idt", "i8259_init", "init_paging", "init_rtc", "enable_irq",
                        "fs_init"}
           /\ ~ (s = "modules" /\ 3 \in multiboot.flags /\ multiboot.modules)
  <2>1. After(s, k) = k
    BY <1>9 DEF After
  <2> QED BY <1>9, <2>1
<1> QED BY <1>1, <1>2, <1>3, <1>4, <1>5, <1>6, <1>7, <1>8, <1>9

LEMMA EntryNames == EntrySteps[2] = "modules" /\ EntrySteps[10] = "fs_init"
BY DEF EntrySteps

(* A step of entry brings the next one.                                    *)
LEMMA EntryAdvances ==
  ASSUME KernelInv, NEW s \in 1 .. 18, Stage(s), EntryStep
  PROVE  s < 18 /\ Stage(s + 1)'
<1>1. /\ code = "entry" /\ step \in 1 .. 13 /\ kernel \in KernelRecords
      /\ frames = <<>> /\ Sane /\ step = StartStep(s)
  <2>1. code = "entry"
    BY DEF EntryStep
  <2> QED
    BY <2>1, EntryOrder DEF Stage, KernelInv, TypeOK, KernelRecords, OnTop, Started
<1>2. s <= 13 /\ step = s
  BY <1>1 DEF Stage, StartCode, StartStep, Handlers
<1>3. ~ EntryReturns
  BY <1>1 DEF EntryReturns, Sane
<1> DEFINE what == EntrySteps[step]
<1>4. /\ kernel' = After(what, kernel)
      /\ UNCHANGED <<multiboot, frames, cursor>>
      /\ \/ what = "execute" /\ code' = "execute" /\ step' = 1
         \/ what # "execute" /\ code' = "entry" /\ step' = step + 1
  BY <1>3 DEF EntryStep
<1>5. /\ s = 2 => what = "modules"
      /\ s = 10 => what = "fs_init"
      /\ what = "execute" <=> s = 13
  <2>1. s \in 1 .. 13 /\ what = EntrySteps[s]
    BY <1>1, <1>2
  <2> QED BY <2>1, EntryOrder, EntryNames
<1> HIDE DEF what
<1>6. s + 1 > 2 => s > 2 \/ what = "modules"
  BY <1>2, <1>5
<1>7. s + 1 > 10 => s > 2 /\ (s > 10 \/ what = "fs_init")
  BY <1>2, <1>5
<1>8. s + 1 > 2 => kernel'.addr_boot_block = "image"
  <2>1. s + 1 > 2 => kernel.addr_boot_block = "image" \/ what = "modules"
    BY <1>6 DEF Stage
  <2> QED
    BY <1>1, <1>4, <2>1, AfterFinds DEF Sane
<1>9. s + 1 > 10 => kernel'.boot_block = "image"
  <2>1. s + 1 > 10 => kernel.addr_boot_block = "image"
                      /\ (kernel.boot_block = "image" \/ what = "fs_init")
    BY <1>7 DEF Stage
  <2> QED
    BY <1>1, <1>4, <2>1, AfterFinds
<1>10. Sane' /\ frames' = <<>> /\ ~ (s + 1 > 15)
  BY <1>1, <1>2, <1>4 DEF Sane
<1>11. step' = StartStep(s + 1) /\ code' = StartCode(s + 1)
  BY <1>1, <1>2, <1>4, <1>5 DEF StartStep, StartCode
<1> QED
  BY <1>2, <1>8, <1>9, <1>10, <1>11 DEF Stage

(* A step of its execute brings the next one, and the last one the shell.  *)
LEMMA ExecuteAdvances ==
  ASSUME KernelInv, NEW s \in 1 .. 18, Stage(s), ExecuteStep
  PROVE  (s < 18 /\ Stage(s + 1)') \/ code' = "user"
<1>1. /\ code = "execute" /\ step \in 1 .. 5 /\ kernel \in KernelRecords
      /\ frames = <<>> /\ Sane /\ step = StartStep(s)
  <2>1. code = "execute"
    BY DEF ExecuteStep
  <2> QED
    BY <2>1 DEF Stage, KernelInv, TypeOK, KernelRecords, OnTop, Started, Prepared
<1>2. s > 13 /\ step = s - 13
  BY <1>1 DEF Stage, StartCode, StartStep, Handlers
<1> DEFINE what == ExecuteSteps[step]
<1>3. ~ ExecuteFails(what)
  BY <1>1, <1>2 DEF Stage, ExecuteFails, ShellFound, Sane
<1>4. /\ s = 15 <=> what = "get_addr"
      /\ s = 18 <=> what = "context_switch"
  BY <1>1, <1>2 DEF ExecuteSteps
<1>5. CASE what = "context_switch"
  BY <1>5 DEF ExecuteStep, StartsProgram
<1>6. CASE what # "context_switch"
  <2>1. /\ step' = step + 1
        /\ kernel' = IF what = "get_addr"
                     THEN [kernel EXCEPT !.mapped = @ \union {"program"}] ELSE kernel
        /\ UNCHANGED <<multiboot, code, interrupts, frames, cursor>>
    BY <1>3, <1>6 DEF ExecuteStep
  <2> HIDE DEF what
  <2>2. s < 18 /\ step' = StartStep(s + 1) /\ code' = StartCode(s + 1)
    BY <1>1, <1>2, <1>4, <1>6, <2>1 DEF StartStep, StartCode
  <2>3. kernel'.addr_boot_block = "image" /\ kernel'.boot_block = "image"
    BY <1>1, <1>2, <2>1 DEF Stage, KernelRecords
  <2>4. s + 1 > 15 => "program" \in kernel'.mapped
    <3>1. CASE s = 15
      BY <1>1, <1>4, <2>1, <3>1 DEF KernelRecords
    <3>2. CASE s # 15
      BY <1>2, <1>4, <2>1, <3>2 DEF Stage
    <3> QED BY <3>1, <3>2
  <2> QED
    BY <1>1, <2>1, <2>2, <2>3, <2>4 DEF Stage, Sane
<1> QED BY <1>5, <1>6

(* Nothing else ends a stage but a key that moves the cursor off the top.  *)
LEMMA StageKept ==
  ASSUME KernelInv, NEW s \in 1 .. 18, Stage(s), Next, ~ KernelStep
  PROVE  Stage(s)' \/ cursor' = "off"
<1> USE DEF KernelInv
<1>1. StartCode(s) \in {"entry", "execute"} /\ step = StartStep(s)
  BY DEF StartCode, Stage
<1>2. code \in {"entry", "execute"} \union Handlers
  BY <1>1 DEF Stage
<1>3. ASSUME UNCHANGED <<multiboot, step, kernel>>,
             \/ code' = StartCode(s) /\ frames' = <<>>
             \/ code' \in Handlers /\ Len(frames') = 1 /\ frames'[1].code = StartCode(s)
      PROVE  Stage(s)'
  BY <1>3 DEF Stage, Sane
<1>4. ~ (IntInstruction \/ CallReturns \/ CallWaits \/ WaitReturns \/ CallExecutes \/ CallEndsShell)
  BY <1>2 DEF IntInstruction, CallReturns, CallWaits, WaitReturns, CallExecutes, CallEndsShell,
              Handlers
<1>5. CASE Interrupt
  <2>1. PICK irq \in kernel.enabled \ {2} : Enters(GateOf(Vector(irq)))
    BY <1>5 DEF Interrupt
  <2>2. interrupts = TRUE /\ SetUp /\ "video" \in kernel.mapped
    BY <1>5 DEF Interrupt, TypeOK, Prepared
  <2>3. Vector(irq) \in {KEYBOARD_VEC, RTC_VEC}
    <3>1. irq \in {1, 8}
      BY DEF TypeOK
    <3>2. Vector(irq) = RESERVED_NUM + irq
      BY <2>2 DEF Vector, SetUp
    <3> QED BY <3>1, <3>2 DEF RESERVED_NUM, KEYBOARD_VEC, RTC_VEC
  <2> DEFINE gate == GateOf(Vector(irq))
  <2>4. gate.handler \in Handlers
    BY <2>3, DeviceGates
  <2> HIDE DEF gate
  <2>5. code \notin Handlers
    BY <2>2 DEF OnTop
  <2>6. code = StartCode(s) /\ frames = <<>>
    BY <2>5 DEF Stage
  <2>7. /\ code' = gate.handler /\ frames' = Append(frames, Frame)
        /\ UNCHANGED <<multiboot, step, kernel>>
    <3>1. Len(frames) = 0
      BY <2>6
    <3>2. Delivered /\ code # "user"
      BY <1>1, <2>2, <2>6, <3>1, KernelAssumption DEF Delivered, SetUp
    <3> QED BY <2>1, <3>2 DEF Enters, gate
  <2>8. Len(frames') = 1 /\ frames'[1].code = StartCode(s)
    <3>1. frames' = <<Frame>>
      BY <2>6, <2>7
    <3> QED BY <2>6, <3>1 DEF Frame
  <2> QED BY <1>3, <2>4, <2>7, <2>8
<1>6. CASE HandlerReturns
  <2>1. code \in Handlers /\ Returns
    BY <1>6 DEF HandlerReturns
  <2>2. Len(frames) = 1 /\ frames[1].code = StartCode(s)
    BY <1>1, <2>1 DEF Stage, Handlers
  <2>3. /\ code' = StartCode(s) /\ frames' = SubSeq(frames, 1, 0)
        /\ UNCHANGED <<multiboot, step, kernel>>
    BY <2>1, <2>2 DEF Returns
  <2>4. frames' = <<>>
    BY <2>3
  <2> QED BY <1>3, <2>3, <2>4
<1>7. CASE PageFault
  <2>1. Addresses \ kernel.mapped # {} /\ "video" \in kernel.mapped /\ UNCHANGED cursor
    BY <1>7 DEF PageFault, Prepared
  <2>2. code # "entry" /\ code # "RTC_int"
    BY <2>1 DEF Addresses
  <2>3. code # "execute"
    <3>1. SUFFICES ASSUME code = "execute" PROVE Addresses \subseteq kernel.mapped
      BY <2>1
    <3>2. StartCode(s) = "execute" /\ step \in 1 .. 5
      BY <3>1 DEF Stage, Handlers, Prepared
    <3>3. s > 13 /\ step = s - 13
      BY <1>1, <3>2 DEF StartCode, StartStep
    <3>4. kernel.boot_block = "image"
      BY <3>3 DEF Stage
    <3>5. Addresses = Needs(ExecuteSteps[step])
      BY <3>1, <3>4 DEF Addresses
    <3>6. CASE ExecuteSteps[step] = "program_loader"
      <4>1. step = 3
        BY <3>2, <3>6 DEF ExecuteSteps
      <4>2. "program" \in kernel.mapped
        BY <3>3, <4>1 DEF Stage
      <4> QED BY <3>5, <3>6, <4>2 DEF Needs
    <3>7. CASE ExecuteSteps[step] # "program_loader"
      BY <3>5, <3>7 DEF Needs
    <3> QED BY <3>6, <3>7
  <2>4. code = "keyboard_int"
    BY <1>2, <2>2, <2>3 DEF Handlers
  <2>5. cursor = "off"
    BY <2>1, <2>4 DEF Addresses, Cells
  <2> QED BY <2>1, <2>5
<1>8. CASE Strays
  BY <1>3, <1>8 DEF Strays, Stage
<1>9. CASE LeavesScreen
  BY <1>9 DEF LeavesScreen
<1> QED BY <1>4, <1>5, <1>6, <1>7, <1>8, <1>9 DEF Next

(* What the ladder of the stages rests on.                                 *)
Going == \E s \in 1 .. 18 : Stage(s)

(* The kernel's start has a step to take.                                  *)
Ready == \/ code = "entry"
         \/ code = "execute" /\ Needs(ExecuteSteps[step]) \subseteq kernel.mapped

LEMMA GoingReady ==
  ASSUME KernelInv, Going
  PROVE  Ready \/ code \in Handlers
<1>1. PICK s \in 1 .. 18 : Stage(s)
  BY DEF Going
<1>2. CASE code \in Handlers
  BY <1>2
<1>3. CASE code \notin Handlers
  <2>1. code = StartCode(s) /\ step = StartStep(s)
    BY <1>1, <1>3 DEF Stage
  <2>2. CASE s <= 13
    BY <2>1, <2>2 DEF StartCode, Ready
  <2>3. CASE s > 13
    <3>1. code = "execute" /\ step = s - 13 /\ step \in 1 .. 5
      BY <2>1, <2>3 DEF StartCode, StartStep
    <3>2. CASE step = 3
      <4>1. "program" \in kernel.mapped
        BY <1>1, <3>1, <3>2 DEF Stage
      <4> QED BY <3>1, <4>1 DEF Ready, Needs
    <3>3. CASE step # 3
      <4>1. ExecuteSteps[step] # "program_loader"
        BY <3>1, <3>3 DEF ExecuteSteps
      <4> QED BY <3>1, <4>1 DEF Ready, Needs
    <3> QED BY <3>2, <3>3
  <2> QED BY <2>2, <2>3
<1> QED BY <1>2, <1>3

LEMMA StageSteps ==
  ASSUME KernelInv, NEW s \in 1 .. 18, Stage(s), [Next]_vars
  PROVE  /\ KernelStep => (s < 18 /\ Stage(s + 1)') \/ Done'
         /\ ~ KernelStep => Stage(s)' \/ Done'
<1>1. CASE KernelStep
  BY <1>1, EntryAdvances, ExecuteAdvances DEF KernelStep, Done
<1>2. CASE Next /\ ~ KernelStep
  BY <1>2, StageKept DEF Done
<1>3. CASE UNCHANGED vars /\ ~ KernelStep
  <2>1. Stage(s)'
    BY <1>3 DEF Stage, Sane, vars
  <2> QED BY <1>3, <2>1
<1> QED BY <1>1, <1>2, <1>3

(* A handler returns to the kernel's start.                                *)
LEMMA HandlerToStart ==
  ASSUME KernelInv, Going, HandlerReturns
  PROVE  (code \notin Handlers)'
<1>1. PICK s \in 1 .. 18 : Stage(s)
  BY DEF Going
<1>2. code \in Handlers /\ Returns
  BY DEF HandlerReturns
<1>3. StartCode(s) \in {"entry", "execute"}
  BY DEF StartCode
<1>4. Len(frames) = 1 /\ frames[1].code = StartCode(s)
  BY <1>1, <1>2, <1>3 DEF Stage, Handlers
<1>5. code' = StartCode(s)
  BY <1>2, <1>4 DEF Returns
<1> QED BY <1>3, <1>5 DEF Handlers

(* The prover has no rule for ENABLED: that a step whose guard holds can be*)
(* taken, each of them gives every variable its next value, is assumed.    *)
StepEnabled   == [](Ready => ENABLED <<KernelStep>>_vars)
ReturnEnabled == [](code \in Handlers => ENABLED <<HandlerReturns>>_vars)

(* With strong fairness of the kernel's start and of the handlers that     *)
(* interrupt it, a kernel that a sane boot loader has given an image with  *)
(* a shell that loads gets to the shell, or a key has moved the cursor off *)
(* the screen on its way.                                                  *)
THEOREM ShellReached ==
  FairSpec /\ StepEnabled /\ ReturnEnabled => ShellStarts
<1> DEFINE Handled == code \in Handlers
           A == multiboot.magic /\ 3 \in multiboot.flags /\ ~ {4, 5} \subseteq multiboot.flags
                /\ multiboot.modules /\ multiboot.shell /\ multiboot.loads
           D == code = "user" \/ cursor = "off"
<1>1. Init /\ A => Stage(1)
  <2> SUFFICES ASSUME Init, A PROVE Stage(1)
    OBVIOUS
  <2>1. /\ multiboot.magic \in BOOLEAN /\ multiboot.modules \in BOOLEAN
        /\ multiboot.shell \in BOOLEAN /\ multiboot.loads \in BOOLEAN
    BY DEF Init, Multiboot
  <2>2. Sane
    BY <2>1 DEF Sane
  <2>3. code = "entry" /\ step = 1 /\ frames = <<>>
    BY DEF Init
  <2> QED BY <2>2, <2>3 DEF Stage, StartCode, StartStep
<1>2. \A s \in 1 .. 18 : KernelInv /\ Stage(s) /\ [Next]_vars
          => /\ KernelStep => (s < 18 /\ Stage(s + 1)') \/ D'
             /\ ~ KernelStep => Stage(s)' \/ D'
  BY StageSteps DEF Done
<1>3. KernelInv /\ Going /\ [Next]_vars => Going' \/ D'
  <2> SUFFICES ASSUME KernelInv, Going, [Next]_vars PROVE Going' \/ D'
    OBVIOUS
  <2>1. PICK s \in 1 .. 18 : Stage(s)
    BY DEF Going
  <2>2. \/ s < 18 /\ Stage(s + 1)'
        \/ Stage(s)' \/ D'
    BY <1>2, <2>1
  <2>3. s < 18 => s + 1 \in 1 .. 18
    OBVIOUS
  <2> HIDE DEF D
  <2> QED BY <2>1, <2>2, <2>3 DEF Going
<1>4. Stage(1) => Going
  BY DEF Going
<1>5. KernelInv /\ Going => Ready \/ Handled
  BY GoingReady
<1>6. KernelInv /\ Going /\ <<HandlerReturns>>_vars => ~ Handled'
  BY HandlerToStart
<1>7. KernelInv /\ Stage(1) /\ [Next]_vars => (~ KernelStep /\ Stage(1)') \/ Stage(2)' \/ D'
  BY <1>2
<1>8. KernelInv /\ Stage(2) /\ [Next]_vars => (~ KernelStep /\ Stage(2)') \/ Stage(3)' \/ D'
  BY <1>2
<1>9. KernelInv /\ Stage(3) /\ [Next]_vars => (~ KernelStep /\ Stage(3)') \/ Stage(4)' \/ D'
  BY <1>2
<1>10. KernelInv /\ Stage(4) /\ [Next]_vars => (~ KernelStep /\ Stage(4)') \/ Stage(5)' \/ D'
  BY <1>2
<1>11. KernelInv /\ Stage(5) /\ [Next]_vars => (~ KernelStep /\ Stage(5)') \/ Stage(6)' \/ D'
  BY <1>2
<1>12. KernelInv /\ Stage(6) /\ [Next]_vars => (~ KernelStep /\ Stage(6)') \/ Stage(7)' \/ D'
  BY <1>2
<1>13. KernelInv /\ Stage(7) /\ [Next]_vars => (~ KernelStep /\ Stage(7)') \/ Stage(8)' \/ D'
  BY <1>2
<1>14. KernelInv /\ Stage(8) /\ [Next]_vars => (~ KernelStep /\ Stage(8)') \/ Stage(9)' \/ D'
  BY <1>2
<1>15. KernelInv /\ Stage(9) /\ [Next]_vars => (~ KernelStep /\ Stage(9)') \/ Stage(10)' \/ D'
  BY <1>2
<1>16. KernelInv /\ Stage(10) /\ [Next]_vars => (~ KernelStep /\ Stage(10)') \/ Stage(11)' \/ D'
  BY <1>2
<1>17. KernelInv /\ Stage(11) /\ [Next]_vars => (~ KernelStep /\ Stage(11)') \/ Stage(12)' \/ D'
  BY <1>2
<1>18. KernelInv /\ Stage(12) /\ [Next]_vars => (~ KernelStep /\ Stage(12)') \/ Stage(13)' \/ D'
  BY <1>2
<1>19. KernelInv /\ Stage(13) /\ [Next]_vars => (~ KernelStep /\ Stage(13)') \/ Stage(14)' \/ D'
  BY <1>2
<1>20. KernelInv /\ Stage(14) /\ [Next]_vars => (~ KernelStep /\ Stage(14)') \/ Stage(15)' \/ D'
  BY <1>2
<1>21. KernelInv /\ Stage(15) /\ [Next]_vars => (~ KernelStep /\ Stage(15)') \/ Stage(16)' \/ D'
  BY <1>2
<1>22. KernelInv /\ Stage(16) /\ [Next]_vars => (~ KernelStep /\ Stage(16)') \/ Stage(17)' \/ D'
  BY <1>2
<1>23. KernelInv /\ Stage(17) /\ [Next]_vars => (~ KernelStep /\ Stage(17)') \/ Stage(18)' \/ D'
  BY <1>2
<1>24. KernelInv /\ Stage(18) /\ [Next]_vars => (~ KernelStep /\ Stage(18)') \/ D'
  BY <1>2
<1>25. StepEnabled <=> [](Ready => ENABLED <<KernelStep>>_vars)
  BY DEF StepEnabled
<1>26. ReturnEnabled <=> [](Handled => ENABLED <<HandlerReturns>>_vars)
  BY DEF ReturnEnabled
<1>27. ShellStarts <=> (A => <>D)
  BY DEF ShellStarts
<1> HIDE DEF Handled, A, D
<1>28. Spec => [][Next]_vars /\ Init /\ []KernelInv
  BY KernelAlways, PTL DEF Spec
<1>29. /\ []KernelInv /\ [][Next]_vars /\ Going /\ StepEnabled /\ ReturnEnabled
      /\ SF_vars(KernelStep) /\ SF_vars(HandlerReturns)
      => <>D \/ ([]Going /\ []<><<KernelStep>>_vars)
  BY <1>3, <1>5, <1>6, <1>25, <1>26, PTL
<1>30. []KernelInv /\ [][Next]_vars /\ Stage(1) /\ []<><<KernelStep>>_vars => <>D
  BY <1>7, <1>8, <1>9, <1>10, <1>11, <1>12, <1>13, <1>14, <1>15, <1>16, <1>17, <1>18,
     <1>19, <1>20, <1>21, <1>22, <1>23, <1>24, PTL
<1> QED BY <1>1, <1>4, <1>27, <1>28, <1>29, <1>30, PTL DEF FairSpec

=============================================================================
