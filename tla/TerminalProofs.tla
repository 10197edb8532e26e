--------------------------- MODULE TerminalProofs ---------------------------
(***************************************************************************)
(* Proofs about Terminal, for every size of the buffers and the console,   *)
(* every keyboard and every output of the programs.                        *)
(***************************************************************************)
EXTENDS Terminal, SequenceTheorems, TLAPS

Screens == [x : 0 .. NUM_COLS - 1, y : -1 .. NUM_ROWS - 1, video : [Cells -> Chars]]

KeyChars == { Lower_case[k] : k \in Keys } \union { Upper_case[k] : k \in Keys }

-----------------------------------------------------------------------------
(* The console                                                             *)

(* A cursor on the screen is at a cell of the video memory.                *)
LEMMA CursorInCells ==
  ASSUME NEW s \in Screens, OnScreen(s)
  PROVE  Cursor(s) \in Cells /\ NUM_COLS * s.y + s.x \in Cells
<1> USE TerminalAssumption
<1>1. s.x \in 0 .. NUM_COLS - 1 /\ s.y \in 0 .. NUM_ROWS - 1
  BY DEF OnScreen
<1>2. NUM_COLS * s.y >= 0 /\ NUM_COLS * s.y \in Int
  BY <1>1
<1>3. NUM_COLS * s.y <= NUM_COLS * (NUM_ROWS - 1)
  BY <1>1
<1>4. NUM_COLS * (NUM_ROWS - 1) = NUM_ROWS * NUM_COLS - NUM_COLS
  OBVIOUS
<1>5. NUM_ROWS * NUM_COLS \in Int
  OBVIOUS
<1> QED BY <1>1, <1>2, <1>3, <1>4, <1>5 DEF Cursor, Cells

(* A line feed keeps the cursor on the screen, and leaves it past where it *)
(* was or at the beginning of the last row.                                *)
LEMMA LineFeedStays ==
  ASSUME NEW s \in Screens, OnScreen(s)
  PROVE  /\ LineFeed(s) \in Screens /\ OnScreen(LineFeed(s))
         /\ Cursor(LineFeed(s)) > Cursor(s)
              \/ Cursor(LineFeed(s)) = NUM_COLS * (NUM_ROWS - 1)
<1> USE TerminalAssumption
<1>1. PICK x \in 0 .. NUM_COLS - 1, y \in 0 .. NUM_ROWS - 1, v \in [Cells -> Chars] :
        s = [x |-> x, y |-> y, video |-> v]
  BY DEF Screens, OnScreen
<1>2. CASE y + 1 # NUM_ROWS
  <2>1. LineFeed(s) = [x |-> 0, y |-> y + 1, video |-> v]
    BY <1>1, <1>2 DEF LineFeed
  <2>2. Cursor(LineFeed(s)) = NUM_COLS * (y + 1) /\ Cursor(s) = NUM_COLS * y + x
    BY <2>1, <1>1 DEF Cursor
  <2>3. NUM_COLS * (y + 1) = NUM_COLS * y + NUM_COLS /\ NUM_COLS * y \in Int
    BY <1>1
  <2>4. LineFeed(s) \in Screens /\ OnScreen(LineFeed(s))
    BY <2>1, <1>2 DEF Screens, OnScreen
  <2> QED BY <2>2, <2>3, <2>4
<1>3. CASE y + 1 = NUM_ROWS
  <2> DEFINE up == [p \in Cells |-> IF p + NUM_COLS \in Cells THEN v[p + NUM_COLS] ELSE Blank]
  <2>1. LineFeed(s) = [x |-> 0, y |-> y, video |-> up]
    BY <1>1, <1>3 DEF LineFeed
  <2>2. up \in [Cells -> Chars]
    BY DEF Chars
  <2> HIDE DEF up
  <2>3. Cursor(LineFeed(s)) = NUM_COLS * y /\ y = NUM_ROWS - 1
    BY <2>1, <1>3 DEF Cursor
  <2>4. LineFeed(s) \in Screens /\ OnScreen(LineFeed(s))
    BY <2>1, <2>2, <1>3 DEF Screens, OnScreen
  <2> QED BY <2>3, <2>4
<1> QED BY <1>2, <1>3

(* A character goes to the cell of the cursor, which moves to the next;    *)
(* past the last cell the screen scrolls, and the cursor and everything on *)
(* the screen move back by a row.                                          *)
LEMMA PutCharacter ==
  ASSUME NEW s \in Screens, OnScreen(s), NEW c \in Chars, c \notin {NewLine, Backspace}
  PROVE  /\ Put(s, c) \in Screens /\ OnScreen(Put(s, c))
         /\ \E d \in {0, NUM_COLS} :
              /\ Cursor(Put(s, c)) = Cursor(s) + 1 - d
              /\ d # 0 => Cursor(Put(s, c)) = NUM_COLS * (NUM_ROWS - 1)
              /\ \A k \in Cells : k + d \in Cells =>
                   Put(s, c).video[k] = IF k + d = Cursor(s) THEN c ELSE s.video[k + d]
<1> USE TerminalAssumption
<1>1. PICK x \in 0 .. NUM_COLS - 1, y \in 0 .. NUM_ROWS - 1, v \in [Cells -> Chars] :
        s = [x |-> x, y |-> y, video |-> v]
  BY DEF Screens, OnScreen
<1> DEFINE v1 == [p \in Cells |-> IF p = NUM_COLS * y + x THEN c ELSE v[p]]
           w  == [x |-> x + 1, y |-> y, video |-> v1]
<1>2. v1 \in [Cells -> Chars]
  OBVIOUS
<1>3. WithCell(s, c) = [x |-> x, y |-> y, video |-> v1]
  BY <1>1 DEF WithCell, Cursor
<1>4. \A k \in Cells : v1[k] = IF k = NUM_COLS * y + x THEN c ELSE v[k]
  OBVIOUS
<1> HIDE DEF v1
<1>5. Put(s, c) = IF x + 1 = NUM_COLS THEN LineFeed(w) ELSE w
  BY <1>3 DEF Put
<1>6. Cursor(s) = NUM_COLS * y + x /\ s.video = v /\ NUM_COLS * y \in Int
  BY <1>1 DEF Cursor
<1>7. CASE x + 1 # NUM_COLS
  <2>1. Put(s, c) = w
    BY <1>5, <1>7
  <2>2. Cursor(w) = Cursor(s) + 1 - 0
    BY <1>6 DEF Cursor
  <2>3. w \in Screens /\ OnScreen(w)
    BY <1>2, <1>7 DEF Screens, OnScreen
  <2>4. \A k \in Cells : k + 0 \in Cells =>
          w.video[k] = IF k + 0 = Cursor(s) THEN c ELSE s.video[k + 0]
    BY <1>4, <1>6 DEF Cells
  <2> QED BY <2>1, <2>2, <2>3, <2>4
<1>8. CASE x + 1 = NUM_COLS /\ y + 1 # NUM_ROWS
  <2> DEFINE r == [x |-> 0, y |-> y + 1, video |-> v1]
  <2>1. Put(s, c) = r
    BY <1>5, <1>8 DEF LineFeed
  <2>2. NUM_COLS * (y + 1) = NUM_COLS * y + NUM_COLS
    OBVIOUS
  <2>3. Cursor(r) = Cursor(s) + 1 - 0
    BY <1>6, <1>8, <2>2 DEF Cursor
  <2>4. r \in Screens /\ OnScreen(r)
    BY <1>2, <1>8 DEF Screens, OnScreen
  <2>5. \A k \in Cells : k + 0 \in Cells =>
          r.video[k] = IF k + 0 = Cursor(s) THEN c ELSE s.video[k + 0]
    BY <1>4, <1>6 DEF Cells
  <2> QED BY <2>1, <2>3, <2>4, <2>5
<1>9. CASE x + 1 = NUM_COLS /\ y + 1 = NUM_ROWS
  <2> DEFINE up == [p \in Cells |-> IF p + NUM_COLS \in Cells THEN v1[p + NUM_COLS] ELSE Blank]
             r == [x |-> 0, y |-> y, video |-> up]
  <2>1. LineFeed(w) = r
    BY <1>9 DEF LineFeed
  <2>2. Put(s, c) = r
    BY <1>5, <1>9, <2>1
  <2>3. up \in [Cells -> Chars]
    BY <1>2 DEF Chars
  <2>4. \A k \in Cells : k + NUM_COLS \in Cells => up[k] = v1[k + NUM_COLS]
    OBVIOUS
  <2> HIDE DEF up
  <2>5. Cursor(r) = Cursor(s) + 1 - NUM_COLS /\ Cursor(r) = NUM_COLS * (NUM_ROWS - 1)
    BY <1>6, <1>9 DEF Cursor
  <2>6. r \in Screens /\ OnScreen(r)
    BY <2>3, <1>9 DEF Screens, OnScreen
  <2>7. \A k \in Cells : k + NUM_COLS \in Cells =>
          r.video[k] = IF k + NUM_COLS = Cursor(s) THEN c ELSE s.video[k + NUM_COLS]
    BY <2>4, <1>4, <1>6
  <2> HIDE DEF r
  <2> QED BY <2>2, <2>5, <2>6, <2>7
<1> QED BY <1>7, <1>8, <1>9

(* A backspace that does not leave the screen blanks the cell before the   *)
(* cursor, across the left margin too; one that leaves it does so above    *)
(* the first row.                                                          *)
LEMMA PutBackspace ==
  ASSUME NEW s \in Screens, OnScreen(s)
  PROVE  /\ Put(s, Backspace) \in Screens
         /\ Cursor(s) > 0 =>
              /\ OnScreen(Put(s, Backspace))
              /\ Cursor(Put(s, Backspace)) = Cursor(s) - 1
              /\ \A k \in Cells : k # Cursor(s) - 1 =>
                   Put(s, Backspace).video[k] = s.video[k]
<1> USE TerminalAssumption
<1>1. PICK x \in 0 .. NUM_COLS - 1, y \in 0 .. NUM_ROWS - 1, v \in [Cells -> Chars] :
        s = [x |-> x, y |-> y, video |-> v]
  BY DEF Screens, OnScreen
<1>2. PICK bx \in 0 .. NUM_COLS - 1, by \in -1 .. NUM_ROWS - 1 :
        /\ StepBack(s) = [x |-> bx, y |-> by, video |-> v]
        /\ \/ x > 0 /\ bx = x - 1 /\ by = y
           \/ x = 0 /\ bx = NUM_COLS - 1 /\ by = y - 1
  <2>1. CASE x > 0
    <3>1. StepBack([x |-> x, y |-> y, video |-> v]) = [x |-> x - 1, y |-> y, video |-> v]
      BY <2>1 DEF StepBack
    <3> QED BY <3>1, <2>1, <1>1
  <2>2. CASE x = 0
    <3>1. StepBack(s) = [x |-> NUM_COLS - 1, y |-> y - 1, video |-> v]
      BY <1>1, <2>2 DEF StepBack
    <3> QED BY <3>1, <2>2
  <2> QED BY <2>1, <2>2
<1> DEFINE v1 == [p \in Cells |-> IF p = NUM_COLS * by + bx THEN Blank ELSE v[p]]
           b  == [x |-> bx, y |-> by, video |-> v1]
<1>3. v1 \in [Cells -> Chars]
  BY DEF Chars
<1>4. Put(s, Backspace) = b
  <2>1. Put(s, Backspace) = WithCell(StepBack(s), Blank)
    BY DEF Put, NewLine, Backspace
  <2>2. WithCell([x |-> bx, y |-> by, video |-> v], Blank) = b
    BY DEF WithCell, Cursor
  <2> QED BY <2>1, <2>2, <1>2
<1>5. \A k \in Cells : k # NUM_COLS * by + bx => v1[k] = v[k]
  OBVIOUS
<1> HIDE DEF v1
<1>6. b \in Screens
  BY <1>3 DEF Screens
<1>7. Cursor(s) = NUM_COLS * y + x /\ Cursor(b) = NUM_COLS * by + bx
  BY <1>1 DEF Cursor
<1>8. Cursor(b) = Cursor(s) - 1
  <2>1. CASE by = y
    BY <2>1, <1>2, <1>7
  <2>2. CASE by = y - 1
    <3>1. NUM_COLS * (y - 1) = NUM_COLS * y - NUM_COLS
      OBVIOUS
    <3> QED BY <2>2, <3>1, <1>2, <1>7
  <2> QED BY <2>1, <2>2, <1>2
<1>9. Cursor(s) > 0 => by >= 0
  <2>1. NUM_COLS * 0 = 0
    OBVIOUS
  <2> QED BY <2>1, <1>2, <1>7
<1> QED BY <1>1, <1>4, <1>5, <1>6, <1>7, <1>8, <1>9 DEF OnScreen

(* putc on a screen with its cursor on it gives a screen, and only a       *)
(* backspace moves the cursor off it.                                      *)
LEMMA PutType ==
  ASSUME NEW s \in Screens, OnScreen(s), NEW c \in Chars \union {NewLine}
  PROVE  Put(s, c) \in Screens /\ (c # Backspace => OnScreen(Put(s, c)))
<1>1. CASE c = NewLine
  <2>1. Put(s, c) = LineFeed(s)
    BY <1>1 DEF Put, NewLine, Backspace
  <2> QED BY <2>1, LineFeedStays
<1>2. CASE c = Backspace
  BY <1>2, PutBackspace
<1>3. CASE c \notin {NewLine, Backspace}
  BY <1>3, PutCharacter
<1> QED BY <1>1, <1>2, <1>3

-----------------------------------------------------------------------------
(* Type correctness: a cursor above the screen stops the machine, so every *)
(* step starts from a cursor on the screen.                                *)

TypeInv == TypeOK /\ (cpu # "fault" => OnScreen(screen))

LEMMA TypedInChars ==
  ASSUME NEW k \in Keys
  PROVE  Typed(k) \in KeyChars /\ Typed(k) \in Chars /\ Typed(k) \notin {NewLine, Backspace, Nul}
BY KeyAssumption DEF Typed, KeyChars, Chars

(* A step that prints.                                                     *)
LEMMA PrintsType ==
  ASSUME TypeInv, cpu # "fault", NEW c \in Chars \union {NewLine},
         NEW m \in CpuModes \ {"fault"}, Prints(c, m)
  PROVE  /\ screen' \in Screens /\ cpu' \in {m, "fault"}
         /\ cpu' # "fault" => OnScreen(screen')
         /\ c # Backspace => cpu' = m
BY PutType DEF TypeInv, TypeOK, Prints, Screens

LEMMA TypeInit == Init => TypeInv
<1> SUFFICES ASSUME Init PROVE TypeInv
  OBVIOUS
<1> USE TerminalAssumption DEF Init
<1>1. BlankVideo \in [Cells -> Chars] /\ [k \in BufIndex |-> Nul] \in [BufIndex -> Chars]
  BY DEF BlankVideo, Chars
<1>2. screen \in Screens /\ OnScreen(screen)
  BY <1>1 DEF Screens, OnScreen
<1>3. cpu \in CpuModes /\ modifiers \subseteq AllModifiers
  BY DEF CpuModes, BootModes
<1>4. /\ typed_buf \in [BufIndex -> Chars] /\ terminal_buf \in [BufIndex -> Chars]
      /\ buf \in [BufIndex -> Chars]
  BY <1>1
<1>5. /\ cur_index \in 0 .. BUF_SIZE - 1 /\ written_size \in 0 .. BUF_SIZE - 1
      /\ nbytes \in Nat /\ result_size \in 0 .. BUF_SIZE - 1 /\ i \in 0 .. result_size
      /\ line_size \in 0 .. BUF_SIZE - 1 /\ enter_pressed \in {0, 1}
  OBVIOUS
<1>6. entered_since \in BOOLEAN /\ apart \in BOOLEAN
  OBVIOUS
<1> QED BY <1>2, <1>3, <1>4, <1>5, <1>6 DEF TypeInv, TypeOK, Screens

LEMMA TypeStep == TypeInv /\ [Next]_vars => TypeInv'
<1> SUFFICES ASSUME TypeInv, [Next]_vars PROVE TypeInv'
  OBVIOUS
<1> USE TerminalAssumption DEF TypeInv, TypeOK
<1> USE DEF CpuModes, BootModes
<1>1. ASSUME NEW from \in BootModes, NEW to \in {"clear_x", "clear_y", "user"},
             NEW s, BootStep(from, to, s), s \in Screens, OnScreen(s)
      PROVE  TypeInv'
  BY <1>1 DEF BootStep, CursorLeaves, keyVars, readVars, Screens
<1>2. CASE ClearVideo
  BY <1>1, <1>2 DEF ClearVideo, BlankVideo, Chars, Screens, OnScreen, BootStep
<1>3. CASE ClearX
  BY <1>1, <1>3 DEF ClearX, Screens, OnScreen, BootStep
<1>4. CASE ClearY
  BY <1>1, <1>4 DEF ClearY, Screens, OnScreen, BootStep
<1>5. ASSUME NEW m \in Modifiers, ModifierKey(m) PROVE TypeInv'
  BY <1>5 DEF ModifierKey, readVars
<1>6. CASE BackspaceKey
  <2>1. typed_buf' \in [BufIndex -> Chars]
    BY <1>6 DEF BackspaceKey, Chars
  <2>2. /\ screen' \in Screens /\ cpu' \in {cpu, "fault"}
        /\ cpu' # "fault" => OnScreen(screen')
    BY <1>6, PrintsType DEF BackspaceKey, Interrupted, Chars
  <2> QED BY <1>6, <2>1, <2>2 DEF BackspaceKey, LineGrows, readVars, Screens
<1>7. CASE EnterKey
  BY <1>7, PrintsType DEF EnterKey, Interrupted, LineGrows, readVars, Screens
<1>8. CASE ClearScreenKey
  BY <1>8 DEF ClearScreenKey, LineGrows, readVars, Screens, OnScreen, BlankVideo, Chars
<1>9. ASSUME NEW k \in Keys, CharacterKey(k) PROVE TypeInv'
  BY <1>9, PrintsType, TypedInChars
     DEF CharacterKey, Interrupted, BufferFull, LineGrows, readVars, Screens, BufIndex
<1>10. ASSUME NEW c \in Output, terminal_write(c) PROVE TypeInv'
  BY <1>10, PrintsType DEF terminal_write, CursorLeaves, keyVars, readVars, Screens, Chars
<1>11. ASSUME NEW n \in Sizes, terminal_read(n) PROVE TypeInv'
  BY <1>11 DEF terminal_read, keyVars
<1>12. CASE TakeSize
  <2>1. result_size' \in 0 .. BUF_SIZE - 1 /\ i' \in 0 .. result_size'
    BY <1>12 DEF TakeSize
  <2> QED BY <1>12, <2>1 DEF TakeSize, OnScreen
<1>13. CASE CopyByte
  BY <1>13 DEF CopyByte, keyVars, BufIndex
<1>14. CASE ReadReturns
  BY <1>14 DEF ReadReturns, keyVars, readVars
<1>15. CASE UNCHANGED vars
  BY <1>15 DEF vars, keyVars, readVars, OnScreen
<1> QED BY <1>2, <1>3, <1>4, <1>5, <1>6, <1>7, <1>8, <1>9, <1>10, <1>11, <1>12, <1>13, <1>14,
           <1>15 DEF Next, keyboard_int, ReadStep

LEMMA TypeAlways == Spec => []TypeInv
<1> QED BY TypeInit, TypeStep, PTL DEF Spec

(* Every variable keeps its type, whatever the processor executes when a   *)
(* key is pressed: no index ever leaves its buffer, and the cursor leaves  *)
(* the screen by one row at most.                                          *)
THEOREM TypeCorrect == Spec => []TypeOK
<1>1. TypeInv => TypeOK
  BY DEF TypeInv
<1> QED BY <1>1, TypeAlways, PTL

-----------------------------------------------------------------------------
(* What the user sees.  A line that fits on the screen below its first row *)
(* never scrolls off it: 127 characters on 24 rows of 80.                  *)

LineFits == BUF_SIZE - 1 <= NUM_COLS * (NUM_ROWS - 1)

(* The typed line is on the screen, before the cursor.                     *)
LEMMA EchoOnScreen ==
  ASSUME TypeInv, EchoMatchesLine, ~ apart, cpu # "fault"
  PROVE  /\ Cursor(screen) \in Cells /\ Cursor(screen) - cur_index >= 0
         /\ cur_index \in 0 .. BUF_SIZE - 1 /\ BUF_SIZE \in Nat
<1>1. screen \in Screens /\ OnScreen(screen)
  BY DEF TypeInv, TypeOK, Screens
<1>2. Cursor(screen) \in Cells
  BY <1>1, CursorInCells
<1>3. CASE cur_index = 0
  BY <1>2, <1>3, TerminalAssumption DEF Cells
<1>4. CASE cur_index # 0
  <2>1. 0 \in 0 .. cur_index - 1 /\ cur_index \in 0 .. BUF_SIZE - 1 /\ BUF_SIZE \in Nat
    BY <1>4, TerminalAssumption DEF TypeInv, TypeOK
  <2>2. Cursor(screen) - cur_index + 0 \in Cells
    BY <2>1 DEF EchoMatchesLine
  <2> QED BY <1>2, <2>1, <2>2 DEF Cells
<1> QED BY <1>3, <1>4

(* A typed character appears where the line ends, scrolled or not.         *)
LEMMA EchoCharacter ==
  ASSUME LineFits, TypeInv, TypeInv', EchoMatchesLine, NEW k \in Keys, CharacterKey(k)
  PROVE  EchoMatchesLine'
<1> USE TerminalAssumption
<1> DEFINE c == Typed(k)
           p == Cursor(screen)
           n == cur_index
<1> SUFFICES ASSUME ~ apart', NEW j \in 0 .. cur_index' - 1
             PROVE  /\ Cursor(screen') - cur_index' + j \in Cells
                    /\ screen'.video[Cursor(screen') - cur_index' + j] = typed_buf'[j]
  BY DEF EchoMatchesLine
<1>1. /\ cur_index' = n + 1 /\ n \in 0 .. BUF_SIZE - 2 /\ n \in BufIndex
      /\ typed_buf \in [BufIndex -> Chars] /\ typed_buf' = [typed_buf EXCEPT ![n] = c]
      /\ cpu # "fault" /\ screen' = Put(screen, c)
  BY DEF CharacterKey, LineGrows, BufferFull, Interrupted, Prints, BootModes, TypeInv, TypeOK,
         BufIndex
<1>2. ~ apart
  <2>1. apart' = (apart /\ n + 1 > 0)
    BY DEF CharacterKey, LineGrows
  <2>2. n + 1 > 0
    BY <1>1
  <2> QED BY <2>1, <2>2
<1>3. p \in Cells /\ p - n >= 0
  BY <1>1, <1>2, EchoOnScreen
<1>4. screen \in Screens /\ OnScreen(screen) /\ c \in Chars /\ c \notin {NewLine, Backspace}
  BY <1>1, TypedInChars DEF TypeInv, TypeOK, Screens
<1>5. PICK d \in {0, NUM_COLS} :
        /\ Cursor(screen') = p + 1 - d
        /\ d # 0 => Cursor(screen') = NUM_COLS * (NUM_ROWS - 1)
        /\ \A q \in Cells : q + d \in Cells =>
             screen'.video[q] = IF q + d = p THEN c ELSE screen.video[q + d]
  BY <1>1, <1>4, PutCharacter
<1>6. Cursor(screen') \in Cells
  BY <1>1, <1>4, PutCharacter, CursorInCells
<1> HIDE DEF p, c
<1> DEFINE q == Cursor(screen') - cur_index' + j
<1>7. Cursor(screen') - cur_index' >= 0
  <2>1. CASE d = 0
    BY <2>1, <1>1, <1>3, <1>5 DEF Cells
  <2>2. CASE d # 0
    BY <2>2, <1>1, <1>5 DEF LineFits
  <2> QED BY <2>1, <2>2
<1>8. /\ q \in Cells /\ q + d \in Cells /\ q + d = p - n + j
      /\ j \in BufIndex /\ (j # n => j \in 0 .. n - 1)
  BY <1>1, <1>3, <1>5, <1>6, <1>7 DEF Cells, BufIndex
<1>9. CASE j = n
  BY <1>1, <1>3, <1>5, <1>8, <1>9 DEF Cells
<1>10. CASE j # n
  <2>1. screen.video[p - n + j] = typed_buf[j]
    BY <1>2, <1>8, <1>10 DEF EchoMatchesLine, p
  <2>2. p - n + j # p
    BY <1>1, <1>3, <1>8, <1>10 DEF Cells
  <2> QED BY <1>1, <1>5, <1>8, <1>10, <2>1, <2>2
<1> QED BY <1>8, <1>9, <1>10

(* What Backspace blanks is the last character of the line, not one before *)
(* it.                                                                     *)
LEMMA EchoBackspace ==
  ASSUME TypeInv, EchoMatchesLine, BackspaceKey
  PROVE  EchoMatchesLine'
<1> USE TerminalAssumption
<1> DEFINE p == Cursor(screen)
           n == cur_index
<1> SUFFICES ASSUME ~ apart', NEW j \in 0 .. cur_index' - 1
             PROVE  /\ Cursor(screen') - cur_index' + j \in Cells
                    /\ screen'.video[Cursor(screen') - cur_index' + j] = typed_buf'[j]
  BY DEF EchoMatchesLine
<1>1. /\ cur_index' = n - 1 /\ n \in 1 .. BUF_SIZE - 1 /\ j \in 0 .. n - 2
      /\ typed_buf \in [BufIndex -> Chars] /\ typed_buf' = [typed_buf EXCEPT ![n - 1] = Backspace]
      /\ cpu # "fault" /\ screen' = Put(screen, Backspace)
  BY DEF BackspaceKey, LineGrows, Interrupted, Prints, BootModes, TypeInv, TypeOK
<1>2. ~ apart
  <2>1. apart' = (apart /\ n - 1 > 0)
    BY DEF BackspaceKey, LineGrows
  <2>2. n - 1 > 0
    BY <1>1
  <2> QED BY <2>1, <2>2
<1>3. p \in Cells /\ p - n >= 0
  BY <1>1, <1>2, EchoOnScreen
<1>4. screen \in Screens /\ OnScreen(screen)
  BY <1>1 DEF TypeInv, TypeOK, Screens
<1>5. /\ Cursor(screen') = p - 1
      /\ \A q \in Cells : q # p - 1 => screen'.video[q] = screen.video[q]
  <2>1. p > 0
    BY <1>1, <1>3 DEF Cells
  <2> QED BY <1>1, <1>4, <2>1, PutBackspace
<1> HIDE DEF p
<1>6. p - n + j \in Cells /\ p - n + j # p - 1 /\ Cursor(screen') - cur_index' + j = p - n + j
  BY <1>1, <1>3, <1>5 DEF Cells
<1>7. screen.video[p - n + j] = typed_buf[j] /\ typed_buf'[j] = typed_buf[j]
  <2>1. j \in 0 .. n - 1 /\ j # n - 1 /\ j \in BufIndex
    BY <1>1 DEF BufIndex
  <2> QED BY <1>1, <1>2, <2>1 DEF EchoMatchesLine, p
<1> QED BY <1>5, <1>6, <1>7

LEMMA EchoStep ==
  ASSUME LineFits, TypeInv, TypeInv', EchoMatchesLine, [Next]_vars
  PROVE  EchoMatchesLine'
<1>1. ASSUME cur_index' = 0 PROVE EchoMatchesLine'
  BY <1>1 DEF EchoMatchesLine
<1>2. ASSUME UNCHANGED <<screen, cur_index, typed_buf, apart>> PROVE EchoMatchesLine'
  BY <1>2 DEF EchoMatchesLine, Cursor
<1>3. ASSUME CursorLeaves, UNCHANGED cur_index PROVE EchoMatchesLine'
  <2>1. CASE cur_index = 0
    BY <1>1, <1>3, <2>1
  <2>2. CASE cur_index # 0
    <3>1. cur_index > 0
      BY <2>2 DEF TypeInv, TypeOK
    <3> QED BY <1>3, <3>1 DEF CursorLeaves, EchoMatchesLine
  <2> QED BY <2>1, <2>2
<1>4. CASE ClearVideo \/ ClearX \/ ClearY
  BY <1>3, <1>4 DEF ClearVideo, ClearX, ClearY, BootStep, keyVars
<1>5. ASSUME NEW m \in Modifiers, ModifierKey(m) PROVE EchoMatchesLine'
  BY <1>2, <1>5 DEF ModifierKey
<1>6. CASE BackspaceKey
  BY <1>6, EchoBackspace
<1>7. CASE EnterKey \/ ClearScreenKey
  BY <1>1, <1>7 DEF EnterKey, ClearScreenKey, LineGrows
<1>8. ASSUME NEW k \in Keys, CharacterKey(k) PROVE EchoMatchesLine'
  BY <1>8, EchoCharacter
<1>9. ASSUME NEW c \in Output, terminal_write(c) PROVE EchoMatchesLine'
  BY <1>3, <1>9 DEF terminal_write, keyVars
<1>10. ASSUME NEW n \in Sizes, terminal_read(n) PROVE EchoMatchesLine'
  BY <1>2, <1>10 DEF terminal_read, keyVars
<1>11. CASE ReadStep
  BY <1>2, <1>11 DEF ReadStep, TakeSize, CopyByte, ReadReturns, keyVars
<1>12. CASE UNCHANGED vars
  BY <1>2, <1>12 DEF vars, keyVars
<1> QED BY <1>4, <1>5, <1>6, <1>7, <1>8, <1>9, <1>10, <1>11, <1>12 DEF Next, keyboard_int

(* The cells before the cursor show the typed line unless a program        *)
(* printed, or entry cleared the screen, in the middle of it: on a console *)
(* of any size that a whole line fits on, whatever is printed.             *)
THEOREM EchoCorrect ==
  ASSUME LineFits
  PROVE  Spec => []EchoMatchesLine
<1>1. Init => EchoMatchesLine
  BY DEF Init, EchoMatchesLine
<1>2. TypeInv /\ TypeInv' /\ EchoMatchesLine /\ [Next]_vars => EchoMatchesLine'
  BY EchoStep
<1> QED BY <1>1, <1>2, TypeAlways, PTL DEF Spec

-----------------------------------------------------------------------------
(* The cursor.  No backspace can take it past the first row while at least *)
(* as many cells are before it as characters are typed.                    *)

RoomToErase ==
  /\ OnScreen(screen) /\ cpu # "fault"
  /\ Cursor(screen) >= cur_index
  /\ cpu \in BootModes => cur_index = 0

(* Printing a character or a line feed, the line may grow by one.          *)
LEMMA RoomAfterPut ==
  ASSUME LineFits, TypeInv, RoomToErase, NEW c \in Chars \union {NewLine}, c # Backspace,
         NEW n \in 0 .. BUF_SIZE - 1,
         n <= cur_index + (IF c = NewLine THEN 0 ELSE 1)
  PROVE  OnScreen(Put(screen, c)) /\ Cursor(Put(screen, c)) >= n
<1> USE TerminalAssumption
<1>1. /\ screen \in Screens /\ OnScreen(screen) /\ cur_index \in Nat /\ BUF_SIZE \in Nat
      /\ Cursor(screen) \in Cells /\ Cursor(screen) >= cur_index
  BY CursorInCells DEF TypeInv, TypeOK, Screens, RoomToErase
<1>2. CASE c = NewLine
  <2>1. Put(screen, c) = LineFeed(screen)
    BY <1>2 DEF Put, NewLine, Backspace
  <2>2. Cursor(LineFeed(screen)) \in Cells
    BY <1>1, LineFeedStays, CursorInCells
  <2> QED BY <1>1, <1>2, <2>1, <2>2, LineFeedStays DEF LineFits, Cells
<1>3. CASE c # NewLine
  <2>1. PICK d \in {0, NUM_COLS} :
          /\ Cursor(Put(screen, c)) = Cursor(screen) + 1 - d
          /\ d # 0 => Cursor(Put(screen, c)) = NUM_COLS * (NUM_ROWS - 1)
    BY <1>1, <1>3, PutCharacter
  <2>2. OnScreen(Put(screen, c))
    BY <1>1, <1>3, PutCharacter
  <2>3. CASE d = 0
    BY <1>1, <1>3, <2>1, <2>2, <2>3 DEF Cells
  <2>4. CASE d # 0
    BY <1>1, <2>1, <2>2, <2>4 DEF LineFits
  <2> QED BY <2>3, <2>4
<1> QED BY <1>2, <1>3

LEMMA RoomInit == Init => RoomToErase
<1> SUFFICES ASSUME Init PROVE RoomToErase
  OBVIOUS
<1>1. screen \in Screens /\ OnScreen(screen) /\ cpu = "clear_video" /\ cur_index = 0
  BY TypeInit DEF Init, TypeInv, TypeOK, Screens
<1>2. Cursor(screen) \in Cells
  BY <1>1, CursorInCells
<1> QED BY <1>1, <1>2 DEF RoomToErase, Cells

LEMMA RoomStep ==
  ASSUME LineFits, ~ EarlyKeys, Backspace \notin Output,
         TypeInv, TypeInv', RoomToErase, [Next]_vars
  PROVE  RoomToErase'
<1> USE TerminalAssumption
<1>1. /\ screen' \in Screens /\ cur_index \in 0 .. BUF_SIZE - 1 /\ cur_index' \in 0 .. BUF_SIZE - 1
      /\ OnScreen(screen') => Cursor(screen') \in Cells
  BY CursorInCells DEF TypeInv, TypeOK, Screens
<1>2. ASSUME OnScreen(screen'), cpu' # "fault", cur_index' = 0
      PROVE  RoomToErase'
  BY <1>1, <1>2 DEF RoomToErase, Cells, OnScreen
<1>3. ASSUME UNCHANGED <<screen, cur_index>>, cpu' # "fault",
             cpu' \in BootModes => cpu \in BootModes
      PROVE  RoomToErase'
  BY <1>3 DEF RoomToErase, Cursor, OnScreen
<1>4. ASSUME Interrupted PROVE cpu \in {"user", "spin", "copy"}
  BY <1>4 DEF Interrupted
<1>5. CASE ClearVideo \/ ClearX \/ ClearY
  <2>1. cur_index' = 0 /\ cpu' \in {"clear_x", "clear_y", "user"}
    BY <1>5 DEF ClearVideo, ClearX, ClearY, BootStep, keyVars, RoomToErase, BootModes
  <2>2. OnScreen(screen')
    BY <2>1 DEF TypeInv
  <2> QED BY <1>2, <2>1, <2>2
<1>6. ASSUME NEW m \in Modifiers, ModifierKey(m) PROVE RoomToErase'
  BY <1>3, <1>6 DEF ModifierKey, RoomToErase
<1>7. CASE BackspaceKey
  <2>1. /\ cpu \in {"user", "spin", "copy"} /\ screen' = Put(screen, Backspace)
        /\ cur_index > 0 /\ cur_index' = cur_index - 1
        /\ cpu' = IF OnScreen(screen') THEN cpu ELSE "fault"
    BY <1>4, <1>7 DEF BackspaceKey, LineGrows, Prints
  <2>2. screen \in Screens /\ OnScreen(screen) /\ Cursor(screen) >= cur_index
    BY DEF RoomToErase, TypeInv, TypeOK, Screens
  <2>3. Cursor(screen) \in Cells
    BY <2>2, CursorInCells
  <2>4. OnScreen(screen') /\ Cursor(screen') = Cursor(screen) - 1
    BY <1>1, <2>1, <2>2, <2>3, PutBackspace DEF Cells
  <2>5. Cursor(screen') >= cur_index'
    BY <1>1, <2>1, <2>2, <2>3, <2>4 DEF Cells
  <2> QED BY <2>1, <2>4, <2>5 DEF RoomToErase, BootModes
<1>8. CASE EnterKey
  <2>1. cpu \in {"user", "spin", "copy"} /\ screen' = Put(screen, NewLine) /\ cur_index' = 0
    BY <1>4, <1>8 DEF EnterKey, LineGrows, Prints
  <2>2. OnScreen(screen')
    BY <1>1, <2>1, RoomAfterPut DEF NewLine, Backspace
  <2> QED BY <1>2, <1>8, <2>1, <2>2 DEF EnterKey, Prints
<1>9. CASE ClearScreenKey
  <2>1. cpu' = cpu /\ cur_index' = 0 /\ cpu' # "fault"
    BY <1>9 DEF ClearScreenKey, LineGrows, RoomToErase
  <2>2. OnScreen(screen')
    BY <2>1 DEF TypeInv
  <2> QED BY <1>2, <2>1, <2>2
<1>10. ASSUME NEW k \in Keys, CharacterKey(k) PROVE RoomToErase'
  <2>1. /\ cpu \in {"user", "spin", "copy"} /\ screen' = Put(screen, Typed(k))
        /\ cur_index' = cur_index + 1
        /\ cpu' = IF OnScreen(screen') THEN cpu ELSE "fault"
    BY <1>4, <1>10 DEF CharacterKey, LineGrows, Prints
  <2>2. OnScreen(screen') /\ Cursor(screen') >= cur_index'
    BY <1>1, <2>1, RoomAfterPut, TypedInChars
  <2> QED BY <2>1, <2>2 DEF RoomToErase, BootModes
<1>11. ASSUME NEW c \in Output, terminal_write(c) PROVE RoomToErase'
  <2>1. /\ screen' = Put(screen, c) /\ cur_index' = cur_index /\ c \in Chars /\ c # Backspace
        /\ cpu' = IF OnScreen(screen') THEN "user" ELSE "fault"
    BY <1>11 DEF terminal_write, Prints, keyVars, Chars
  <2>2. OnScreen(screen') /\ Cursor(screen') >= cur_index'
    BY <1>1, <2>1, RoomAfterPut
  <2> QED BY <2>1, <2>2 DEF RoomToErase, BootModes
<1>12. ASSUME NEW n \in Sizes, terminal_read(n) PROVE RoomToErase'
  BY <1>3, <1>12 DEF terminal_read, keyVars, BootModes
<1>13. CASE ReadStep
  BY <1>3, <1>13 DEF ReadStep, TakeSize, CopyByte, ReadReturns, keyVars, BootModes
<1>14. CASE UNCHANGED vars
  BY <1>3, <1>14 DEF vars, keyVars, RoomToErase
<1> QED BY <1>5, <1>6, <1>7, <1>8, <1>9, <1>10, <1>11, <1>12, <1>13, <1>14
        DEF Next, keyboard_int

(* When no key comes before the screen is cleared and no program prints a  *)
(* backspace, no write ever goes outside video memory, on a console of any *)
(* size that a whole line fits on.                                         *)
THEOREM CursorCorrect ==
  ASSUME LineFits, ~ EarlyKeys, Backspace \notin Output
  PROVE  Spec => []CursorOnScreen
<1>1. TypeInv /\ TypeInv' /\ RoomToErase /\ [Next]_vars => RoomToErase'
  BY RoomStep
<1>2. RoomToErase => CursorOnScreen
  BY DEF RoomToErase, CursorOnScreen
<1> QED BY <1>1, <1>2, RoomInit, TypeAlways, PTL DEF Spec

-----------------------------------------------------------------------------
(* The line buffers: what is in them up to their lengths was typed, and a  *)
(* read that Enter has not torn has copied bytes of the entered line.      *)

LineInv ==
  /\ \A k \in 0 .. cur_index - 1 : typed_buf[k] \in KeyChars
  /\ \A k \in 0 .. written_size - 1 : terminal_buf[k] \in KeyChars
  /\ cpu = "copy" /\ ~ entered_since =>
       /\ result_size <= written_size
       /\ \A k \in 0 .. i - 1 : buf[k] = terminal_buf[k]

LEMMA LineStep ==
  ASSUME TypeInv, LineInv, [Next]_vars
  PROVE  LineInv'
<1> USE TerminalAssumption
<1>1. ASSUME UNCHANGED <<typed_buf, cur_index, terminal_buf, written_size>>, cpu' # "copy"
      PROVE  LineInv'
  BY <1>1 DEF LineInv
<1>2. ASSUME UNCHANGED <<typed_buf, cur_index, terminal_buf, written_size, result_size, i, buf,
                         cpu, entered_since>>
      PROVE  LineInv'
  BY <1>2 DEF LineInv
<1>3. ASSUME UNCHANGED <<terminal_buf, written_size, result_size, i, buf, entered_since>>,
             cpu' \in {cpu, "fault"},
             \A k \in 0 .. cur_index' - 1 : typed_buf'[k] \in KeyChars
      PROVE  LineInv'
  BY <1>3 DEF LineInv
<1>4. CASE ClearVideo \/ ClearX \/ ClearY
  BY <1>1, <1>4 DEF ClearVideo, ClearX, ClearY, BootStep, keyVars
<1>5. ASSUME NEW m \in Modifiers, ModifierKey(m) PROVE LineInv'
  BY <1>2, <1>5 DEF ModifierKey, readVars
<1>6. CASE BackspaceKey
  <2>1. /\ cur_index \in 1 .. BUF_SIZE - 1 /\ cur_index' = cur_index - 1
        /\ typed_buf \in [BufIndex -> Chars]
        /\ typed_buf' = [typed_buf EXCEPT ![cur_index - 1] = Backspace]
    BY <1>6 DEF BackspaceKey, LineGrows, TypeInv, TypeOK
  <2>2. \A k \in 0 .. cur_index' - 1 : typed_buf'[k] \in KeyChars
    BY <2>1 DEF LineInv, BufIndex
  <2> QED BY <1>3, <1>6, <2>2 DEF BackspaceKey, Prints, readVars
<1>7. CASE EnterKey
  <2>1. /\ entered_since' = TRUE
        /\ cur_index' = 0 /\ typed_buf' = typed_buf
        /\ \/ terminal_buf' = terminal_buf /\ written_size' = written_size
           \/ terminal_buf' = typed_buf /\ written_size' = cur_index
    BY <1>7 DEF EnterKey, LineGrows
  <2> QED BY <2>1 DEF LineInv
<1>8. CASE ClearScreenKey
  BY <1>3, <1>8 DEF ClearScreenKey, LineGrows, readVars
<1>9. ASSUME NEW k \in Keys, CharacterKey(k) PROVE LineInv'
  <2>1. /\ cur_index \in 0 .. BUF_SIZE - 2 /\ cur_index' = cur_index + 1
        /\ typed_buf \in [BufIndex -> Chars]
        /\ typed_buf' = [typed_buf EXCEPT ![cur_index] = Typed(k)]
    BY <1>9 DEF CharacterKey, BufferFull, LineGrows, TypeInv, TypeOK
  <2>2. \A j \in 0 .. cur_index' - 1 : typed_buf'[j] \in KeyChars
    BY <2>1, TypedInChars DEF LineInv, BufIndex
  <2> QED BY <1>3, <1>9, <2>2 DEF CharacterKey, Prints, readVars
<1>10. ASSUME NEW c \in Output, terminal_write(c) PROVE LineInv'
  BY <1>1, <1>10 DEF terminal_write, Prints, keyVars
<1>11. ASSUME NEW n \in Sizes, terminal_read(n) PROVE LineInv'
  BY <1>1, <1>11 DEF terminal_read, keyVars
<1>12. CASE TakeSize
  <2>1. /\ result_size' = (IF nbytes < written_size THEN nbytes ELSE written_size) /\ i' = 0
        /\ UNCHANGED <<typed_buf, cur_index, terminal_buf, written_size, buf>>
    BY <1>12 DEF TakeSize
  <2> QED BY <2>1 DEF LineInv, TypeInv, TypeOK
<1>13. CASE CopyByte
  <2>1. /\ UNCHANGED <<typed_buf, cur_index, terminal_buf, written_size, entered_since, cpu,
                       result_size>>
        /\ i < result_size /\ i' = i + 1
        /\ buf' = [buf EXCEPT ![i] = terminal_buf[i]]
        /\ buf \in [BufIndex -> Chars] /\ result_size \in 0 .. BUF_SIZE - 1
        /\ i \in 0 .. result_size
    BY <1>13 DEF CopyByte, keyVars, TypeInv, TypeOK
  <2>2. ASSUME cpu = "copy", ~ entered_since
        PROVE  \A k \in 0 .. i' - 1 : buf'[k] = terminal_buf[k]
    BY <2>1, <2>2 DEF LineInv, BufIndex
  <2> QED BY <2>1, <2>2 DEF LineInv
<1>14. CASE ReadReturns
  BY <1>1, <1>14 DEF ReadReturns, keyVars
<1>15. CASE UNCHANGED vars
  BY <1>2, <1>15 DEF vars, keyVars, readVars
<1> QED BY <1>4, <1>5, <1>6, <1>7, <1>8, <1>9, <1>10, <1>11, <1>12, <1>13, <1>14, <1>15
        DEF Next, keyboard_int, ReadStep

LEMMA LineInit == Init => LineInv
BY TypeInit DEF Init, LineInv

LEMMA LineAlways == Spec => [](TypeInv /\ LineInv)
<1>1. TypeInv /\ LineInv /\ [Next]_vars => LineInv'
  BY LineStep
<1> QED BY <1>1, LineInit, TypeAlways, PTL DEF Spec

(* The backspace that BackspaceKey leaves in typed_buf is never entered    *)
(* and never copied, wherever the handler interrupts the read.             *)
THEOREM NoErasedBytesCorrect == Spec => []NoErasedBytes
<1>1. ASSUME NEW c \in KeyChars PROVE c \notin {Backspace, Nul}
  BY KeyAssumption DEF KeyChars
<1>2. TypeInv /\ LineInv => NoErasedBytes
  BY <1>1 DEF TypeInv, TypeOK, LineInv, NoErasedBytes
<1> QED BY <1>2, LineAlways, PTL

-----------------------------------------------------------------------------
(* The handler and the read implement the line editor LineInput.           *)

(* What a buffer of which n bytes are used holds, as a sequence.           *)
LEMMA BufferLineSeq ==
  ASSUME NEW b \in [BufIndex -> Chars], NEW n \in 0 .. BUF_SIZE - 1
  PROVE  /\ BufferLine(b, n) \in Seq(Chars) /\ BufferLine(b, n) \in [1 .. n -> Chars]
         /\ Len(BufferLine(b, n)) = n
         /\ \A j \in 1 .. n : BufferLine(b, n)[j] = b[j - 1]
         /\ BufferLine(b, n) = <<>> <=> n = 0
<1> USE TerminalAssumption
<1>1. BufferLine(b, n) \in [1 .. n -> Chars]
  BY DEF BufferLine, BufIndex
<1>2. BufferLine(b, n) \in Seq(Chars)
  BY <1>1, SeqDef
<1>3. Len(BufferLine(b, n)) = n
  BY <1>1, <1>2, LenProperties
<1>4. \A j \in 1 .. n : BufferLine(b, n)[j] = b[j - 1]
  BY DEF BufferLine
<1>5. BufferLine(b, n) = <<>> <=> n = 0
  <2>1. <<>> \in Seq(Chars) /\ Len(<<>>) = 0
    BY EmptySeq
  <2>2. n = 0 => BufferLine(b, n) = <<>>
    BY <1>2, <1>3, <2>1, SeqEqual
  <2> QED BY <1>3, <2>1, <2>2
<1> QED BY <1>1, <1>2, <1>3, <1>4, <1>5

LEMMA BufferLinePrefix ==
  ASSUME NEW b \in [BufIndex -> Chars], NEW n \in 0 .. BUF_SIZE - 1, NEW m \in 0 .. n,
         NEW d \in [BufIndex -> Chars], \A k \in 0 .. m - 1 : d[k] = b[k]
  PROVE  BufferLine(d, m) = SubSeq(BufferLine(b, n), 1, m)
<1> USE TerminalAssumption
<1> DEFINE s == SubSeq(BufferLine(b, n), 1, m)
<1>1. \A j \in 1 .. m : BufferLine(b, n)[j] = b[j - 1] /\ b[j - 1] \in Chars
  BY BufferLineSeq DEF BufIndex
<1>2. s \in Seq(Chars) /\ Len(s) = m /\ \A j \in 1 .. m : s[j] = BufferLine(b, n)[j]
  BY <1>1, SubSeqProperties
<1>3. BufferLine(d, m) \in Seq(Chars) /\ Len(BufferLine(d, m)) = m
        /\ \A j \in 1 .. m : BufferLine(d, m)[j] = d[j - 1]
  BY BufferLineSeq
<1>4. \A j \in 1 .. m : BufferLine(d, m)[j] = s[j]
  BY <1>1, <1>2, <1>3
<1> HIDE DEF s
<1>5. BufferLine(d, m) = s
  BY <1>2, <1>3, <1>4, SeqEqual
<1> QED BY <1>5 DEF s

LEMMA BufferLineAppend ==
  ASSUME NEW b \in [BufIndex -> Chars], NEW n \in 0 .. BUF_SIZE - 2, NEW c \in Chars
  PROVE  BufferLine([b EXCEPT ![n] = c], n + 1) = Append(BufferLine(b, n), c)
<1> USE TerminalAssumption
<1> DEFINE d == [b EXCEPT ![n] = c]
<1>1. d \in [BufIndex -> Chars] /\ n + 1 \in 0 .. BUF_SIZE - 1
        /\ \A k \in 0 .. n : d[k] = IF k = n THEN c ELSE b[k]
  BY DEF BufIndex
<1> HIDE DEF d
<1>2. /\ BufferLine(d, n + 1) \in Seq(Chars) /\ Len(BufferLine(d, n + 1)) = n + 1
      /\ \A j \in 1 .. n + 1 : BufferLine(d, n + 1)[j] = d[j - 1]
  BY <1>1, BufferLineSeq
<1>3. /\ BufferLine(b, n) \in Seq(Chars) /\ Len(BufferLine(b, n)) = n
      /\ \A j \in 1 .. n : BufferLine(b, n)[j] = b[j - 1]
  BY BufferLineSeq
<1>4. /\ Append(BufferLine(b, n), c) \in Seq(Chars) /\ Len(Append(BufferLine(b, n), c)) = n + 1
      /\ \A j \in 1 .. n + 1 :
           Append(BufferLine(b, n), c)[j] = IF j = n + 1 THEN c ELSE BufferLine(b, n)[j]
  BY <1>3
<1>5. ASSUME NEW j \in 1 .. n + 1
      PROVE  BufferLine(d, n + 1)[j] = Append(BufferLine(b, n), c)[j]
  <2>1. BufferLine(d, n + 1)[j] = d[j - 1] /\ j - 1 \in 0 .. n
    BY <1>2
  <2>2. CASE j = n + 1
    BY <1>1, <1>4, <2>1, <2>2
  <2>3. CASE j # n + 1
    <3>1. j \in 1 .. n /\ j - 1 # n
      BY <2>3
    <3> QED BY <1>1, <1>3, <1>4, <2>1, <2>3, <3>1
  <2> QED BY <2>2, <2>3
<1>6. BufferLine(d, n + 1) = Append(BufferLine(b, n), c)
  BY <1>2, <1>4, <1>5, SeqEqual
<1> QED BY <1>6 DEF d

(* The values of LineInput's variables that are not variables of Terminal. *)
Line    == BufferLine(typed_buf, cur_index)
Entered == BufferLine(terminal_buf, written_size)
Intact  == ~ (cpu = "copy" /\ entered_since)
Result  == IF cpu \in {"copy", "fault"} THEN <<>> ELSE BufferLine(buf, result_size)

LEMMA LineStutters ==
  ASSUME UNCHANGED <<typed_buf, cur_index, terminal_buf, written_size, enter_pressed, nbytes,
                     result_size>>,
         Reader' = Reader, Intact' = Intact, Result' = Result
  PROVE  UNCHANGED Lines!vars
BY DEF Lines!vars, Lines!readVars, Intact, Result

LEMMA LinesInit == Init => Lines!Init
<1> SUFFICES ASSUME Init PROVE Lines!Init
  OBVIOUS
<1>1. /\ typed_buf \in [BufIndex -> Chars] /\ terminal_buf \in [BufIndex -> Chars]
      /\ buf \in [BufIndex -> Chars] /\ 0 \in 0 .. BUF_SIZE - 1
      /\ cur_index = 0 /\ written_size = 0 /\ result_size = 0
  BY TypeInit DEF Init, TypeInv, TypeOK
<1>2. Line = <<>> /\ Entered = <<>> /\ BufferLine(buf, result_size) = <<>>
  BY <1>1, BufferLineSeq DEF Line, Entered
<1>3. Reader = "idle" /\ Result = <<>> /\ cpu # "copy" /\ nbytes = 0 /\ enter_pressed # 1
  BY <1>2 DEF Init, Reader, Result
<1>4. (~ (cpu = "copy" /\ entered_since)) = TRUE /\ (enter_pressed = 1) = FALSE
  BY <1>3
<1> QED BY <1>1, <1>2, <1>3, <1>4 DEF Lines!Init, Line, Entered, Result

(* What steps of the handler leave alone: the reader and what it has.      *)
LEMMA HandlerKeepsReader ==
  ASSUME TypeInv, cpu' = cpu, UNCHANGED <<readVars, entered_since>>
  PROVE  /\ Reader' = Reader /\ Intact' = Intact /\ Result' = Result
         /\ UNCHANGED <<nbytes, result_size>>
BY DEF Reader, Intact, Result, readVars

LEMMA BackspaceErases ==
  ASSUME TypeInv, BackspaceKey
  PROVE  Lines!Erase \/ Lines!EraseStops
<1> USE TerminalAssumption
<1>1. /\ cur_index \in 1 .. BUF_SIZE - 1 /\ cur_index' = cur_index - 1
      /\ typed_buf \in [BufIndex -> Chars]
      /\ typed_buf' = [typed_buf EXCEPT ![cur_index - 1] = Backspace]
      /\ UNCHANGED <<terminal_buf, written_size, enter_pressed, readVars, entered_since>>
  BY DEF BackspaceKey, LineGrows, TypeInv, TypeOK
<1>2. /\ typed_buf' \in [BufIndex -> Chars] /\ cur_index' \in 0 .. BUF_SIZE - 1
      /\ cur_index' \in 0 .. cur_index
      /\ \A k \in 0 .. cur_index' - 1 : typed_buf'[k] = typed_buf[k]
  BY <1>1 DEF BufIndex, Chars
<1>3. Line' = SubSeq(Line, 1, Len(Line) - 1) /\ Line # <<>>
  <2>1. Line # <<>> /\ Len(Line) = cur_index
    BY <1>1, BufferLineSeq DEF Line
  <2>2. BufferLine(typed_buf', cur_index') = SubSeq(Line, 1, cur_index')
    <3>1. cur_index \in 0 .. BUF_SIZE - 1 /\ typed_buf \in [BufIndex -> Chars]
      BY <1>1
    <3> QED BY ONLY <1>2, <3>1, BufferLinePrefix DEF Line
  <2> QED BY <1>1, <2>1, <2>2 DEF Line
<1>4. cpu' \in {cpu, "fault"} /\ Interrupted
  BY DEF BackspaceKey, Prints
<1>5. CASE cpu' = cpu
  BY <1>1, <1>3, <1>5, HandlerKeepsReader
     DEF Lines!Erase, Lines!readVars, Line, Intact, Result
<1>6. CASE cpu' = "fault"
  <2>1. Reader' = "stopped" /\ Intact' = TRUE /\ Result' = <<>>
    BY <1>6 DEF Reader, Intact, Result
  <2> QED BY <1>1, <1>3, <2>1 DEF Lines!EraseStops, Line, Intact, Result, readVars
<1> QED BY <1>4, <1>5, <1>6

LEMMA EnterEnters ==
  ASSUME TypeInv, EnterKey
  PROVE  Lines!Enter
<1> USE TerminalAssumption
<1>1. /\ cur_index \in 0 .. BUF_SIZE - 1 /\ cur_index' = 0 /\ typed_buf' = typed_buf
      /\ typed_buf \in [BufIndex -> Chars] /\ 0 \in 0 .. BUF_SIZE - 1
      /\ terminal_buf' = (IF cur_index # 0 THEN typed_buf ELSE terminal_buf)
      /\ written_size' = (IF cur_index # 0 THEN cur_index ELSE written_size)
      /\ enter_pressed' = 1 /\ entered_since' = TRUE /\ UNCHANGED readVars
  BY DEF EnterKey, LineGrows, TypeInv, TypeOK
<1>2. Line' = <<>> /\ (Line = <<>> <=> cur_index = 0)
  BY <1>1, BufferLineSeq DEF Line
<1>3. Entered' = IF Line = <<>> THEN Entered ELSE Line
  BY <1>1, <1>2 DEF Line, Entered
<1>4. cpu' = cpu
  BY PrintsType DEF EnterKey, Interrupted, BootModes, CpuModes, NewLine, Backspace
<1>5. Reader' = Reader /\ Result' = Result /\ UNCHANGED <<nbytes, result_size>>
  BY <1>1, <1>4 DEF Reader, Result, readVars
<1>6. (Reader # "copying") = (~ (cpu = "copy"))
  BY DEF Reader
<1>7. (~ (cpu = "copy" /\ entered_since))' = (Reader # "copying")
  BY <1>1, <1>4, <1>6
<1>8. (enter_pressed = 1)' = TRUE
  BY <1>1
<1> QED BY <1>2, <1>3, <1>5, <1>7, <1>8 DEF Lines!Enter, Lines!readVars, Line, Entered, Result

LEMMA ClearDiscards ==
  ASSUME TypeInv, ClearScreenKey
  PROVE  Lines!Discard
<1> USE TerminalAssumption
<1>1. /\ cur_index' = 0 /\ typed_buf' = typed_buf /\ cpu' = cpu
      /\ typed_buf \in [BufIndex -> Chars] /\ 0 \in 0 .. BUF_SIZE - 1
      /\ UNCHANGED <<terminal_buf, written_size, enter_pressed, readVars, entered_since>>
  BY DEF ClearScreenKey, LineGrows, TypeInv, TypeOK
<1>2. Line' = <<>>
  BY <1>1, BufferLineSeq DEF Line
<1> QED BY <1>1, <1>2, HandlerKeepsReader
        DEF Lines!Discard, Lines!readVars, Line, Intact, Result

LEMMA CharacterTypes ==
  ASSUME TypeInv, NEW k \in Keys, CharacterKey(k)
  PROVE  \E c \in KeyChars : Lines!Type(c)
<1> USE TerminalAssumption
<1>1. /\ cur_index \in 0 .. BUF_SIZE - 2 /\ cur_index' = cur_index + 1
      /\ typed_buf \in [BufIndex -> Chars]
      /\ typed_buf' = [typed_buf EXCEPT ![cur_index] = Typed(k)]
      /\ UNCHANGED <<terminal_buf, written_size, enter_pressed, readVars, entered_since>>
  BY DEF CharacterKey, BufferFull, LineGrows, TypeInv, TypeOK
<1>2. Line' = Append(Line, Typed(k)) /\ Len(Line) < BUF_SIZE - 1
  <2>1. Len(Line) = cur_index
    BY <1>1, BufferLineSeq DEF Line
  <2>2. BufferLine([typed_buf EXCEPT ![cur_index] = Typed(k)], cur_index + 1)
          = Append(Line, Typed(k))
    BY <1>1, BufferLineAppend, TypedInChars DEF Line
  <2>3. Line' = Append(Line, Typed(k))
    BY <1>1, <2>2 DEF Line
  <2> QED BY <1>1, <2>1, <2>3
<1>3. cpu' = cpu
  BY PrintsType, TypedInChars DEF CharacterKey, Interrupted, BootModes, CpuModes
<1>4. Lines!Type(Typed(k))
  BY <1>1, <1>2, <1>3, HandlerKeepsReader
     DEF Lines!Type, Lines!readVars, Line, Intact, Result
<1> QED BY <1>4, TypedInChars

LEMMA ReadReads ==
  ASSUME NEW n \in Sizes, terminal_read(n)
  PROVE  Lines!Read(n)
<1>1. /\ cpu = "user" /\ cpu' = "spin" /\ nbytes' = n
      /\ UNCHANGED <<typed_buf, cur_index, terminal_buf, written_size, entered_since,
                     enter_pressed, result_size, buf>>
  BY DEF terminal_read, keyVars
<1>2. Reader = "idle" /\ Reader' = "waiting" /\ Intact' = Intact /\ Result' = Result
  BY <1>1 DEF Reader, Intact, Result
<1> QED BY <1>1, <1>2 DEF Lines!Read, Intact, Result

LEMMA TakeSizeBegins ==
  ASSUME TypeInv, TakeSize
  PROVE  Lines!BeginCopy
<1> USE TerminalAssumption
<1>1. /\ cpu = "spin" /\ cpu' = "copy" /\ enter_pressed = 1 /\ entered_since' = FALSE
      /\ result_size' = IF nbytes < written_size THEN nbytes ELSE written_size
      /\ UNCHANGED <<typed_buf, cur_index, terminal_buf, written_size, enter_pressed, nbytes>>
  BY DEF TakeSize, TypeInv, TypeOK
<1>2. /\ Reader = "waiting" /\ Reader' = "copying" /\ Intact' = Intact /\ Result' = <<>>
  BY <1>1 DEF Reader, Intact, Result
<1>3. Len(Entered) = written_size
  BY BufferLineSeq DEF Entered, TypeInv, TypeOK
<1> QED BY <1>1, <1>2, <1>3 DEF Lines!BeginCopy, Entered, Intact, Result

LEMMA ReturnEnds ==
  ASSUME TypeInv, LineInv, ReadReturns
  PROVE  Lines!EndCopy
<1> USE TerminalAssumption
<1>1. /\ cpu = "copy" /\ cpu' = "user" /\ enter_pressed' = 0 /\ i = result_size
      /\ UNCHANGED <<typed_buf, cur_index, terminal_buf, written_size, nbytes, result_size, buf>>
      /\ result_size \in 0 .. BUF_SIZE - 1 /\ written_size \in 0 .. BUF_SIZE - 1
      /\ buf \in [BufIndex -> Chars] /\ terminal_buf \in [BufIndex -> Chars]
  BY DEF ReadReturns, keyVars, readVars, TypeInv, TypeOK
<1>2. /\ Reader = "copying" /\ Reader' = "idle" /\ Intact' = TRUE
      /\ Result' = BufferLine(buf, result_size)
  BY <1>1 DEF Reader, Intact, Result
<1>3. Intact => Result' = SubSeq(Entered, 1, result_size)
  BY <1>1, <1>2, BufferLinePrefix DEF LineInv, Intact, Entered
<1>4. Result' \in [1 .. result_size -> Chars]
  BY <1>1, <1>2, BufferLineSeq
<1>5. (enter_pressed = 1)' = FALSE
  BY <1>1
<1> QED BY <1>1, <1>2, <1>3, <1>4, <1>5 DEF Lines!EndCopy, Entered, Intact, Result

LEMMA LinesStep ==
  ASSUME Backspace \notin Output, TypeInv, LineInv, [Next]_vars
  PROVE  [Lines!Next]_Lines!vars
<1>1. CASE ClearVideo \/ ClearX \/ ClearY
  <2>1. /\ cpu \in BootModes /\ cpu' \in {"clear_x", "clear_y", "user"}
        /\ UNCHANGED <<keyVars, enter_pressed, readVars>>
    BY <1>1 DEF ClearVideo, ClearX, ClearY, BootStep, BootModes
  <2>2. Reader' = Reader /\ Intact' = Intact /\ Result' = Result
    BY <2>1 DEF Reader, Intact, Result, BootModes, readVars
  <2> QED BY <2>1, <2>2, LineStutters DEF keyVars, readVars
<1>2. ASSUME NEW m \in Modifiers, ModifierKey(m) PROVE UNCHANGED Lines!vars
  BY <1>2, HandlerKeepsReader, LineStutters DEF ModifierKey
<1>3. CASE BackspaceKey
  BY <1>3, BackspaceErases DEF Lines!Next
<1>4. CASE EnterKey
  BY <1>4, EnterEnters DEF Lines!Next
<1>5. CASE ClearScreenKey
  BY <1>5, ClearDiscards DEF Lines!Next
<1>6. ASSUME NEW k \in Keys, CharacterKey(k) PROVE Lines!Next
  BY <1>6, CharacterTypes DEF Lines!Next, KeyChars
<1>7. ASSUME NEW c \in Output, terminal_write(c) PROVE UNCHANGED Lines!vars
  <2>1. cpu' = cpu
    BY <1>7, PrintsType DEF terminal_write, Chars, CpuModes, BootModes
  <2> QED BY <1>7, <2>1, HandlerKeepsReader, LineStutters DEF terminal_write, keyVars
<1>8. ASSUME NEW n \in Sizes, terminal_read(n) PROVE Lines!Next
  BY <1>8, ReadReads DEF Lines!Next
<1>9. CASE TakeSize
  BY <1>9, TakeSizeBegins DEF Lines!Next
<1>10. CASE CopyByte
  <2>1. /\ cpu = "copy" /\ cpu' = cpu
        /\ UNCHANGED <<keyVars, enter_pressed, nbytes, result_size>>
    BY <1>10 DEF CopyByte
  <2>2. Reader' = Reader /\ Intact' = Intact /\ Result' = Result
    BY <2>1 DEF Reader, Intact, Result, keyVars
  <2> QED BY <2>1, <2>2, LineStutters DEF keyVars
<1>11. CASE ReadReturns
  BY <1>11, ReturnEnds DEF Lines!Next
<1>12. CASE UNCHANGED vars
  BY <1>12, HandlerKeepsReader, LineStutters DEF vars, keyVars, readVars
<1> QED BY <1>1, <1>2, <1>3, <1>4, <1>5, <1>6, <1>7, <1>8, <1>9, <1>10, <1>11, <1>12
        DEF Next, keyboard_int, ReadStep

(* Whatever interrupts whatever, a program's read gets the beginning of    *)
(* the line entered last: for every size of the buffers, every keyboard    *)
(* and every count.                                                        *)
THEOREM LinesImplemented ==
  ASSUME Backspace \notin Output
  PROVE  Spec => ImplementsLines
<1>1. TypeInv /\ LineInv /\ [Next]_vars => [Lines!Next]_Lines!vars
  BY LinesStep
<1> QED BY <1>1, LinesInit, LineAlways, PTL DEF Spec, ImplementsLines, Lines!Spec

=============================================================================
