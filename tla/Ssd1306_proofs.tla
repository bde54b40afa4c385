--------------------------- MODULE Ssd1306_proofs ---------------------------
(***************************************************************************)
(* What holds of the display driver for any number of users and any panel: *)
(* every variable keeps its type (TypeCorrect), and, without failed        *)
(* transfers, the controller's decoder is between commands whenever no     *)
(* call is inside a sequence (FramingCorrect). And for one user, until a   *)
(* transfer fails: glyphs land at the cursor (CursorTracksPointer), the    *)
(* cursor moves where it was sent (SetCursorReaches), probe and remove     *)
(* blank the panel (PanelBlanked), and driver and controller together are  *)
(* the text display of TextDisplay (ImplementsTextDisplay). After failed   *)
(* transfers, one set_cursor brings the decoder back between commands      *)
(* (DecoderRecovers) and the next the pointer to the cursor (CursorRepairs).*)
(*                                                                         *)
(* For the second, what a call has still to send tells which opcode it has *)
(* last sent, and the decoder can only be waiting for that one's arguments *)
(* or for those of a line number taken for an opcode.                      *)
(***************************************************************************)
EXTENDS Ssd1306, TLAPS

LEMMA ModRange == \A a \in Int, k \in Nat \ {0} : a % k \in 0 .. k - 1
  BY SMT

LEMMA PanelMod ==
  ASSUME NEW x \in Byte
  PROVE  /\ x % SSD1306_MAX_SEG \in Columns
         /\ x % (SSD1306_MAX_LINE + 1) \in Pages
         /\ x % 4 \in 0 .. 3
<1>1. /\ SSD1306_MAX_SEG \in Nat \ {0}
      /\ SSD1306_MAX_LINE + 1 \in Nat \ {0}
      /\ 4 \in Nat \ {0}
      /\ (SSD1306_MAX_LINE + 1) - 1 = SSD1306_MAX_LINE
      /\ 4 - 1 = 3
  BY PanelAssumption
<1>2. x \in Int
  BY DEF Byte
<1> QED BY <1>1, <1>2, ModRange, Zenon DEF Columns, Pages

\* A window is set one field after the other.
LEMMA ColumnWindowTyped ==
  ASSUME NEW h \in Controller, NEW x \in Columns, NEW y \in Columns
  PROVE  [[[h EXCEPT !.colStart = x] EXCEPT !.col = x] EXCEPT !.colEnd = y] \in Controller
<1>1. [h EXCEPT !.colStart = x] \in Controller
  BY DEF Controller
<1>2. [[h EXCEPT !.colStart = x] EXCEPT !.col = x] \in Controller
  BY <1>1 DEF Controller
<1> QED BY <1>2 DEF Controller

LEMMA PageWindowTyped ==
  ASSUME NEW h \in Controller, NEW x \in Pages, NEW y \in Pages
  PROVE  [[[h EXCEPT !.pageStart = x] EXCEPT !.page = x] EXCEPT !.pageEnd = y] \in Controller
<1>1. [h EXCEPT !.pageStart = x] \in Controller
  BY DEF Controller
<1>2. [[h EXCEPT !.pageStart = x] EXCEPT !.page = x] \in Controller
  BY <1>1 DEF Controller
<1> QED BY <1>2 DEF Controller

LEMMA ExecuteTyped ==
  ASSUME NEW h \in Controller, NEW b \in Byte, NEW op \in Byte
  PROVE  Execute(h, op, b) \in Controller
<1>1. h.first \in Byte
  BY DEF Controller
<1> DEFINE g == [h EXCEPT !.need = 0]
<1>2. g \in Controller
  BY DEF Controller
<1>3. CASE op = SetColumns
  <2> DEFINE x == h.first % SSD1306_MAX_SEG
             y == b % SSD1306_MAX_SEG
             w == [[[g EXCEPT !.colStart = x] EXCEPT !.col = x] EXCEPT !.colEnd = y]
  <2>1. x \in Columns /\ y \in Columns
    BY <1>1, PanelMod
  <2>2. Execute(h, op, b) = w
    BY <1>3 DEF Execute, SetColumns, SetPages, SetMode, StartLines,
                 DisplayOff, DisplayOn
  <2> HIDE DEF g, x, y
  <2>3. w \in Controller
    BY <1>2, <2>1, ColumnWindowTyped, Zenon
  <2> HIDE DEF w
  <2> QED BY <2>2, <2>3
<1>4. CASE op = SetPages
  <2> DEFINE x == h.first % (SSD1306_MAX_LINE + 1)
             y == b % (SSD1306_MAX_LINE + 1)
             w == [[[g EXCEPT !.pageStart = x] EXCEPT !.page = x] EXCEPT !.pageEnd = y]
  <2>1. x \in Pages /\ y \in Pages
    BY <1>1, PanelMod
  <2>2. Execute(h, op, b) = w
    BY <1>4 DEF Execute, SetColumns, SetPages, SetMode, StartLines,
                 DisplayOff, DisplayOn
  <2> HIDE DEF g, x, y
  <2>3. w \in Controller
    BY <1>2, <2>1, PageWindowTyped, Zenon
  <2> HIDE DEF w
  <2> QED BY <2>2, <2>3
<1>5. CASE op = SetMode
  <2> DEFINE x == b % 4
  <2>1. x \in 0 .. 3
    BY PanelMod
  <2>2. Execute(h, op, b) = [g EXCEPT !.mode = x]
    BY <1>5 DEF Execute, SetColumns, SetPages, SetMode, StartLines,
                 DisplayOff, DisplayOn
  <2> HIDE DEF g, x
  <2> QED BY <1>2, <2>1, <2>2 DEF Controller
<1>6. CASE op \in StartLines
  <2> DEFINE x == op - 64
  <2>1. x \in 0 .. 63
    BY <1>6 DEF StartLines
  <2>2. Execute(h, op, b) = [g EXCEPT !.startLine = x]
    BY <1>6 DEF Execute, SetColumns, SetPages, SetMode, StartLines,
                 DisplayOff, DisplayOn
  <2> HIDE DEF g, x
  <2> QED BY <1>2, <2>1, <2>2 DEF Controller
<1>7. CASE op \in {DisplayOff, DisplayOn}
  <2>1. \/ Execute(h, op, b) = [g EXCEPT !.on = FALSE]
        \/ Execute(h, op, b) = [g EXCEPT !.on = TRUE]
    BY <1>7 DEF Execute, SetColumns, SetPages, SetMode, StartLines,
                 DisplayOff, DisplayOn
  <2> HIDE DEF g
  <2> QED BY <1>2, <2>1 DEF Controller
<1>8. CASE op \notin {SetColumns, SetPages, SetMode, DisplayOff, DisplayOn} \cup StartLines
  <2>1. Execute(h, op, b) = g
    BY <1>8 DEF Execute, SetColumns, SetPages, SetMode, StartLines,
                 DisplayOff, DisplayOn
  <2> QED BY <1>2, <2>1
<1> QED BY <1>3, <1>4, <1>5, <1>6, <1>7, <1>8

LEMMA CommandTyped ==
  ASSUME NEW h \in Controller, NEW b \in Byte
  PROVE  Command(h, b) \in Controller
<1>1. ArgCount(b) \in 0 .. 2
  BY DEF ArgCount
<1>2. CASE h.need = 2
  <2>1. Command(h, b) = [[h EXCEPT !.need = 1] EXCEPT !.first = b]
    BY <1>2 DEF Command
  <2>2. [h EXCEPT !.need = 1] \in Controller
    BY DEF Controller
  <2> QED BY <2>1, <2>2 DEF Controller
<1>3. CASE h.need = 1
  <2>1. h.op \in Byte /\ Command(h, b) = Execute(h, h.op, b)
    BY <1>3 DEF Controller, Command
  <2> QED BY <2>1, ExecuteTyped
<1>4. CASE h.need \notin {1, 2} /\ ArgCount(b) = 0
  <2>1. Command(h, b) = Execute(h, b, b)
    BY <1>4 DEF Command
  <2> QED BY <2>1, ExecuteTyped
<1>5. CASE h.need \notin {1, 2} /\ ArgCount(b) # 0
  <2>1. Command(h, b) = [[h EXCEPT !.op = b] EXCEPT !.need = ArgCount(b)]
    BY <1>5 DEF Command
  <2>2. [h EXCEPT !.op = b] \in Controller
    BY DEF Controller
  <2> QED BY <1>1, <2>1, <2>2 DEF Controller
<1> QED BY <1>2, <1>3, <1>4, <1>5

LEMMA AdvanceTyped ==
  ASSUME NEW h \in Controller
  PROVE  Advance(h) \in Controller /\ Advance(h).need = h.need /\ Advance(h).op = h.op
<1>1. /\ (h.col + 1) % SSD1306_MAX_SEG \in Columns
      /\ (h.page + 1) % (SSD1306_MAX_LINE + 1) \in Pages
  <2>1. h.col + 1 \in Byte /\ h.page + 1 \in Byte
    BY PanelAssumption DEF Controller, Columns, Pages, Byte
  <2> QED BY <2>1, PanelMod
<1>2. h.colStart \in Columns /\ h.pageStart \in Pages /\ h.page \in Pages
  BY DEF Controller
<1>3. CASE h.col # h.colEnd
  <2> DEFINE x == (h.col + 1) % SSD1306_MAX_SEG
  <2>1. Advance(h) = [h EXCEPT !.col = x]
    BY <1>3 DEF Advance
  <2>2. x \in Columns
    BY <1>1
  <2> HIDE DEF x
  <2> QED BY <2>1, <2>2 DEF Controller
<1>4. CASE h.col = h.colEnd
  <2> DEFINE nextPage == IF h.page = h.pageEnd THEN h.pageStart
                         ELSE (h.page + 1) % (SSD1306_MAX_LINE + 1)
             y == IF h.mode = 0 THEN nextPage ELSE h.page
  <2>1. y \in Pages
    BY <1>1, <1>2
  <2>2. Advance(h) = [[h EXCEPT !.col = h.colStart] EXCEPT !.page = y]
    BY <1>4 DEF Advance
  <2>3. [h EXCEPT !.col = h.colStart] \in Controller
    BY <1>2 DEF Controller
  <2> HIDE DEF y
  <2> QED BY <2>1, <2>2, <2>3 DEF Controller
<1> QED BY <1>3, <1>4

LEMMA InitByteTyped == \A n \in 1 .. 26 : InitBytes[n] \in Byte
  BY DEF InitBytes, Byte, DisplayOff, DisplayOn, SetMode

LEMMA CursorByteTyped ==
  ASSUME cursor_pos \in Byte, line_num \in Byte, NEW n \in 1 .. 6
  PROVE  CursorByte(n) \in Byte
  BY PanelAssumption DEF CursorByte, Byte, SetColumns, SetPages
----------------------------------------------------------------------------
\* A call inside a transfer sequence is within its length, and a call that
\* works on a character has one left.
CallOK(t) ==
  /\ t.at = "cursor" => t.n \in 1 .. 6
  /\ t.at = "init" => t.n \in 1 .. 26
  /\ t.at \in {"newline", "glyph", "load", "store"} \/ t.then = "glyph" => t.rest # <<>>

TypeInv == TypeOK /\ \A w \in Writers : CallOK(call[w])

LEMMA IdleTyped == Idle \in Calls /\ CallOK(Idle)
<1>1. <<>> \in Seq({"glyph", "newline"})
  OBVIOUS
<1>2. 0 \in Byte /\ 0 \in Nat
  BY DEF Byte
<1> QED BY <1>1, <1>2 DEF Calls, CallOK, Idle, Labels

LEMMA ResumeTyped ==
  ASSUME NEW t \in Calls, t.then = "glyph" => t.rest # <<>>
  PROVE  Resume(t) \in Calls /\ CallOK(Resume(t))
<1>1. CASE t.then = "idle"
  BY <1>1, IdleTyped DEF Resume
<1>2. CASE t.then # "idle"
  <2> DEFINE r == [t EXCEPT !.at = t.then, !.n = 0]
  <2>1. t.then \in Labels /\ t.then \notin {"cursor", "init", "newline", "load", "store"}
    BY DEF Calls, Labels
  <2>2. 0 \in Nat
    OBVIOUS
  <2>3. r \in Calls
    BY <2>1, <2>2 DEF Calls
  <2>4. r.at = t.then /\ r.then = t.then /\ r.rest = t.rest
    BY DEF Calls
  <2>5. Resume(t) = r
    BY <1>2 DEF Resume
  <2> HIDE DEF r
  <2> QED BY <2>1, <2>3, <2>4, <2>5 DEF CallOK
<1> QED BY <1>1, <1>2

LEMMA GotoTyped ==
  ASSUME call \in [Writers -> Calls], \A v \in Writers : CallOK(call[v]),
         NEW w \in Writers, NEW t \in Calls, CallOK(t), Goto(w, t)
  PROVE  call' \in [Writers -> Calls] /\ \A v \in Writers : CallOK(call'[v])
  BY DEF Goto

LEMMA CountUp ==
  ASSUME NEW t \in Calls
  PROVE  LET r == [t EXCEPT !.n = @ + 1]
         IN  /\ r \in Calls /\ r.n = t.n + 1
             /\ r.at = t.at /\ r.then = t.then /\ r.rest = t.rest
<1> DEFINE x == t.n + 1
<1>1. x \in Nat
  BY DEF Calls
<1> HIDE DEF x
<1>2. LET r == [t EXCEPT !.n = x]
      IN  /\ r \in Calls /\ r.n = x
          /\ r.at = t.at /\ r.then = t.then /\ r.rest = t.rest
  BY <1>1 DEF Calls
<1> QED BY <1>2 DEF x

LEMMA InitLength == Len(InitBytes) = 26
  BY DEF InitBytes

LEMMA SendCommandTyped ==
  ASSUME TypeOK, NEW b \in Byte, SendCommand(b)
  PROVE  hw' \in Controller /\ gddram' \in [Cells -> Byte] /\ lost' \in 0 .. MaxLoss
<1>1. CASE hw' = Command(hw, b) /\ UNCHANGED <<gddram, lost>>
  BY <1>1, CommandTyped DEF TypeOK
<1>2. CASE Lose
  BY <1>2, DriverAssumption DEF TypeOK, Lose
<1> QED BY <1>1, <1>2 DEF SendCommand

LEMMA SendDataTyped ==
  ASSUME TypeOK, NEW b \in Byte, SendData(b)
  PROVE  hw' \in Controller /\ gddram' \in [Cells -> Byte] /\ lost' \in 0 .. MaxLoss
<1>1. CASE /\ gddram' = [gddram EXCEPT ![<<hw.page, hw.col>>] = b]
           /\ hw' = Advance(hw)
           /\ UNCHANGED lost
  BY <1>1, AdvanceTyped DEF TypeOK
<1>2. CASE Lose
  BY <1>2, DriverAssumption DEF TypeOK, Lose
<1> QED BY <1>1, <1>2 DEF SendData

LEMMA ByteMod == \A x \in Int : x % 256 \in Byte
  BY DEF Byte

LEMMA NextByte == \A x \in Byte : (x + 1) % 256 \in Byte
  BY DEF Byte

LEMMA TypeInvInit == Init => TypeInv
<1> SUFFICES ASSUME Init PROVE TypeInv
  OBVIOUS
<1>1. hw \in Controller
  <2>1. /\ 0 \in Columns /\ SSD1306_MAX_SEG - 1 \in Columns
        /\ 0 \in Pages /\ SSD1306_MAX_LINE \in Pages
        /\ 0 \in Byte /\ 0 \in 0 .. 2 /\ 0 \in 0 .. 63 /\ 2 \in 0 .. 3
    BY PanelAssumption DEF Columns, Pages, Byte
  <2> QED BY <2>1 DEF Init, PowerOn, Controller
<1>2. Blank \in Byte /\ Ink \in Byte /\ 0 \in Byte /\ 0 \in 0 .. MaxLoss
  BY DriverAssumption DEF Blank, Ink, Byte
<1> QED BY <1>1, <1>2, IdleTyped DEF Init, TypeInv, TypeOK

LEMMA TypeInvNext == TypeInv /\ [Next]_vars => TypeInv'
<1> SUFFICES ASSUME TypeInv, [Next]_vars PROVE TypeInv'
  OBVIOUS
<1> USE DEF TypeInv
<1>1. TypeOK /\ \A w \in Writers : call[w] \in Calls /\ CallOK(call[w])
  BY DEF TypeOK
<1>2. 0 \in Nat /\ 1 \in Nat /\ 0 \in Byte
  BY DEF Byte
<1>3. \A w \in Writers, value \in CursorValues : CursorPosStore(w, value) => TypeInv'
  BY <1>1, ByteMod, DriverAssumption DEF TypeOK, CursorPosStore
<1>4. \A w \in Writers, value \in LineValues : LineNumStore(w, value) => TypeInv'
  BY <1>1, ByteMod, DriverAssumption DEF TypeOK, LineNumStore
<1>5. ASSUME NEW w \in Writers, NEW value \in FillValues, CommandStore(w, value)
      PROVE  TypeInv'
  <2> DEFINE t == [Idle EXCEPT !.at = "fill", !.data = value % 256]
  <2>1. value % 256 \in Byte
    BY ByteMod, DriverAssumption
  <2>2. t \in Calls
    BY <2>1, IdleTyped DEF Calls, Labels
  <2>3. CallOK(t)
    BY DEF CallOK, Idle
  <2>4. Goto(w, t) /\ UNCHANGED <<line_num, cursor_pos, drv, hw, gddram, lost>>
    BY <1>5 DEF CommandStore
  <2> HIDE DEF t
  <2> QED BY <1>1, <2>2, <2>3, <2>4, GotoTyped DEF TypeOK
<1>6. ASSUME NEW w \in Writers, NEW str \in Messages, MessageStore(w, str)
      PROVE  TypeInv'
  <2> DEFINE t == [Idle EXCEPT !.at = "set", !.line = line_num, !.pos = cursor_pos,
                               !.then = "string", !.rest = str]
  <2>1. str \in Seq({"glyph", "newline"}) /\ line_num \in Byte /\ cursor_pos \in Byte
    BY DriverAssumption DEF TypeOK
  <2>2. t \in Calls
    BY <2>1, IdleTyped DEF Calls, Labels
  <2>3. CallOK(t)
    BY DEF CallOK, Idle
  <2>4. Goto(w, t) /\ UNCHANGED <<line_num, cursor_pos, drv, hw, gddram, lost>>
    BY <1>6 DEF MessageStore
  <2> HIDE DEF t
  <2> QED BY <1>1, <2>2, <2>3, <2>4, GotoTyped DEF TypeOK
<1>7. ASSUME NEW w \in Writers, Probe(w)
      PROVE  TypeInv'
  <2> DEFINE t == [Idle EXCEPT !.at = "init", !.n = 1]
  <2>1. t \in Calls
    BY <1>2, IdleTyped DEF Calls, Labels
  <2>2. CallOK(t)
    BY DEF CallOK, Idle
  <2>3. Goto(w, t) /\ drv' = "probing" /\ UNCHANGED <<line_num, cursor_pos, hw, gddram, lost>>
    BY <1>7 DEF Probe
  <2> HIDE DEF t
  <2> QED BY <1>1, <2>1, <2>2, <2>3, GotoTyped DEF TypeOK
<1>8. ASSUME NEW w \in Writers, Remove(w)
      PROVE  TypeInv'
  <2> DEFINE t == [Idle EXCEPT !.at = "set", !.then = "clear"]
  <2>1. t \in Calls
    BY IdleTyped DEF Calls, Labels
  <2>2. CallOK(t)
    BY DEF CallOK, Idle
  <2>3. Goto(w, t) /\ drv' = "removing" /\ UNCHANGED <<line_num, cursor_pos, hw, gddram, lost>>
    BY <1>8 DEF Remove
  <2> HIDE DEF t
  <2> QED BY <1>1, <2>1, <2>2, <2>3, GotoTyped DEF TypeOK
<1>9. ASSUME NEW w \in Writers, SetCursor(w)
      PROVE  TypeInv'
  <2> DEFINE t == call[w]
             r == [t EXCEPT !.at = "cursor", !.n = 1]
  <2>1. t \in Calls /\ CallOK(t)
    BY <1>1
  <2>2. r \in Calls /\ CallOK(r)
    <3>1. /\ r \in Calls /\ r.at = "cursor" /\ r.n = 1
          /\ r.then = t.then /\ r.rest = t.rest
      BY <1>2, <2>1 DEF Calls, Labels
    <3> HIDE DEF r
    <3> QED BY <2>1, <3>1 DEF CallOK
  <2>3. Resume(t) \in Calls /\ CallOK(Resume(t))
    BY <2>1, ResumeTyped DEF CallOK
  <2>4. t.line \in Byte /\ t.pos \in Byte
    BY <2>1 DEF Calls
  <2>5. /\ Goto(w, r) \/ Goto(w, Resume(t))
        /\ line_num' \in {t.line, line_num} /\ cursor_pos' \in {t.pos, cursor_pos}
        /\ UNCHANGED <<drv, hw, gddram, lost>>
    BY <1>9 DEF SetCursor
  <2> HIDE DEF t, r
  <2>6. call' \in [Writers -> Calls] /\ \A v \in Writers : CallOK(call'[v])
    BY <1>1, <2>2, <2>3, <2>5, GotoTyped DEF TypeOK
  <2> QED BY <2>4, <2>5, <2>6 DEF TypeOK
<1>10. ASSUME NEW w \in Writers, SendCursorByte(w)
       PROVE  TypeInv'
  <2> DEFINE t == call[w]
             r == [t EXCEPT !.n = @ + 1]
  <2>1. t \in Calls /\ CallOK(t) /\ t.at = "cursor" /\ t.n \in 1 .. 6
    BY <1>1, <1>10 DEF SendCursorByte, At, CallOK
  <2>2. CursorByte(t.n) \in Byte
    BY <2>1, CursorByteTyped DEF TypeOK
  <2>3. hw' \in Controller /\ gddram' \in [Cells -> Byte] /\ lost' \in 0 .. MaxLoss
    BY <1>10, <2>2, SendCommandTyped DEF SendCursorByte
  <2>4. Resume(t) \in Calls /\ CallOK(Resume(t))
    BY <2>1, ResumeTyped DEF CallOK
  <2>5. ASSUME t.n < 6
        PROVE  r \in Calls /\ CallOK(r)
    BY <2>1, <2>5, CountUp DEF CallOK
  <2>6. /\ IF t.n < 6 THEN Goto(w, r) ELSE Goto(w, Resume(t))
        /\ UNCHANGED <<line_num, cursor_pos, drv>>
    BY <1>10 DEF SendCursorByte
  <2> HIDE DEF t, r
  <2>7. call' \in [Writers -> Calls] /\ \A v \in Writers : CallOK(call'[v])
    BY <1>1, <2>4, <2>5, <2>6, GotoTyped DEF TypeOK
  <2> QED BY <2>3, <2>6, <2>7 DEF TypeOK
<1>11. ASSUME NEW w \in Writers, PrintChar(w)
       PROVE  TypeInv'
  <2> DEFINE t == call[w]
             r == [t EXCEPT !.at = "newline", !.reg = line_num]
             g == [t EXCEPT !.at = "glyph", !.n = 0]
  <2>1. t \in Calls /\ CallOK(t) /\ line_num \in Byte
    BY <1>1 DEF TypeOK
  <2>2. ASSUME t.rest # <<>>
        PROVE  r \in Calls /\ CallOK(r)
    BY <2>1, <2>2 DEF Calls, Labels, CallOK
  <2>3. ASSUME t.rest # <<>>
        PROVE  g \in Calls /\ CallOK(g)
    BY <1>2, <2>1, <2>3 DEF Calls, Labels, CallOK
  <2>4. /\ Goto(w, Idle) \/ (t.rest # <<>> /\ (Goto(w, r) \/ Goto(w, g)))
        /\ UNCHANGED <<line_num, cursor_pos, drv, hw, gddram, lost>>
    BY <1>11 DEF PrintChar
  <2> HIDE DEF t, r, g
  <2>5. call' \in [Writers -> Calls] /\ \A v \in Writers : CallOK(call'[v])
    BY <1>1, <2>2, <2>3, <2>4, IdleTyped, GotoTyped DEF TypeOK
  <2> QED BY <2>4, <2>5 DEF TypeOK
<1>12. ASSUME NEW w \in Writers, GoToNextLine(w)
       PROVE  TypeInv'
  <2> DEFINE t == call[w]
             k == ((t.reg + 1) % 256) % (SSD1306_MAX_LINE + 1)
             s == [t EXCEPT !.at = "set", !.line = k, !.pos = 0, !.reg = 0]
             r == [s EXCEPT !.then = "string", !.rest = Tail(s.rest)]
             g == [s EXCEPT !.then = "glyph"]
  <2>1. t \in Calls /\ t.rest # <<>> /\ t.reg \in Byte /\ t.rest \in Seq({"glyph", "newline"})
    BY <1>1, <1>12 DEF GoToNextLine, At, CallOK, Calls
  <2>2. k \in Byte
    <3>1. (t.reg + 1) % 256 \in Byte
      BY <2>1, NextByte
    <3>2. \A x \in Pages : x \in Byte
      BY PanelAssumption DEF Pages, Byte
    <3> QED BY <3>1, <3>2, PanelMod
  <2>3. /\ IF Head(s.rest) = "newline" THEN Goto(w, r) ELSE Goto(w, g)
        /\ line_num' = k
        /\ UNCHANGED <<cursor_pos, drv, hw, gddram, lost>>
    BY <1>12, Zenon DEF GoToNextLine
  <2> HIDE DEF k
  <2>4. s \in Calls /\ s.at = "set" /\ s.rest = t.rest
    BY <1>2, <2>1, <2>2 DEF Calls, Labels
  <2>5. Tail(s.rest) \in Seq({"glyph", "newline"})
    BY <2>1, <2>4
  <2> HIDE DEF s
  <2>6. r \in Calls /\ CallOK(r)
    BY <2>4, <2>5 DEF Calls, CallOK
  <2>7. g \in Calls /\ CallOK(g)
    BY <2>1, <2>4 DEF Calls, CallOK
  <2> HIDE DEF r, g
  <2>8. call' \in [Writers -> Calls] /\ \A v \in Writers : CallOK(call'[v])
    BY <1>1, <2>3, <2>6, <2>7, GotoTyped DEF TypeOK
  <2> QED BY <2>2, <2>3, <2>8 DEF TypeOK
<1>13. ASSUME NEW w \in Writers, WriteColumn(w)
       PROVE  TypeInv'
  <2> DEFINE t == call[w]
             r == [t EXCEPT !.at = "load"]
  <2>1. t \in Calls /\ t.rest # <<>>
    BY <1>1, <1>13 DEF WriteColumn, At, CallOK
  <2>2. r \in Calls /\ CallOK(r)
    BY <2>1 DEF Calls, Labels, CallOK
  <2>3. hw' \in Controller /\ gddram' \in [Cells -> Byte] /\ lost' \in 0 .. MaxLoss
    <3>1. Ink \in Byte /\ Blank \in Byte
      BY DEF Ink, Blank, Byte
    <3> QED BY <1>13, <3>1, SendDataTyped DEF WriteColumn
  <2>4. Goto(w, r) /\ UNCHANGED <<line_num, cursor_pos, drv>>
    BY <1>13 DEF WriteColumn
  <2> HIDE DEF r
  <2>5. call' \in [Writers -> Calls] /\ \A v \in Writers : CallOK(call'[v])
    BY <1>1, <2>2, <2>4, GotoTyped DEF TypeOK
  <2> QED BY <2>3, <2>4, <2>5 DEF TypeOK
<1>14. ASSUME NEW w \in Writers, LoadCursor(w)
       PROVE  TypeInv'
  <2> DEFINE t == call[w]
             r == [t EXCEPT !.at = "store", !.reg = cursor_pos]
  <2>1. t \in Calls /\ t.rest # <<>> /\ cursor_pos \in Byte
    BY <1>1, <1>14 DEF LoadCursor, At, CallOK, TypeOK
  <2>2. r \in Calls /\ CallOK(r)
    BY <2>1 DEF Calls, Labels, CallOK
  <2>3. Goto(w, r) /\ UNCHANGED <<line_num, cursor_pos, drv, hw, gddram, lost>>
    BY <1>14 DEF LoadCursor
  <2> HIDE DEF r
  <2> QED BY <1>1, <2>2, <2>3, GotoTyped DEF TypeOK
<1>15. ASSUME NEW w \in Writers, StoreCursor(w)
       PROVE  TypeInv'
  <2> DEFINE t == call[w]
             s == [t EXCEPT !.reg = 0]
             r == [s EXCEPT !.at = "glyph", !.n = s.n + 1]
             e == [s EXCEPT !.at = "string", !.then = "idle", !.n = 0,
                            !.line = 0, !.pos = 0, !.rest = Tail(s.rest)]
  <2>1. /\ t \in Calls /\ t.rest # <<>> /\ t.reg \in Byte
        /\ t.rest \in Seq({"glyph", "newline"})
    BY <1>1, <1>15 DEF StoreCursor, At, CallOK, Calls
  <2>2. (t.reg + 1) % 256 \in Byte
    BY <2>1, NextByte
  <2>3. /\ cursor_pos' = (t.reg + 1) % 256
        /\ Goto(w, r) \/ Goto(w, e)
        /\ UNCHANGED <<line_num, drv, hw, gddram, lost>>
    BY <1>15 DEF StoreCursor
  <2>4. s \in Calls /\ s.rest = t.rest
    BY <1>2, <2>1 DEF Calls
  <2>5. Tail(s.rest) \in Seq({"glyph", "newline"})
    BY <2>1, <2>4
  <2>6. s.n + 1 \in Nat
    BY <2>4 DEF Calls
  <2> HIDE DEF s
  <2>7. r \in Calls /\ CallOK(r)
    BY <2>1, <2>4, <2>6 DEF Calls, Labels, CallOK
  <2>8. e \in Calls /\ CallOK(e)
    BY <1>2, <2>4, <2>5 DEF Calls, Labels, CallOK
  <2> HIDE DEF r, e
  <2>9. call' \in [Writers -> Calls] /\ \A v \in Writers : CallOK(call'[v])
    BY <1>1, <2>3, <2>7, <2>8, GotoTyped DEF TypeOK
  <2> QED BY <2>2, <2>3, <2>9 DEF TypeOK
<1>16. ASSUME NEW w \in Writers, FillByte(w)
       PROVE  TypeInv'
  <2> DEFINE t == call[w]
             r == [t EXCEPT !.n = @ + 1]
  <2>1. t \in Calls /\ CallOK(t) /\ t.at = "fill" /\ t.data \in Byte
    BY <1>1, <1>16 DEF FillByte, At, Calls
  <2>2. hw' \in Controller /\ gddram' \in [Cells -> Byte] /\ lost' \in 0 .. MaxLoss
    BY <1>16, <2>1, SendDataTyped DEF FillByte
  <2>3. Resume(t) \in Calls /\ CallOK(Resume(t))
    BY <2>1, ResumeTyped DEF CallOK
  <2>4. r \in Calls /\ CallOK(r)
    BY <2>1, CountUp DEF CallOK
  <2>5. /\ Goto(w, r) \/ Goto(w, Resume(t))
        /\ UNCHANGED <<line_num, cursor_pos, drv>>
    BY <1>16 DEF FillByte
  <2> HIDE DEF t, r
  <2>6. call' \in [Writers -> Calls] /\ \A v \in Writers : CallOK(call'[v])
    BY <1>1, <2>3, <2>4, <2>5, GotoTyped DEF TypeOK
  <2> QED BY <2>2, <2>5, <2>6 DEF TypeOK
<1>17. ASSUME NEW w \in Writers, SendInitByte(w)
       PROVE  TypeInv'
  <2> DEFINE t == call[w]
             r == [t EXCEPT !.n = @ + 1]
             f == [Idle EXCEPT !.at = "fill", !.then = "probed"]
  <2>1. t \in Calls /\ CallOK(t) /\ t.at = "init" /\ t.n \in 1 .. 26
    BY <1>1, <1>17 DEF SendInitByte, At, CallOK
  <2>2. hw' \in Controller /\ gddram' \in [Cells -> Byte] /\ lost' \in 0 .. MaxLoss
    <3>1. InitBytes[t.n] \in Byte
      BY <2>1, InitByteTyped
    <3> QED BY <1>17, <3>1, SendCommandTyped DEF SendInitByte
  <2>3. f \in Calls /\ CallOK(f)
    <3>1. f \in Calls
      BY IdleTyped DEF Calls, Labels
    <3>2. f.at = "fill" /\ f.then = "probed"
      BY DEF Idle
    <3> QED BY <3>1, <3>2 DEF CallOK
  <2>4. ASSUME t.n < 26
        PROVE  r \in Calls /\ CallOK(r)
    <3>1. /\ r \in Calls /\ r.n = t.n + 1 /\ r.at = "init"
          /\ r.then = t.then /\ r.rest = t.rest
      BY <2>1, CountUp
    <3>2. t.n + 1 \in 1 .. 26
      BY <2>1, <2>4
    <3> HIDE DEF t, r
    <3> QED BY <2>1, <3>1, <3>2 DEF CallOK
  <2>5. /\ IF t.n < 26 THEN Goto(w, r) ELSE Goto(w, f)
        /\ UNCHANGED <<line_num, cursor_pos, drv>>
    BY <1>17, InitLength DEF SendInitByte
  <2> HIDE DEF t, r, f
  <2>6. call' \in [Writers -> Calls] /\ \A v \in Writers : CallOK(call'[v])
    BY <1>1, <2>3, <2>4, <2>5, GotoTyped DEF TypeOK
  <2> QED BY <2>2, <2>5, <2>6 DEF TypeOK
<1>18. ASSUME NEW w \in Writers, ProbeDone(w)
       PROVE  TypeInv'
  BY <1>1, <1>18, IdleTyped, GotoTyped DEF ProbeDone, TypeOK
<1>19. ASSUME NEW w \in Writers, ClearOnRemove(w)
       PROVE  TypeInv'
  <2> DEFINE f == [Idle EXCEPT !.at = "fill", !.then = "off"]
  <2>1. f \in Calls
    BY IdleTyped DEF Calls, Labels
  <2>2. f.at = "fill" /\ f.then = "off"
    BY DEF Idle
  <2>3. CallOK(f)
    BY <2>2 DEF CallOK
  <2>4. Goto(w, f) /\ UNCHANGED <<line_num, cursor_pos, drv, hw, gddram, lost>>
    BY <1>19 DEF ClearOnRemove
  <2> HIDE DEF f
  <2> QED BY <1>1, <2>1, <2>3, <2>4, GotoTyped DEF TypeOK
<1>20. ASSUME NEW w \in Writers, SwitchOff(w)
       PROVE  TypeInv'
  <2>1. hw' \in Controller /\ gddram' \in [Cells -> Byte] /\ lost' \in 0 .. MaxLoss
    <3>1. DisplayOff \in Byte
      BY DEF DisplayOff, Byte
    <3> QED BY <1>20, <3>1, SendCommandTyped DEF SwitchOff
  <2>2. Goto(w, Idle) /\ drv' = "removed" /\ UNCHANGED <<line_num, cursor_pos>>
    BY <1>20 DEF SwitchOff
  <2> QED BY <1>1, <2>1, <2>2, IdleTyped, GotoTyped DEF TypeOK
<1>21. CASE UNCHANGED vars
  BY <1>1, <1>21 DEF TypeOK, vars
<1> QED BY <1>3, <1>4, <1>5, <1>6, <1>7, <1>8, <1>9, <1>10, <1>11, <1>12, <1>13, <1>14,
           <1>15, <1>16, <1>17, <1>18, <1>19, <1>20, <1>21 DEF Next, Begin, Continue

\* The driver's variables keep their types: text cursor and locals stay bytes,
\* and the controller's pointer and window stay on the panel.
THEOREM TypeCorrect == Spec => []TypeOK
<1>1. TypeInv => TypeOK
  BY DEF TypeInv
<1> QED BY <1>1, TypeInvInit, TypeInvNext, PTL DEF Spec
----------------------------------------------------------------------------
\* A step that counts no failure is one without a failure; so is one after
\* which none has been counted.
LEMMA NoneFails ==
  ASSUME TypeInv, [Next]_vars, lost' = lost
  PROVE  ~Lose
<1>1. lost \in Nat
  BY PanelAssumption, SMT DEF TypeInv, TypeOK
<1> QED BY <1>1, SMT DEF Lose

LEMMA LossCounted ==
  ASSUME TypeInv, [Next]_vars
  PROVE  lost \in Nat /\ (lost' = lost \/ lost' = lost + 1)
<1>1. lost \in Nat
  BY PanelAssumption, SMT DEF TypeInv, TypeOK
<1>2. lost' = lost \/ Lose
  BY Zenon DEF Next, Begin, Continue, vars, SendCommand, SendData, CursorPosStore,
     LineNumStore, CommandStore, MessageStore, Probe, Remove, SetCursor, SendCursorByte, PrintChar,
     GoToNextLine, WriteColumn, LoadCursor, StoreCursor, FillByte, SendInitByte, ProbeDone,
     ClearOnRemove, SwitchOff
<1> QED BY <1>1, <1>2 DEF Lose

LEMMA NoLoss ==
  ASSUME TypeInv, [Next]_vars, lost' = 0
  PROVE  lost = 0 /\ ~Lose
<1>1. lost = 0
  BY LossCounted
<1> QED BY <1>1, NoneFails
----------------------------------------------------------------------------
LEMMA ExecuteNeed ==
  ASSUME NEW h \in Controller, NEW b, NEW op
  PROVE  Execute(h, op, b).need = 0
  BY DEF Execute, Controller, SetColumns, SetPages, SetMode, StartLines, DisplayOff, DisplayOn

\* The decoder counts the arguments of a command down to none.
LEMMA CommandNeed ==
  ASSUME NEW h \in Controller, NEW b \in Byte
  PROVE  Command(h, b).need = IF h.need = 0 THEN ArgCount(b) ELSE h.need - 1
<1>1. h.need \in 0 .. 2
  BY DEF Controller
<1>2. CASE h.need = 2
  <2>1. Command(h, b) = [h EXCEPT !.need = 1, !.first = b]
    BY <1>2 DEF Command
  <2> QED BY <1>2, <2>1 DEF Controller
<1>3. CASE h.need = 1
  <2>1. Command(h, b) = Execute(h, h.op, b)
    BY <1>3 DEF Command
  <2> QED BY <1>3, <2>1, ExecuteNeed
<1>4. CASE h.need = 0 /\ ArgCount(b) = 0
  <2>1. Command(h, b) = Execute(h, b, b)
    BY <1>4 DEF Command
  <2> QED BY <1>4, <2>1, ExecuteNeed
<1>5. CASE h.need = 0 /\ ArgCount(b) # 0
  <2> DEFINE k == ArgCount(b)
  <2>1. Command(h, b) = [h EXCEPT !.op = b, !.need = k]
    BY <1>5 DEF Command
  <2> HIDE DEF k
  <2>2. [h EXCEPT !.op = b, !.need = k].need = k
    BY DEF Controller
  <2> QED BY <1>5, <2>1, <2>2 DEF k
<1> QED BY <1>1, <1>2, <1>3, <1>4, <1>5

LEMMA ArgCountBound == \A b \in Byte : ArgCount(b) \in 0 .. 2
  BY DEF ArgCount

\* Bytes that a call still has to send of the sequence it is in.
Remaining(t) ==
  IF t.at = "cursor" THEN 7 - t.n ELSE IF t.at = "init" THEN 27 - t.n ELSE 0

\* Line numbers that processes write, as they are stored.
Written == {value % 256 : value \in LineValues}

\* The decoder never waits for more arguments than some call inside a sequence
\* still has bytes to send, unless it has taken a line number for an opcode: then
\* of the two arguments at least one is still to come.
Stray(h, c) ==
  h.op \in Written /\ (h.need = 1 \/ \E w \in Writers : Remaining(c[w]) >= 1)

Framed ==
  \/ hw.need = 0
  \/ \E w \in Writers : hw.need <= Remaining(call[w])
  \/ Stray(hw, call)

FramingInv ==
  /\ TypeInv
  /\ line_num \in Pages \cup Written
  /\ lost = 0 => Framed

LEMMA RemainingInt ==
  ASSUME NEW c \in Calls
  PROVE  Remaining(c) \in Int
  BY DEF Remaining, Calls

\* A step of a call outside a sequence sends no command, so whatever the
\* decoder waits for is still covered by the same call.
LEMMA FramedOutside ==
  ASSUME Framed, hw'.need = hw.need, hw'.op = hw.op, hw.need \in 0 .. 2,
         call \in [Writers -> Calls], NEW w \in Writers, NEW t, Goto(w, t),
         Remaining(call[w]) = 0
  PROVE  Framed'
<1>1. ASSUME NEW v \in Writers, Remaining(call[v]) >= 1
      PROVE  call'[v] = call[v]
  <2>1. v # w
    BY <1>1
  <2> QED BY <2>1 DEF Goto
<1>2. CASE hw.need = 0
  BY <1>2 DEF Framed
<1>3. CASE hw.need # 0 /\ \E v \in Writers : hw.need <= Remaining(call[v])
  <2>1. PICK v \in Writers : hw.need <= Remaining(call[v])
    BY <1>3
  <2>2. Remaining(call[v]) >= 1
    BY <1>3, <2>1, RemainingInt
  <2>3. call'[v] = call[v]
    BY <1>1, <2>2
  <2> QED BY <2>1, <2>3 DEF Framed, Remaining
<1>4. CASE Stray(hw, call)
  <2>1. CASE hw.need = 1
    BY <1>4, <2>1 DEF Framed, Stray
  <2>2. CASE \E v \in Writers : Remaining(call[v]) >= 1
    <3>1. PICK v \in Writers : Remaining(call[v]) >= 1
      BY <2>2
    <3>2. call'[v] = call[v]
      BY <1>1, <3>1
    <3>3. Remaining(call'[v]) >= 1
      BY <3>1, <3>2
    <3>4. Stray(hw', call')
      BY <1>4, <3>3 DEF Stray
    <3> QED BY <3>4 DEF Framed, Stray, Remaining, Written
  <2> QED BY <1>4, <2>1, <2>2 DEF Stray
<1> QED BY <1>2, <1>3, <1>4 DEF Framed

\* The opcode stays until the next command.
LEMMA CommandOp ==
  ASSUME NEW h \in Controller, NEW b \in Byte
  PROVE  /\ h.need = 2 => Command(h, b).op = h.op
         /\ h.need = 0 /\ ArgCount(b) # 0 => Command(h, b).op = b
<1>1. CASE h.need = 2
  <2>1. Command(h, b) = [h EXCEPT !.need = 1, !.first = b]
    BY <1>1 DEF Command
  <2> QED BY <1>1, <2>1 DEF Controller
<1>2. CASE h.need = 0 /\ ArgCount(b) # 0
  <2> DEFINE k == ArgCount(b)
  <2>1. Command(h, b) = [h EXCEPT !.op = b, !.need = k]
    BY <1>2 DEF Command
  <2> HIDE DEF k
  <2>2. [h EXCEPT !.op = b, !.need = k].op = b
    BY DEF Controller
  <2> QED BY <1>2, <2>1, <2>2
<1> QED BY <1>1, <1>2

\* One byte of a sequence of `left' bytes is sent: the last one leaves a decoder
\* that was between commands there, the one before it leaves at most one
\* argument to come, or is a line number.
LEMMA FramedInside ==
  ASSUME Framed, hw \in Controller, NEW b \in Byte, hw' = Command(hw, b),
         call \in [Writers -> Calls], NEW w \in Writers, NEW t, Goto(w, t),
         NEW left \in 1 .. 26, Remaining(call[w]) = left, Remaining(t) = left - 1,
         left = 1 => ArgCount(b) = 0,
         left = 2 => ArgCount(b) <= 1 \/ b \in Written
  PROVE  Framed'
<1>1. hw.need \in 0 .. 2 /\ ArgCount(b) \in 0 .. 2
  BY ArgCountBound DEF Controller
<1>2. hw'.need = IF hw.need = 0 THEN ArgCount(b) ELSE hw.need - 1
  BY CommandNeed
<1>3. call'[w] = t
  BY DEF Goto
<1>4. hw'.need \in Int
  BY <1>1, <1>2
<1>5. CASE hw'.need <= left - 1
  <2>1. hw'.need <= Remaining(call'[w])
    BY <1>3, <1>5
  <2> QED BY <2>1 DEF Framed, Remaining
<1>6. CASE hw'.need > left - 1 /\ hw.need = 0
  <2>1. left = 2 /\ ArgCount(b) = 2 /\ b \in Written
    BY <1>1, <1>2, <1>6
  <2>2. hw'.op \in Written
    BY <1>6, <2>1, CommandOp
  <2>3. Remaining(call'[w]) >= 1
    BY <1>3, <2>1
  <2>4. Stray(hw', call')
    BY <2>2, <2>3 DEF Stray
  <2> QED BY <2>4 DEF Framed, Stray, Remaining, Written
<1>7. CASE hw'.need > left - 1 /\ hw.need # 0
  <2>1. hw.need = 2 /\ left = 1 /\ hw'.need = 1 /\ hw'.op = hw.op
    BY <1>1, <1>2, <1>7, CommandOp
  <2>2. CASE \E v \in Writers : hw.need <= Remaining(call[v])
    <3>1. PICK v \in Writers : hw.need <= Remaining(call[v])
      BY <2>2
    <3>2. v # w
      BY <2>1, <3>1
    <3>3. call'[v] = call[v]
      BY <3>2 DEF Goto
    <3>4. hw'.need <= Remaining(call'[v])
      BY <2>1, <3>1, <3>3, RemainingInt
    <3> QED BY <3>4 DEF Framed, Remaining
  <2>3. CASE Stray(hw, call)
    BY <2>1, <2>3 DEF Framed, Stray
  <2> QED BY <2>1, <2>2, <2>3 DEF Framed
<1> QED BY <1>1, <1>4, <1>5, <1>6, <1>7

LEMMA FramingInit == Init /\ TypeInv => FramingInv
<1> SUFFICES ASSUME Init, TypeInv PROVE FramingInv
  OBVIOUS
<1>1. line_num \in Pages
  BY PanelAssumption DEF Init, Pages
<1>2. hw.need = 0
  BY DEF Init, PowerOn
<1> QED BY <1>1, <1>2 DEF FramingInv, Framed

LEMMA FramedNext ==
  ASSUME FramingInv, [Next]_vars, lost' = 0
  PROVE  Framed'
<1>1. /\ Framed
      /\ line_num \in Byte /\ cursor_pos \in Byte
      /\ line_num \in Pages \cup Written
      /\ hw \in Controller /\ hw.need \in 0 .. 2
      /\ call \in [Writers -> Calls]
      /\ \A w \in Writers : call[w] \in Calls /\ CallOK(call[w])
      /\ ~Lose
  <2>1. lost = 0 /\ ~Lose
    BY NoLoss DEF FramingInv
  <2> QED BY <2>1 DEF FramingInv, TypeInv, TypeOK, Controller
<1> DEFINE Goal == Framed'
<1>2. ASSUME NEW w \in Writers, NEW value, CursorPosStore(w, value)
      PROVE  Goal
  BY <1>1, <1>2 DEF CursorPosStore, Framed, Stray, Remaining, Written
<1>3. ASSUME NEW w \in Writers, NEW value \in LineValues, LineNumStore(w, value)
      PROVE  Goal
  BY <1>1, <1>3 DEF LineNumStore, Framed, Stray, Remaining, Written
<1>4. ASSUME NEW w \in Writers, NEW t, Goto(w, t), UNCHANGED hw,
             ~At(w, "cursor"), ~At(w, "init")
      PROVE  Goal
  BY <1>1, <1>4, FramedOutside DEF At, Remaining
<1>5. ASSUME NEW w \in Writers, NEW value, CommandStore(w, value)
      PROVE  Goal
  BY <1>4, <1>5 DEF CommandStore, Ready, At
<1>6. ASSUME NEW w \in Writers, NEW str, MessageStore(w, str)
      PROVE  Goal
  BY <1>4, <1>6 DEF MessageStore, Ready, At
<1>7. ASSUME NEW w \in Writers, Probe(w)
      PROVE  Goal
  BY <1>4, <1>7 DEF Probe, At
<1>8. ASSUME NEW w \in Writers, Remove(w)
      PROVE  Goal
  BY <1>4, <1>8 DEF Remove, Ready, At
<1>9. ASSUME NEW w \in Writers, PrintChar(w)
      PROVE  Goal
  BY <1>4, <1>9 DEF PrintChar, At
<1>10. ASSUME NEW w \in Writers, LoadCursor(w)
       PROVE  Goal
  BY <1>4, <1>10 DEF LoadCursor, At
<1>11. ASSUME NEW w \in Writers, StoreCursor(w)
       PROVE  Goal
  <2>1. /\ At(w, "store") /\ UNCHANGED hw /\ \E t : Goto(w, t)
    BY <1>11 DEF StoreCursor
  <2> QED BY <1>4, <2>1 DEF At
<1>12. ASSUME NEW w \in Writers, ProbeDone(w)
       PROVE  Goal
  BY <1>4, <1>12 DEF ProbeDone, At
<1>13. ASSUME NEW w \in Writers, ClearOnRemove(w)
       PROVE  Goal
  BY <1>4, <1>13 DEF ClearOnRemove, At
<1>14. ASSUME NEW w \in Writers, SetCursor(w)
       PROVE  Goal
  <2>1. /\ At(w, "set") /\ UNCHANGED hw /\ \E t : Goto(w, t)
    BY <1>14 DEF SetCursor
  <2> QED BY <1>4, <2>1 DEF At
<1>15. ASSUME NEW w \in Writers, GoToNextLine(w)
       PROVE  Goal
  <2>1. /\ At(w, "newline") /\ UNCHANGED hw /\ \E t : Goto(w, t)
    BY <1>15, Zenon DEF GoToNextLine
  <2> QED BY <1>4, <2>1 DEF At
<1>16. ASSUME NEW w \in Writers, NEW b, SendData(b),
              NEW t, Goto(w, t), ~At(w, "cursor"), ~At(w, "init")
       PROVE  Goal
  <2>1. hw'.need = hw.need /\ hw'.op = hw.op
    BY <1>1, <1>16, AdvanceTyped DEF SendData
  <2> QED BY <1>1, <1>16, <2>1, FramedOutside DEF At, Remaining
<1>17. ASSUME NEW w \in Writers, WriteColumn(w)
       PROVE  Goal
  BY <1>16, <1>17 DEF WriteColumn, At
<1>18. ASSUME NEW w \in Writers, FillByte(w)
       PROVE  Goal
  <2>1. /\ At(w, "fill") /\ SendData(call[w].data)
        /\ \E t : Goto(w, t)
    BY <1>18 DEF FillByte
  <2> QED BY <1>16, <2>1 DEF At
<1>19. ASSUME NEW w \in Writers, SendCursorByte(w)
       PROVE  Goal
  <2> DEFINE b == CursorByte(call[w].n)
             left == 7 - call[w].n
             t == IF call[w].n < 6 THEN [call[w] EXCEPT !.n = @ + 1] ELSE Resume(call[w])
  <2>1. call[w].at = "cursor" /\ call[w].n \in 1 .. 6 /\ call[w] \in Calls
    BY <1>1, <1>19 DEF SendCursorByte, At, CallOK
  <2>2. b \in Byte /\ hw' = Command(hw, b) /\ Goto(w, t)
    BY <1>1, <1>19, <2>1, CursorByteTyped DEF SendCursorByte, SendCommand
  <2>3. left \in 1 .. 26 /\ Remaining(call[w]) = left
    BY <2>1 DEF Remaining
  <2>4. Remaining(t) = left - 1
    <3>1. CASE call[w].n < 6
      BY <2>1, <3>1, CountUp DEF Remaining
    <3>2. CASE call[w].n = 6
      <4>1. t.at \notin {"cursor", "init"}
        BY <2>1, <3>2 DEF Resume, Idle, Calls
      <4> QED BY <3>2, <4>1 DEF Remaining
    <3> QED BY <2>1, <3>1, <3>2
  <2>5. left = 1 => ArgCount(b) = 0
    BY <2>1, PanelAssumption DEF CursorByte, ArgCount, SetColumns, SetPages, SetMode, Settings
  <2>6. left = 2 => ArgCount(b) <= 1 \/ b \in Written
    <3>1. left = 2 => b = line_num
      BY <2>1 DEF CursorByte
    <3>2. line_num \in Pages => ArgCount(line_num) = 0
      BY PanelAssumption DEF Pages, ArgCount, SetColumns, SetPages, SetMode, Settings
    <3> QED BY <1>1, <3>1, <3>2
  <2> HIDE DEF b, left, t
  <2> QED BY <1>1, <2>2, <2>3, <2>4, <2>5, <2>6, FramedInside
<1>20. ASSUME NEW w \in Writers, SendInitByte(w)
       PROVE  Goal
  <2> DEFINE b == InitBytes[call[w].n]
             left == 27 - call[w].n
             t == IF call[w].n < 26 THEN [call[w] EXCEPT !.n = @ + 1]
                  ELSE [Idle EXCEPT !.at = "fill", !.then = "probed"]
  <2>1. call[w].at = "init" /\ call[w].n \in 1 .. 26 /\ call[w] \in Calls
    BY <1>1, <1>20 DEF SendInitByte, At, CallOK
  <2>2. b \in Byte /\ hw' = Command(hw, b) /\ Goto(w, t)
    BY <1>1, <1>20, <2>1, InitByteTyped, InitLength DEF SendInitByte, SendCommand
  <2>3. left \in 1 .. 26 /\ Remaining(call[w]) = left
    BY <2>1 DEF Remaining
  <2>4. Remaining(t) = left - 1
    <3>1. CASE call[w].n < 26
      BY <2>1, <3>1, CountUp DEF Remaining
    <3>2. CASE call[w].n = 26
      <4>1. t.at = "fill"
        BY <3>2 DEF Idle
      <4> QED BY <3>2, <4>1 DEF Remaining
    <3> QED BY <2>1, <3>1, <3>2
  <2>5. left \in {1, 2} => ArgCount(b) = 0
    BY <2>1 DEF InitBytes, DisplayOn, ArgCount, SetColumns, SetPages, SetMode, Settings
  <2> HIDE DEF b, left, t
  <2> QED BY <1>1, <2>2, <2>3, <2>4, <2>5, FramedInside
<1>21. ASSUME NEW w \in Writers, SwitchOff(w)
       PROVE  Goal
  <2>1. /\ hw' = Command(hw, DisplayOff) /\ Goto(w, Idle)
        /\ Remaining(call[w]) = 0
    BY <1>1, <1>21 DEF SwitchOff, SendCommand, At, Remaining
  <2>2. DisplayOff \in Byte /\ ArgCount(DisplayOff) = 0
    BY DEF DisplayOff, Byte, ArgCount, SetColumns, SetPages, SetMode, Settings
  <2>3. hw'.need = IF hw.need = 0 THEN 0 ELSE hw.need - 1
    BY <1>1, <2>1, <2>2, CommandNeed
  <2>4. CASE hw'.need = 0
    BY <2>4 DEF Framed
  <2>5. CASE hw'.need # 0
    <3>1. hw.need = 2 /\ hw'.need = 1 /\ hw'.op = hw.op
      BY <1>1, <2>1, <2>2, <2>3, <2>5, CommandOp
    <3>2. CASE Stray(hw, call)
      BY <3>1, <3>2 DEF Framed, Stray
    <3>3. CASE \E v \in Writers : hw.need <= Remaining(call[v])
      <4>1. PICK v \in Writers : hw.need <= Remaining(call[v])
        BY <3>3
      <4>2. v # w
        BY <2>1, <3>1, <4>1
      <4>3. call'[v] = call[v]
        BY <2>1, <4>2 DEF Goto
      <4>4. hw'.need <= Remaining(call'[v])
        BY <1>1, <3>1, <4>1, <4>3, RemainingInt
      <4> QED BY <4>4 DEF Framed, Remaining
    <3> QED BY <1>1, <3>1, <3>2, <3>3 DEF Framed
  <2> QED BY <2>4, <2>5
<1>22. ASSUME UNCHANGED vars
       PROVE  Goal
  BY <1>1, <1>22 DEF vars, Framed, Stray, Remaining, Written
<1> HIDE DEF Goal
<1>23. Goal
  BY <1>2, <1>3, <1>5, <1>6, <1>7, <1>8, <1>9, <1>10, <1>11, <1>12, <1>13, <1>14, <1>15,
     <1>17, <1>18, <1>19, <1>20, <1>21, <1>22 DEF Next, Begin, Continue
<1> QED BY <1>23 DEF Goal

LEMMA LineNext ==
  ASSUME TypeInv, line_num \in Pages \cup Written, [Next]_vars
  PROVE  line_num' \in Pages \cup Written
<1>1. /\ line_num \in Byte
      /\ \A w \in Writers : call[w] \in Calls
  BY DEF TypeInv, TypeOK
<1>2. ASSUME NEW w \in Writers, NEW value \in LineValues, LineNumStore(w, value)
      PROVE  line_num' \in Written
  BY <1>2 DEF LineNumStore, Written
<1>3. ASSUME NEW w \in Writers, SetCursor(w)
      PROVE  line_num' \in Pages \cup Written
  <2>1. \/ line_num' = line_num
        \/ line_num' = call[w].line /\ call[w].line <= SSD1306_MAX_LINE
    BY <1>3 DEF SetCursor
  <2>2. call[w].line \in Byte
    BY <1>1 DEF Calls
  <2>3. call[w].line <= SSD1306_MAX_LINE => call[w].line \in Pages
    BY <2>2, PanelAssumption DEF Byte, Pages
  <2> QED BY <2>1, <2>3
<1>4. ASSUME NEW w \in Writers, GoToNextLine(w)
      PROVE  line_num' \in Pages
  <2> DEFINE k == (call[w].reg + 1) % 256
  <2>1. line_num' = k % (SSD1306_MAX_LINE + 1)
    BY <1>4, Zenon DEF GoToNextLine
  <2>2. k \in Byte
    BY <1>1, NextByte DEF Calls
  <2> HIDE DEF k
  <2> QED BY <2>1, <2>2, PanelMod
<1>5. \/ line_num' = line_num
      \/ \E w \in Writers : SetCursor(w) \/ GoToNextLine(w)
      \/ \E w \in Writers, value \in LineValues : LineNumStore(w, value)
  BY Zenon DEF Next, Begin, Continue, vars, CursorPosStore, CommandStore, MessageStore, Probe,
     Remove, SendCursorByte, PrintChar, WriteColumn, LoadCursor, StoreCursor, FillByte,
     SendInitByte, ProbeDone, ClearOnRemove, SwitchOff
<1> QED BY <1>2, <1>3, <1>4, <1>5

LEMMA FramingNext ==
  ASSUME FramingInv, [Next]_vars
  PROVE  FramingInv'
<1>1. TypeInv'
  BY TypeInvNext DEF FramingInv
<1>2. line_num' \in Pages \cup Written
  BY LineNext DEF FramingInv
<1>3. lost' = 0 => Framed'
  BY FramedNext
<1> QED BY <1>1, <1>2, <1>3 DEF FramingInv, Written

\* FramingRestored, for any number of users and any numbers written to the files:
\* until a transfer fails, the controller is between commands whenever no call is
\* inside a command sequence, or one argument short after a line number that it
\* took for an opcode.
THEOREM FramingCorrect == Spec => []FramingRestored
<1>1. Init => FramingInv
  BY FramingInit, TypeInvInit
<1>2. FramingInv /\ [Next]_vars => FramingInv'
  BY FramingNext
<1>3. FramingInv => FramingRestored
  <2> SUFFICES ASSUME FramingInv, lost = 0, \A w \in Writers : ~At(w, "cursor") /\ ~At(w, "init"),
                      hw.need # 0
               PROVE  hw.need = 1 /\ hw.op \in Written
    BY DEF FramingRestored, BetweenCommands, Written
  <2>1. hw.need \in 0 .. 2
    BY DEF FramingInv, TypeInv, TypeOK, Controller
  <2>2. \A w \in Writers : Remaining(call[w]) = 0
    BY DEF At, Remaining
  <2> QED BY <2>1, <2>2 DEF FramingInv, Framed, Stray
<1> QED BY <1>1, <1>2, <1>3, PTL DEF Spec
----------------------------------------------------------------------------
(***************************************************************************)
(* One user: until a transfer fails, the controller's RAM pointer follows  *)
(* the driver's text cursor.                                               *)
(***************************************************************************)

Sync == hw.col = cursor_pos /\ hw.page = line_num

\* The rest of a glyph, its spacing column included, fits on the line.
Room(t) ==
  /\ t.n \in 0 .. SSD1306_DEF_FONT_SIZE
  /\ cursor_pos + SSD1306_DEF_FONT_SIZE - t.n < SSD1306_MAX_SEG

\* A column was written and cursor_pos is about to follow.  Only the spacing
\* column may have been the last of the line, which wraps the pointer.
Ahead(t) ==
  \/ hw.col = cursor_pos + 1 /\ hw.page = line_num
  \/ t.n = SSD1306_DEF_FONT_SIZE /\ cursor_pos + 1 = SSD1306_MAX_SEG

InitPhase(t) ==
  /\ t.n \in {3, 5, 7, 10, 12, 16, 18, 20, 22} => hw.need = 1 /\ hw.op = InitBytes[t.n - 1]
  /\ t.n \notin {3, 5, 7, 10, 12, 16, 18, 20, 22} => hw.need = 0
  /\ t.n > 12 => hw.mode = 0

SetPhase(t) ==
  /\ t.then \in {"string", "glyph", "clear"}
  /\ t.then = "string" =>
       \/ t.line \in Pages /\ t.pos \in Columns
       \/ t.line = line_num /\ t.pos = cursor_pos
  /\ t.then = "glyph" => t.line \in Pages /\ t.pos = 0

CursorPhase(t) ==
  /\ t.then \in {"string", "glyph", "clear"}
  /\ t.line = line_num /\ t.pos = cursor_pos
  /\ line_num \in Pages /\ cursor_pos \in Columns
  /\ hw.need = IF t.n \in {1, 4} THEN 0 ELSE IF t.n \in {2, 5} THEN 2 ELSE 1
  /\ t.n \in {2, 3} => hw.op = SetColumns
  /\ t.n \in {5, 6} => hw.op = SetPages
  /\ t.n = 3 => hw.first = cursor_pos
  /\ t.n = 6 => hw.first = line_num
  /\ t.n \in 4 .. 6 => hw.col = cursor_pos
  /\ t.then = "glyph" => cursor_pos = 0

StringPhase ==
  \/ line_num \notin Pages
  \/ cursor_pos + SSD1306_DEF_FONT_SIZE >= SSD1306_MAX_SEG
  \/ Sync

\* What holds at each point of a call.
Phase(t) ==
  /\ t.at \notin {"cursor", "init"} => hw.need = 0
  /\ hw.mode = 0 \/ (t.at = "init" /\ t.n <= 12) \/ (t.at = "idle" /\ drv = "unbound")
  /\ t.at = "init"   => InitPhase(t)
  /\ t.at = "set"    => SetPhase(t)
  /\ t.at = "cursor" => CursorPhase(t)
  /\ t.at = "string" => StringPhase
  /\ t.at = "glyph"  => Room(t) /\ (line_num \in Pages => Sync)
  /\ t.at = "load"   => Room(t) /\ (line_num \in Pages => Ahead(t))
  /\ t.at = "store"  => Room(t) /\ (line_num \in Pages => Ahead(t)) /\ t.reg = cursor_pos
  /\ t.at = "fill"   => t.then \in {"idle", "probed", "off"}

SoleInv(u) ==
  /\ TypeInv
  /\ hw.colEnd = SSD1306_MAX_SEG - 1
  /\ Phase(call[u])
----------------------------------------------------------------------------
LEMMA SmallMod == \A k \in Nat \ {0} : \A a \in 0 .. k - 1 : a % k = a
  BY SMT

LEMMA PanelSmallMod ==
  /\ \A x \in Columns : x % SSD1306_MAX_SEG = x
  /\ \A x \in Pages : x % (SSD1306_MAX_LINE + 1) = x
<1>1. /\ SSD1306_MAX_SEG \in Nat \ {0}
      /\ SSD1306_MAX_LINE + 1 \in Nat \ {0}
      /\ (SSD1306_MAX_LINE + 1) - 1 = SSD1306_MAX_LINE
  BY PanelAssumption
<1> QED BY <1>1, SmallMod, Zenon DEF Columns, Pages

\* A command other than the three that address the RAM leaves the pointer alone.
LEMMA ExecuteKeeps ==
  ASSUME NEW h \in Controller, NEW b, NEW op, op \notin {SetColumns, SetPages, SetMode}
  PROVE  /\ Execute(h, op, b).mode = h.mode
         /\ Execute(h, op, b).colEnd = h.colEnd
  BY DEF Execute, Controller, StartLines, DisplayOff, DisplayOn

\* The three steps of the decoder.
LEMMA CommandOpcode ==
  ASSUME NEW h \in Controller, NEW b \in Byte, h.need = 0, ArgCount(b) # 0
  PROVE  LET c == Command(h, b)
         IN  /\ c.op = b /\ c.need = ArgCount(b)
             /\ c.mode = h.mode /\ c.colEnd = h.colEnd /\ c.col = h.col /\ c.page = h.page
<1> DEFINE k == ArgCount(b)
<1>1. Command(h, b) = [h EXCEPT !.op = b, !.need = k]
  BY DEF Command
<1> HIDE DEF k
<1>2. LET c == [h EXCEPT !.op = b, !.need = k]
      IN  /\ c.op = b /\ c.need = k
          /\ c.mode = h.mode /\ c.colEnd = h.colEnd /\ c.col = h.col /\ c.page = h.page
  BY DEF Controller
<1> QED BY <1>1, <1>2 DEF k

LEMMA CommandFirst ==
  ASSUME NEW h \in Controller, NEW b \in Byte, h.need = 2
  PROVE  LET c == Command(h, b)
         IN  /\ c.op = h.op /\ c.need = 1 /\ c.first = b
             /\ c.mode = h.mode /\ c.colEnd = h.colEnd /\ c.col = h.col /\ c.page = h.page
<1>1. Command(h, b) = [h EXCEPT !.need = 1, !.first = b]
  BY DEF Command
<1> QED BY <1>1 DEF Controller

LEMMA CommandColumns ==
  ASSUME NEW h \in Controller, NEW b \in Columns, h.need = 1, h.op = SetColumns,
         h.first \in Columns
  PROVE  LET c == Command(h, b)
         IN  /\ c.need = 0 /\ c.col = h.first /\ c.colEnd = b
             /\ c.mode = h.mode /\ c.page = h.page
<1>1. h.first % SSD1306_MAX_SEG = h.first /\ b % SSD1306_MAX_SEG = b
  BY PanelSmallMod
<1>2. Command(h, b) = Execute(h, SetColumns, b)
  BY DEF Command
<1>3. Execute(h, SetColumns, b) =
        [h EXCEPT !.need = 0, !.colStart = h.first % SSD1306_MAX_SEG,
                  !.col = h.first % SSD1306_MAX_SEG, !.colEnd = b % SSD1306_MAX_SEG]
  BY DEF Execute, SetColumns, SetPages, SetMode, StartLines, DisplayOff, DisplayOn
<1>4. Command(h, b) =
        [h EXCEPT !.need = 0, !.colStart = h.first, !.col = h.first, !.colEnd = b]
  BY <1>1, <1>2, <1>3
<1> QED BY <1>4 DEF Controller

LEMMA CommandPages ==
  ASSUME NEW h \in Controller, NEW b \in Pages, h.need = 1, h.op = SetPages,
         h.first \in Pages
  PROVE  LET c == Command(h, b)
         IN  /\ c.need = 0 /\ c.page = h.first
             /\ c.mode = h.mode /\ c.colEnd = h.colEnd /\ c.col = h.col
<1>1. h.first % (SSD1306_MAX_LINE + 1) = h.first /\ b % (SSD1306_MAX_LINE + 1) = b
  BY PanelSmallMod
<1>2. Command(h, b) = Execute(h, SetPages, b)
  BY DEF Command
<1>3. Execute(h, SetPages, b) =
        [h EXCEPT !.need = 0, !.pageStart = h.first % (SSD1306_MAX_LINE + 1),
                  !.page = h.first % (SSD1306_MAX_LINE + 1), !.pageEnd = b % (SSD1306_MAX_LINE + 1)]
  BY DEF Execute, SetColumns, SetPages, SetMode, StartLines, DisplayOff, DisplayOn
<1>4. Command(h, b) =
        [h EXCEPT !.need = 0, !.pageStart = h.first, !.page = h.first, !.pageEnd = b]
  BY <1>1, <1>2, <1>3
<1> QED BY <1>4 DEF Controller

\* A data byte moves the pointer and nothing else.
LEMMA AdvanceKeeps ==
  ASSUME NEW h \in Controller
  PROVE  /\ Advance(h).need = h.need /\ Advance(h).mode = h.mode
         /\ Advance(h).colEnd = h.colEnd
         /\ h.col < h.colEnd => Advance(h).col = h.col + 1 /\ Advance(h).page = h.page
<1>1. CASE h.col # h.colEnd
  <2> DEFINE x == (h.col + 1) % SSD1306_MAX_SEG
  <2>1. Advance(h) = [h EXCEPT !.col = x]
    BY <1>1 DEF Advance
  <2>2. h.col < h.colEnd => x = h.col + 1
    <3>1. h.col < h.colEnd => h.col + 1 \in Columns
      BY PanelAssumption DEF Controller, Columns
    <3> QED BY <3>1, PanelSmallMod
  <2> HIDE DEF x
  <2> QED BY <2>1, <2>2 DEF Controller
<1>2. CASE h.col = h.colEnd
  <2> DEFINE y == IF h.mode = 0
                  THEN IF h.page = h.pageEnd THEN h.pageStart
                       ELSE (h.page + 1) % (SSD1306_MAX_LINE + 1)
                  ELSE h.page
  <2>1. Advance(h) = [h EXCEPT !.col = h.colStart, !.page = y]
    BY <1>2 DEF Advance
  <2>2. ~(h.col < h.colEnd)
    BY <1>2 DEF Controller, Columns
  <2> HIDE DEF y
  <2> QED BY <2>1, <2>2 DEF Controller
<1> QED BY <1>1, <1>2
----------------------------------------------------------------------------
LEMMA SoleInit ==
  ASSUME NEW u \in Writers, Init
  PROVE  SoleInv(u)
<1>1. call[u] = Idle /\ drv = "unbound" /\ hw = PowerOn
  BY DEF Init
<1>2. Idle.at = "idle"
  BY DEF Idle
<1>3. hw.need = 0 /\ hw.colEnd = SSD1306_MAX_SEG - 1
  BY <1>1 DEF PowerOn
<1> QED BY <1>1, <1>2, <1>3, TypeInvInit DEF SoleInv, Phase

\* One byte of display_init.
LEMMA InitStep ==
  ASSUME NEW n \in 1 .. 26, NEW h \in Controller, h.colEnd = SSD1306_MAX_SEG - 1,
         n \in {3, 5, 7, 10, 12, 16, 18, 20, 22} => h.need = 1 /\ h.op = InitBytes[n - 1],
         n \notin {3, 5, 7, 10, 12, 16, 18, 20, 22} => h.need = 0,
         n > 12 => h.mode = 0
  PROVE  LET c == Command(h, InitBytes[n])
             m == n + 1
         IN  /\ c.colEnd = SSD1306_MAX_SEG - 1
             /\ m \in {3, 5, 7, 10, 12, 16, 18, 20, 22} => c.need = 1 /\ c.op = InitBytes[m - 1]
             /\ m \notin {3, 5, 7, 10, 12, 16, 18, 20, 22} => c.need = 0
             /\ m > 12 => c.mode = 0
<1> DEFINE Arguments == {3, 5, 7, 10, 12, 16, 18, 20, 22}
           b == InitBytes[n]
<1>1. b \in Byte
  BY InitByteTyped
<1>2. CASE n + 1 \in Arguments
  <2>1. h.need = 0 /\ ArgCount(b) = 1
    BY <1>2 DEF InitBytes, DisplayOff, DisplayOn, SetMode, SetColumns, SetPages, Settings, ArgCount
  <2>2. n + 1 > 12 => n > 12
    BY <1>2
  <2>3. InitBytes[(n + 1) - 1] = b
    OBVIOUS
  <2> HIDE DEF b
  <2> QED BY <1>1, <1>2, <2>1, <2>2, <2>3, CommandOpcode
<1>3. CASE n = 12
  <2>1. b = 0 /\ h.need = 1 /\ h.op = SetMode
    BY <1>3 DEF InitBytes
  <2>2. Command(h, b) = [h EXCEPT !.need = 0, !.mode = 0]
    BY <2>1 DEF Command, Execute, SetColumns, SetPages, SetMode, StartLines, DisplayOff, DisplayOn
  <2>3. [h EXCEPT !.need = 0, !.mode = 0].need = 0 /\ [h EXCEPT !.need = 0, !.mode = 0].mode = 0
        /\ [h EXCEPT !.need = 0, !.mode = 0].colEnd = h.colEnd
    BY DEF Controller
  <2> QED BY <1>3, <2>2, <2>3
<1>4. CASE n \in Arguments \ {12}
  <2>1. h.need = 1 /\ h.op \notin {SetColumns, SetPages, SetMode}
    BY <1>4 DEF InitBytes, DisplayOff, DisplayOn, SetMode, SetColumns, SetPages
  <2>2. Command(h, b) = Execute(h, h.op, b)
    BY <2>1 DEF Command
  <2>3. n + 1 > 12 => n > 12
    BY <1>4
  <2>4. n + 1 \notin Arguments
    BY <1>4
  <2>5. /\ Command(h, b).need = 0 /\ Command(h, b).mode = h.mode
        /\ Command(h, b).colEnd = h.colEnd
    BY <2>1, <2>2, ExecuteKeeps, ExecuteNeed
  <2> QED BY <2>3, <2>4, <2>5
<1>5. CASE n \notin Arguments /\ n + 1 \notin Arguments
  <2>1. h.need = 0 /\ ArgCount(b) = 0 /\ b \notin {SetColumns, SetPages, SetMode}
    BY <1>5 DEF InitBytes, DisplayOff, DisplayOn, SetMode, SetColumns, SetPages, Settings, ArgCount
  <2>2. Command(h, b) = Execute(h, b, b)
    BY <2>1 DEF Command
  <2>3. n + 1 > 12 => n > 12
    BY <1>5
  <2>4. /\ Command(h, b).need = 0 /\ Command(h, b).mode = h.mode
        /\ Command(h, b).colEnd = h.colEnd
    BY <2>1, <2>2, ExecuteKeeps, ExecuteNeed
  <2> QED BY <1>5, <2>3, <2>4
<1> QED BY <1>2, <1>3, <1>4, <1>5

\* One byte of set_cursor.
LEMMA CursorStep ==
  ASSUME TypeInv, NEW t \in Calls, t.n \in 1 .. 6, CursorPhase(t),
         hw' = Command(hw, CursorByte(t.n)), UNCHANGED <<line_num, cursor_pos>>,
         t.n > 3 => hw.colEnd = SSD1306_MAX_SEG - 1, hw.mode = 0
  PROVE  /\ hw'.colEnd = SSD1306_MAX_SEG - 1 \/ (t.n < 3 /\ hw'.colEnd = hw.colEnd)
         /\ hw'.mode = 0
         /\ hw'.need = IF t.n \in {3, 6} THEN 0 ELSE IF t.n \in {1, 4} THEN 2 ELSE 1
         /\ t.n \in {1, 2} => hw'.op = SetColumns
         /\ t.n \in {4, 5} => hw'.op = SetPages
         /\ t.n = 2 => hw'.first = cursor_pos
         /\ t.n = 5 => hw'.first = line_num
         /\ t.n \in 3 .. 6 => hw'.col = cursor_pos
         /\ t.n = 6 => hw'.page = line_num
<1>1. hw \in Controller /\ line_num \in Pages /\ cursor_pos \in Columns
  BY DEF TypeInv, TypeOK, CursorPhase
<1>2. CursorByte(t.n) \in Byte
  BY CursorByteTyped DEF TypeInv, TypeOK
<1>3. /\ ArgCount(SetColumns) = 2 /\ ArgCount(SetPages) = 2
      /\ SSD1306_MAX_SEG - 1 \in Columns /\ SSD1306_MAX_LINE \in Pages
  BY PanelAssumption DEF ArgCount, SetColumns, SetPages, SetMode, Settings, Columns, Pages
<1>4. CASE t.n = 1
  <2>1. hw.need = 0 /\ CursorByte(t.n) = SetColumns
    BY <1>4 DEF CursorPhase, CursorByte
  <2> QED BY <1>1, <1>2, <1>3, <1>4, <2>1, CommandOpcode
<1>5. CASE t.n = 2
  <2>1. hw.need = 2 /\ hw.op = SetColumns /\ CursorByte(t.n) = cursor_pos
    BY <1>5 DEF CursorPhase, CursorByte
  <2> QED BY <1>1, <1>2, <1>3, <1>5, <2>1, CommandFirst
<1>6. CASE t.n = 3
  <2>1. /\ hw.need = 1 /\ hw.op = SetColumns /\ hw.first = cursor_pos
        /\ CursorByte(t.n) = SSD1306_MAX_SEG - 1
    BY <1>6 DEF CursorPhase, CursorByte
  <2> QED BY <1>1, <1>3, <1>6, <2>1, CommandColumns
<1>7. CASE t.n = 4
  <2>1. hw.need = 0 /\ CursorByte(t.n) = SetPages /\ hw.col = cursor_pos
    BY <1>7 DEF CursorPhase, CursorByte
  <2> QED BY <1>1, <1>2, <1>3, <1>7, <2>1, CommandOpcode
<1>8. CASE t.n = 5
  <2>1. /\ hw.need = 2 /\ hw.op = SetPages /\ CursorByte(t.n) = line_num
        /\ hw.col = cursor_pos
    BY <1>8 DEF CursorPhase, CursorByte
  <2> QED BY <1>1, <1>2, <1>3, <1>8, <2>1, CommandFirst
<1>9. CASE t.n = 6
  <2>1. /\ hw.need = 1 /\ hw.op = SetPages /\ hw.first = line_num
        /\ CursorByte(t.n) = SSD1306_MAX_LINE /\ hw.col = cursor_pos
    BY <1>9 DEF CursorPhase, CursorByte
  <2> QED BY <1>1, <1>3, <1>9, <2>1, CommandPages
<1> QED BY <1>4, <1>5, <1>6, <1>7, <1>8, <1>9

\* The same as a step of the driver.  Only the end of the column range may have
\* been anything before.
LEMMA CursorNext ==
  ASSUME NEW u \in Writers, TypeInv, call[u].at = "cursor", Phase(call[u]),
         call[u].n > 3 => hw.colEnd = SSD1306_MAX_SEG - 1,
         SendCursorByte(u), ~Lose
  PROVE  /\ Phase(call[u])'
         /\ hw'.colEnd = SSD1306_MAX_SEG - 1 \/ (call[u].n < 3 /\ hw'.colEnd = hw.colEnd)
         /\ call[u].n < 6 => call'[u].at = "cursor" /\ call'[u].n = call[u].n + 1
<1> DEFINE t == call[u]
<1>1. t \in Calls /\ CallOK(t)
  BY DEF TypeInv, TypeOK
<1>2. \A r : Goto(u, r) => call'[u] = r
  BY DEF TypeInv, TypeOK, Goto
<1>3. t.at = "cursor" /\ t.n \in 1 .. 6 /\ CursorPhase(t) /\ hw.mode = 0
  BY <1>1 DEF SendCursorByte, At, Phase, CallOK
<1>4. hw' = Command(hw, CursorByte(t.n)) /\ UNCHANGED <<line_num, cursor_pos, drv>>
  BY <1>1 DEF SendCursorByte, SendCommand
<1>5. /\ hw'.colEnd = SSD1306_MAX_SEG - 1 \/ (t.n < 3 /\ hw'.colEnd = hw.colEnd)
      /\ hw'.mode = 0
      /\ hw'.need = IF t.n \in {3, 6} THEN 0 ELSE IF t.n \in {1, 4} THEN 2 ELSE 1
      /\ t.n \in {1, 2} => hw'.op = SetColumns
      /\ t.n \in {4, 5} => hw'.op = SetPages
      /\ t.n = 2 => hw'.first = cursor_pos
      /\ t.n = 5 => hw'.first = line_num
      /\ t.n \in 3 .. 6 => hw'.col = cursor_pos
      /\ t.n = 6 => hw'.page = line_num
  BY <1>1, <1>3, <1>4, CursorStep
<1>6. CASE t.n < 6
  <2> DEFINE r == [t EXCEPT !.n = @ + 1]
  <2>1. call'[u] = r
    BY <1>2, <1>6 DEF SendCursorByte
  <2>2. /\ r.n = t.n + 1 /\ r.at = "cursor" /\ r.then = t.then
        /\ r.line = t.line /\ r.pos = t.pos
    <3>1. r.line = t.line /\ r.pos = t.pos
      BY <1>1 DEF Calls
    <3> QED BY <1>1, <1>3, <3>1, CountUp
  <2> HIDE DEF r
  <2>3. CursorPhase(call[u])'
    BY <1>3, <1>4, <1>5, <1>6, <2>1, <2>2 DEF CursorPhase
  <2> QED BY <1>5, <2>1, <2>2, <2>3 DEF Phase
<1>7. CASE t.n = 6
  <2>1. call'[u] = Resume(t)
    BY <1>2, <1>7 DEF SendCursorByte
  <2>2. t.then \in {"string", "glyph", "clear"} /\ (t.then = "glyph" => cursor_pos = 0)
    BY <1>3 DEF CursorPhase
  <2>3. Resume(t).at = t.then /\ Resume(t).n = 0
    BY <1>1, <2>2 DEF Resume, Calls
  <2>4. Sync' /\ cursor_pos' = cursor_pos /\ line_num' = line_num
    BY <1>4, <1>5, <1>7 DEF Sync
  <2>5. t.then = "glyph" => Room(call[u])'
    <3>1. 0 \in 0 .. SSD1306_DEF_FONT_SIZE /\ SSD1306_DEF_FONT_SIZE < SSD1306_MAX_SEG
          /\ 0 + SSD1306_DEF_FONT_SIZE - 0 = SSD1306_DEF_FONT_SIZE
      BY DriverAssumption, PanelAssumption
    <3> QED BY <2>1, <2>2, <2>3, <2>4, <3>1 DEF Room
  <2> QED BY <1>5, <1>7, <2>1, <2>2, <2>3, <2>4, <2>5 DEF Phase, StringPhase
<1> QED BY <1>3, <1>6, <1>7


\* The invariant is kept by every step with which no transfer fails.
LEMMA SoleNext ==
  ASSUME NEW u \in Writers, Writers = {u}, SoleInv(u), [Next]_vars, lost' = lost
  PROVE  SoleInv(u)'
<1> DEFINE t == call[u]
           Goal == hw'.colEnd = SSD1306_MAX_SEG - 1 /\ Phase(call[u])'
<1>1. /\ t \in Calls /\ CallOK(t) /\ Phase(t) /\ TypeInv
      /\ hw.colEnd = SSD1306_MAX_SEG - 1
      /\ hw \in Controller /\ hw.need \in 0 .. 2
      /\ line_num \in Byte /\ cursor_pos \in Byte
      /\ ~Lose
  BY NoneFails DEF SoleInv, TypeInv, TypeOK, Controller
<1>2. \A r : Goto(u, r) => call'[u] = r
  BY DEF SoleInv, TypeInv, TypeOK, Goto
<1>3. 0 \in Columns /\ 0 \in Pages
  BY PanelAssumption DEF Columns, Pages
<1>4. \A x \in Byte : (x \in Pages <=> x <= SSD1306_MAX_LINE)
                    /\ (x \in Columns <=> x < SSD1306_MAX_SEG)
  BY PanelAssumption DEF Byte, Pages, Columns
<1>5. ASSUME NEW value, CursorPosStore(u, value) \/ LineNumStore(u, value)
      PROVE  Goal
  <2>1. /\ t.at = "idle" /\ drv # "unbound" /\ call' = call /\ UNCHANGED <<hw, drv>>
    BY <1>5 DEF CursorPosStore, LineNumStore, Ready, At
  <2> QED BY <1>1, <2>1 DEF Phase
<1>6. ASSUME NEW value, CommandStore(u, value)
      PROVE  Goal
  <2> DEFINE r == [Idle EXCEPT !.at = "fill", !.data = value % 256]
  <2>1. t.at = "idle" /\ drv # "unbound" /\ call'[u] = r /\ UNCHANGED <<hw, drv>>
    BY <1>2, <1>6 DEF CommandStore, Ready, At
  <2>2. r.at = "fill" /\ r.then = "idle"
    BY DEF Idle
  <2> HIDE DEF r
  <2> QED BY <1>1, <2>1, <2>2 DEF Phase
<1>7. ASSUME NEW str, MessageStore(u, str)
      PROVE  Goal
  <2> DEFINE r == [Idle EXCEPT !.at = "set", !.line = line_num, !.pos = cursor_pos,
                               !.then = "string", !.rest = str]
  <2>1. /\ t.at = "idle" /\ drv # "unbound" /\ call'[u] = r
        /\ UNCHANGED <<hw, drv, line_num, cursor_pos>>
    BY <1>2, <1>7 DEF MessageStore, Ready, At
  <2>2. r.at = "set" /\ r.then = "string" /\ r.line = line_num /\ r.pos = cursor_pos
    BY DEF Idle
  <2> HIDE DEF r
  <2> QED BY <1>1, <2>1, <2>2 DEF Phase, SetPhase
<1>8. ASSUME Probe(u)
      PROVE  Goal
  <2> DEFINE r == [Idle EXCEPT !.at = "init", !.n = 1]
  <2>1. t.at = "idle" /\ call'[u] = r /\ UNCHANGED hw
    BY <1>2, <1>8 DEF Probe, At
  <2>2. r.at = "init" /\ r.n = 1
    BY DEF Idle
  <2> HIDE DEF r
  <2> QED BY <1>1, <2>1, <2>2 DEF Phase, InitPhase
<1>9. ASSUME Remove(u)
      PROVE  Goal
  <2> DEFINE r == [Idle EXCEPT !.at = "set", !.then = "clear"]
  <2>1. t.at = "idle" /\ drv # "unbound" /\ call'[u] = r /\ UNCHANGED hw
    BY <1>2, <1>9 DEF Remove, Ready, At
  <2>2. r.at = "set" /\ r.then = "clear"
    BY DEF Idle
  <2> HIDE DEF r
  <2> QED BY <1>1, <2>1, <2>2 DEF Phase, SetPhase
<1>10. ASSUME SetCursor(u)
       PROVE  Goal
  <2>1. t.at = "set" /\ SetPhase(t) /\ hw.need = 0 /\ hw.mode = 0 /\ UNCHANGED hw
        /\ t.line \in Byte /\ t.pos \in Byte
    BY <1>1, <1>10 DEF SetCursor, At, Phase, Calls
  <2>2. CASE t.line \in Pages /\ t.pos \in Columns
    <3> DEFINE r == [t EXCEPT !.at = "cursor", !.n = 1]
    <3>1. line_num' = t.line /\ cursor_pos' = t.pos /\ call'[u] = r
      BY <1>2, <1>4, <1>10, <2>1, <2>2 DEF SetCursor
    <3>2. /\ r.at = "cursor" /\ r.n = 1 /\ r.then = t.then
          /\ r.line = t.line /\ r.pos = t.pos
      BY <1>1 DEF Calls
    <3> HIDE DEF r
    <3> QED BY <1>1, <2>1, <2>2, <3>1, <3>2 DEF Phase, SetPhase, CursorPhase
  <2>3. CASE ~(t.line \in Pages /\ t.pos \in Columns)
    <3>1. UNCHANGED <<line_num, cursor_pos>> /\ call'[u] = Resume(t)
      BY <1>2, <1>4, <1>10, <2>1, <2>3 DEF SetCursor
    <3>2. t.then \in {"string", "clear"}
      BY <1>3, <2>1, <2>3 DEF SetPhase
    <3>3. Resume(t).at = t.then
      BY <1>1, <3>2 DEF Resume, Calls
    <3>4. t.then = "string" => StringPhase
      <4>1. SSD1306_DEF_FONT_SIZE \in Nat
        BY DriverAssumption, PanelAssumption
      <4> QED BY <1>1, <1>4, <2>1, <2>3, <4>1, PanelAssumption DEF SetPhase, StringPhase, Byte
    <3>5. t.then = "string" => StringPhase'
      BY <2>1, <3>1, <3>4 DEF StringPhase, Sync
    <3> QED BY <1>1, <2>1, <3>1, <3>2, <3>3, <3>5 DEF Phase
  <2> QED BY <2>2, <2>3
<1>11. ASSUME SendCursorByte(u)
       PROVE  Goal
  <2>1. t.at = "cursor"
    BY <1>11 DEF SendCursorByte, At
  <2> QED BY <1>1, <1>11, <2>1, CursorNext
<1>12. ASSUME PrintChar(u)
       PROVE  Goal
  <2>1. /\ t.at = "string" /\ StringPhase /\ hw.need = 0 /\ hw.mode = 0
        /\ UNCHANGED <<line_num, cursor_pos, hw>>
    BY <1>1, <1>12 DEF PrintChar, At, Phase
  <2> DEFINE r == [t EXCEPT !.at = "newline", !.reg = line_num]
             g == [t EXCEPT !.at = "glyph", !.n = 0]
  <2>2. \/ call'[u] = Idle \/ call'[u] = r
        \/ /\ call'[u] = g
           /\ ~(cursor_pos + SSD1306_DEF_FONT_SIZE >= SSD1306_MAX_SEG)
    BY <1>2, <1>12 DEF PrintChar
  <2>3. CASE call'[u] = Idle
    BY <1>1, <2>1, <2>3 DEF Phase, Idle
  <2>4. CASE call'[u] = r
    <3>1. r.at = "newline"
      BY <1>1 DEF Calls
    <3> HIDE DEF r
    <3> QED BY <1>1, <2>1, <2>4, <3>1 DEF Phase
  <2>5. CASE /\ call'[u] = g
             /\ ~(cursor_pos + SSD1306_DEF_FONT_SIZE >= SSD1306_MAX_SEG)
    <3>1. g.at = "glyph" /\ g.n = 0
      BY <1>1 DEF Calls
    <3> HIDE DEF g
    <3>2. 0 \in 0 .. SSD1306_DEF_FONT_SIZE
          /\ cursor_pos + SSD1306_DEF_FONT_SIZE - 0 < SSD1306_MAX_SEG
      <4>1. SSD1306_DEF_FONT_SIZE \in Nat /\ SSD1306_MAX_SEG \in Nat
        BY DriverAssumption, PanelAssumption
      <4>2. cursor_pos \in Int
        BY <1>1 DEF Byte
      <4> QED BY <2>5, <4>1, <4>2
    <3>3. line_num \in Pages => Sync
      BY <2>1, <2>5 DEF StringPhase
    <3> QED BY <1>1, <2>1, <2>5, <3>1, <3>2, <3>3 DEF Phase, Room, Sync
  <2> QED BY <2>2, <2>3, <2>4, <2>5
<1>13. ASSUME GoToNextLine(u)
       PROVE  Goal
  <2> DEFINE k == ((t.reg + 1) % 256) % (SSD1306_MAX_LINE + 1)
             s == [t EXCEPT !.at = "set", !.line = k, !.pos = 0, !.reg = 0]
             r == [s EXCEPT !.then = "string", !.rest = Tail(s.rest)]
             g == [s EXCEPT !.then = "glyph"]
  <2>1. /\ Goto(u, r) \/ Goto(u, g)
        /\ UNCHANGED <<cursor_pos, drv, hw>> /\ t.at = "newline"
    BY <1>13, Zenon DEF GoToNextLine, At
  <2>2. k \in Pages
    <3>1. (t.reg + 1) % 256 \in Byte
      BY <1>1, NextByte DEF Calls
    <3> QED BY <3>1, PanelMod
  <2> HIDE DEF k
  <2>3. /\ s.at = "set" /\ s.line = k /\ s.pos = 0
    BY <1>1 DEF Calls
  <2>4. /\ r.at = "set" /\ r.then = "string" /\ r.line = k /\ r.pos = 0
        /\ g.at = "set" /\ g.then = "glyph" /\ g.line = k /\ g.pos = 0
    BY <1>1 DEF Calls
  <2> HIDE DEF s, r, g
  <2>5. call'[u] = r \/ call'[u] = g
    BY <1>2, <2>1
  <2>6. hw.need = 0 /\ hw.mode = 0
    BY <1>1, <2>1 DEF Phase
  <2> QED BY <1>1, <1>3, <2>1, <2>2, <2>4, <2>5, <2>6 DEF Phase, SetPhase
<1>14. ASSUME WriteColumn(u)
       PROVE  Goal
  <2> DEFINE r == [t EXCEPT !.at = "load"]
  <2>1. /\ t.at = "glyph" /\ Room(t) /\ (line_num \in Pages => Sync)
        /\ hw.need = 0 /\ hw.mode = 0
    BY <1>1, <1>14 DEF WriteColumn, At, Phase
  <2>2. call'[u] = r /\ hw' = Advance(hw) /\ UNCHANGED <<line_num, cursor_pos>>
    BY <1>1, <1>2, <1>14 DEF WriteColumn, SendData
  <2>3. r.at = "load" /\ r.n = t.n
    BY <1>1 DEF Calls
  <2> HIDE DEF r
  <2>4. /\ hw'.need = 0 /\ hw'.mode = 0 /\ hw'.colEnd = hw.colEnd
        /\ hw.col < hw.colEnd => hw'.col = hw.col + 1 /\ hw'.page = hw.page
    BY <1>1, <2>1, <2>2, AdvanceKeeps
  <2>5. line_num \in Pages => Ahead(call[u])'
    <3> SUFFICES ASSUME line_num \in Pages PROVE Ahead(call[u])'
      OBVIOUS
    <3>1. hw.col = cursor_pos /\ hw.page = line_num
      BY <2>1 DEF Sync
    <3>2. CASE cursor_pos < SSD1306_MAX_SEG - 1
      BY <1>1, <2>2, <2>4, <3>1, <3>2 DEF Ahead
    <3>3. CASE ~(cursor_pos < SSD1306_MAX_SEG - 1)
      <4>1. t.n = SSD1306_DEF_FONT_SIZE /\ cursor_pos + 1 = SSD1306_MAX_SEG
        <5>1. SSD1306_DEF_FONT_SIZE \in Nat /\ SSD1306_MAX_SEG \in Nat
          BY DriverAssumption, PanelAssumption
        <5>2. cursor_pos \in Int
          BY <1>1 DEF Byte
        <5>3. Room(t)
          BY <2>1
        <5> QED BY <3>3, <5>1, <5>2, <5>3 DEF Room
      <4> QED BY <2>2, <2>3, <4>1 DEF Ahead
    <3> QED BY <3>2, <3>3
  <2> QED BY <1>1, <2>1, <2>2, <2>3, <2>4, <2>5 DEF Phase, Room, Ahead
<1>15. ASSUME LoadCursor(u)
       PROVE  Goal
  <2> DEFINE r == [t EXCEPT !.at = "store", !.reg = cursor_pos]
  <2>1. /\ t.at = "load" /\ Room(t) /\ (line_num \in Pages => Ahead(t))
        /\ hw.need = 0 /\ hw.mode = 0
    BY <1>1, <1>15 DEF LoadCursor, At, Phase
  <2>2. call'[u] = r /\ UNCHANGED <<line_num, cursor_pos, hw>>
    BY <1>2, <1>15 DEF LoadCursor
  <2>3. r.at = "store" /\ r.n = t.n /\ r.reg = cursor_pos
    BY <1>1 DEF Calls
  <2> HIDE DEF r
  <2> QED BY <1>1, <2>1, <2>2, <2>3 DEF Phase, Room, Ahead
<1>16. ASSUME StoreCursor(u)
       PROVE  Goal
  <2> DEFINE s == [t EXCEPT !.reg = 0]
             r == [s EXCEPT !.at = "glyph", !.n = s.n + 1]
             e == [s EXCEPT !.at = "string", !.then = "idle", !.n = 0,
                            !.line = 0, !.pos = 0, !.rest = Tail(s.rest)]
  <2>1. /\ t.at = "store" /\ Room(t) /\ (line_num \in Pages => Ahead(t))
        /\ t.reg = cursor_pos /\ hw.need = 0 /\ hw.mode = 0
    BY <1>1, <1>16 DEF StoreCursor, At, Phase
  <2>0. /\ SSD1306_DEF_FONT_SIZE \in Int /\ 1 <= SSD1306_DEF_FONT_SIZE
        /\ SSD1306_MAX_SEG \in Int /\ SSD1306_MAX_SEG <= 128
        /\ t.n \in Int /\ 0 <= t.n /\ t.n <= SSD1306_DEF_FONT_SIZE
        /\ cursor_pos \in Int /\ 0 <= cursor_pos
        /\ cursor_pos + SSD1306_DEF_FONT_SIZE - t.n < SSD1306_MAX_SEG
    <3>1. /\ SSD1306_DEF_FONT_SIZE \in Int /\ 1 <= SSD1306_DEF_FONT_SIZE
          /\ SSD1306_MAX_SEG \in Int /\ SSD1306_MAX_SEG <= 128
      BY DriverAssumption, PanelAssumption
    <3>2. cursor_pos \in Int /\ 0 <= cursor_pos
      BY <1>1 DEF Byte
    <3>3. Room(t)
      BY <2>1
    <3> QED BY <3>1, <3>2, <3>3 DEF Room
  <2>2. /\ cursor_pos' = (cursor_pos + 1) % 256 /\ UNCHANGED <<line_num, hw>>
        /\ IF s.n < SSD1306_DEF_FONT_SIZE THEN Goto(u, r) ELSE Goto(u, e)
    BY <1>16, <2>1 DEF StoreCursor
  <2>3. cursor_pos' = cursor_pos + 1
    <3>1. \A x \in 0 .. 254 : (x + 1) % 256 = x + 1
      OBVIOUS
    <3>2. cursor_pos \in 0 .. 254
      BY <2>0
    <3> QED BY <2>2, <3>1, <3>2
  <2>4. s.n = t.n
    BY <1>1 DEF Calls
  <2>5. r.at = "glyph" /\ r.n = t.n + 1 /\ e.at = "string"
    BY <1>1, <2>4 DEF Calls
  <2> HIDE DEF s, r, e
  <2>6. CASE t.n < SSD1306_DEF_FONT_SIZE
    <3>1. call'[u] = r
      BY <1>2, <2>2, <2>4, <2>6
    <3>2. Room(call[u])'
      BY <2>0, <2>3, <2>5, <2>6, <3>1 DEF Room
    <3>3. line_num \in Pages => Sync'
      BY <2>0, <2>1, <2>2, <2>3, <2>6 DEF Ahead, Sync
    <3> QED BY <1>1, <2>1, <2>2, <2>5, <3>1, <3>2, <3>3 DEF Phase
  <2>7. CASE ~(t.n < SSD1306_DEF_FONT_SIZE)
    <3>1. call'[u] = e
      BY <1>2, <2>2, <2>4, <2>7
    <3>2. StringPhase'
      BY <2>0, <2>1, <2>2, <2>3 DEF Ahead, StringPhase, Sync
    <3> QED BY <1>1, <2>1, <2>2, <2>5, <3>1, <3>2 DEF Phase
  <2> QED BY <2>6, <2>7
<1>17. ASSUME FillByte(u)
       PROVE  Goal
  <2> DEFINE r == [t EXCEPT !.n = @ + 1]
  <2>1. /\ t.at = "fill" /\ t.then \in {"idle", "probed", "off"}
        /\ hw.need = 0 /\ hw.mode = 0
    BY <1>1, <1>17 DEF FillByte, At, Phase
  <2>2. call'[u] \in {r, Resume(t)} /\ hw' = Advance(hw)
    BY <1>1, <1>2, <1>17 DEF FillByte, SendData
  <2>3. r.at = "fill" /\ r.then = t.then
    BY <1>1, <2>1, CountUp
  <2>4. Resume(t).at = t.then
    BY <1>1, <2>1 DEF Resume, Idle, Calls
  <2> HIDE DEF r
  <2>5. hw'.need = 0 /\ hw'.mode = 0 /\ hw'.colEnd = hw.colEnd
    BY <1>1, <2>1, <2>2, AdvanceKeeps
  <2> QED BY <1>1, <2>1, <2>2, <2>3, <2>4, <2>5 DEF Phase
<1>18. ASSUME SendInitByte(u)
       PROVE  Goal
  <2>1. t.at = "init" /\ t.n \in 1 .. 26 /\ InitPhase(t)
    BY <1>1, <1>18 DEF SendInitByte, At, Phase, CallOK
  <2>2. hw' = Command(hw, InitBytes[t.n])
    BY <1>1, <1>18 DEF SendInitByte, SendCommand
  <2> DEFINE c == Command(hw, InitBytes[t.n])
             m == t.n + 1
  <2>3. /\ c.colEnd = SSD1306_MAX_SEG - 1
        /\ m \in {3, 5, 7, 10, 12, 16, 18, 20, 22} => c.need = 1 /\ c.op = InitBytes[m - 1]
        /\ m \notin {3, 5, 7, 10, 12, 16, 18, 20, 22} => c.need = 0
        /\ m > 12 => c.mode = 0
    BY <1>1, <2>1, InitStep DEF InitPhase
  <2>4. CASE t.n < 26
    <3> DEFINE r == [t EXCEPT !.n = @ + 1]
    <3>1. call'[u] = r
      BY <1>2, <1>18, <2>4, InitLength DEF SendInitByte
    <3>2. r.at = "init" /\ r.n = m
      BY <1>1, <2>1, CountUp
    <3>3. m \in 1 .. 26
      BY <2>1, <2>4
    <3> HIDE DEF r, c, m
    <3>4. InitPhase(call[u])'
      BY <2>2, <2>3, <3>1, <3>2 DEF InitPhase, c
    <3> QED BY <2>2, <2>3, <3>1, <3>2, <3>3, <3>4 DEF Phase, c
  <2>5. CASE t.n = 26
    <3> DEFINE f == [Idle EXCEPT !.at = "fill", !.then = "probed"]
    <3>1. call'[u] = f
      BY <1>2, <1>18, <2>5, InitLength DEF SendInitByte
    <3>2. f.at = "fill" /\ f.then = "probed"
      BY DEF Idle
    <3> HIDE DEF f
    <3> QED BY <2>2, <2>3, <2>5, <3>1, <3>2 DEF Phase
  <2> QED BY <2>1, <2>4, <2>5
<1>19. ASSUME ProbeDone(u)
       PROVE  Goal
  <2>1. t.at = "probed" /\ drv' = "bound" /\ call'[u] = Idle /\ UNCHANGED hw
    BY <1>2, <1>19 DEF ProbeDone, At
  <2> QED BY <1>1, <2>1 DEF Phase, Idle
<1>20. ASSUME ClearOnRemove(u)
       PROVE  Goal
  <2> DEFINE f == [Idle EXCEPT !.at = "fill", !.then = "off"]
  <2>1. t.at = "clear" /\ call'[u] = f /\ UNCHANGED hw
    BY <1>2, <1>20 DEF ClearOnRemove, At
  <2>2. f.at = "fill" /\ f.then = "off"
    BY DEF Idle
  <2> HIDE DEF f
  <2> QED BY <1>1, <2>1, <2>2 DEF Phase
<1>21. ASSUME SwitchOff(u)
       PROVE  Goal
  <2>1. /\ t.at = "off" /\ drv' = "removed" /\ call'[u] = Idle
        /\ hw' = Command(hw, DisplayOff) /\ hw.need = 0 /\ hw.mode = 0
    BY <1>1, <1>2, <1>21 DEF SwitchOff, SendCommand, At, Phase
  <2>2. hw' = Execute(hw, DisplayOff, DisplayOff)
    <3>1. ArgCount(DisplayOff) = 0
      BY DEF ArgCount, DisplayOff, SetColumns, SetPages, SetMode, Settings
    <3> QED BY <2>1, <3>1 DEF Command
  <2>3. DisplayOff \notin {SetColumns, SetPages, SetMode}
    BY DEF DisplayOff, SetColumns, SetPages, SetMode
  <2>4. hw'.need = 0 /\ hw'.mode = 0 /\ hw'.colEnd = hw.colEnd
    BY <1>1, <2>1, <2>2, <2>3, ExecuteKeeps, ExecuteNeed
  <2> QED BY <1>1, <2>1, <2>4 DEF Phase, Idle
<1>22. ASSUME UNCHANGED vars
       PROVE  Goal
  BY <1>1, <1>22 DEF vars, Phase, InitPhase, SetPhase, CursorPhase, StringPhase, Room, Ahead, Sync
<1> HIDE DEF Goal
<1>23. Goal
  BY <1>5, <1>6, <1>7, <1>8, <1>9, <1>10, <1>11, <1>12, <1>13, <1>14, <1>15, <1>16, <1>17,
     <1>18, <1>19, <1>20, <1>21, <1>22 DEF Next, Begin, Continue
<1>24. TypeInv'
  BY TypeInvNext DEF SoleInv
<1> QED BY <1>23, <1>24 DEF SoleInv, Goal

\* The inductive invariant: until a transfer fails, what a sole user relies on.
UntilLoss(u) == TypeInv /\ (lost = 0 => SoleInv(u))

LEMMA UntilLossInvariant ==
  ASSUME NEW u, Writers = {u}
  PROVE  /\ Init => UntilLoss(u)
         /\ UntilLoss(u) /\ [Next]_vars => UntilLoss(u)'
<1>1. Init => UntilLoss(u)
  BY SoleInit DEF UntilLoss, SoleInv
<1>2. ASSUME UntilLoss(u), [Next]_vars PROVE UntilLoss(u)'
  <2>1. TypeInv'
    BY <1>2, TypeInvNext DEF UntilLoss
  <2>2. ASSUME lost' = 0 PROVE SoleInv(u)'
    <3>1. SoleInv(u) /\ lost' = lost
      BY <1>2, <2>2, NoLoss DEF UntilLoss
    <3> QED BY <1>2, <2>2, <3>1, SoleNext
  <2> QED BY <2>1, <2>2 DEF UntilLoss
<1> QED BY <1>1, <1>2

\* On any panel, with any texts and cursor positions: with one user, and until
\* a transfer fails, every column of a glyph lands where the text cursor says.
THEOREM CursorTracksPointer ==
  ASSUME NEW u, Writers = {u}
  PROVE  Spec => []DataAtCursor
<1>1. Init => UntilLoss(u)
  BY UntilLossInvariant
<1>2. UntilLoss(u) /\ [Next]_vars => UntilLoss(u)'
  BY UntilLossInvariant
<1>3. UntilLoss(u) => DataAtCursor
  <2> SUFFICES ASSUME SoleInv(u), At(u, "glyph"), line_num <= SSD1306_MAX_LINE
               PROVE  /\ hw.need = 0 /\ hw.mode = 0
                      /\ hw.page = line_num /\ hw.col = cursor_pos
    BY DEF UntilLoss, DataAtCursor, InStep
  <2>1. line_num \in Pages
    BY PanelAssumption DEF SoleInv, TypeInv, TypeOK, Byte, Pages
  <2> QED BY <2>1 DEF SoleInv, Phase, At, Sync
<1> QED BY <1>1, <1>2, <1>3, PTL DEF Spec

\* The promise of set_cursor's comment, for one user, until a transfer fails.
THEOREM SetCursorReaches ==
  ASSUME NEW u, Writers = {u}
  PROVE  Spec => SetCursorMoves
<1> DEFINE Moves == \A w \in Writers :
                      At(w, "cursor") /\ ~At(w, "cursor")' /\ lost' = 0 =>
                        hw'.page = call[w].line /\ hw'.col = call[w].pos
<1>1. Init => UntilLoss(u)
  BY UntilLossInvariant
<1>2. UntilLoss(u) /\ [Next]_vars => UntilLoss(u)'
  BY UntilLossInvariant
<1>3. UntilLoss(u) /\ [Next]_vars => [Moves]_vars
  <2> SUFFICES ASSUME SoleInv(u), Next, lost' = 0, At(u, "cursor"), ~At(u, "cursor")'
               PROVE  hw'.page = call[u].line /\ hw'.col = call[u].pos
    BY NoLoss DEF UntilLoss
  <2>1. SendCursorByte(u)
    BY DEF Next, Begin, Continue, At, Ready, CursorPosStore, LineNumStore, CommandStore,
       MessageStore, Probe, Remove, SetCursor, PrintChar, GoToNextLine, WriteColumn, LoadCursor,
       StoreCursor, FillByte, SendInitByte, ProbeDone, ClearOnRemove, SwitchOff
  <2>2. /\ call[u] \in Calls /\ call[u].n \in 1 .. 6 /\ CursorPhase(call[u]) /\ hw.mode = 0
        /\ TypeInv /\ hw.colEnd = SSD1306_MAX_SEG - 1 /\ ~Lose
    BY NoLoss DEF SoleInv, Phase, At, TypeInv, TypeOK, CallOK
  <2>3. hw' = Command(hw, CursorByte(call[u].n)) /\ UNCHANGED <<line_num, cursor_pos>>
    BY <2>1, <2>2 DEF SendCursorByte, SendCommand
  <2>4. call[u].n = 6
    <3>1. CASE call[u].n < 6
      <4> DEFINE r == [call[u] EXCEPT !.n = @ + 1]
      <4>1. call'[u] = r
        BY <2>1, <2>2, <3>1 DEF SendCursorByte, Goto, TypeInv, TypeOK
      <4>2. r.at = call[u].at
        BY <2>2, CountUp
      <4> QED BY <4>1, <4>2 DEF At
    <3> QED BY <2>2, <3>1
  <2>5. hw'.page = line_num /\ hw'.col = cursor_pos
    BY <2>2, <2>3, <2>4, CursorStep
  <2> QED BY <2>2, <2>5 DEF CursorPhase
<1> QED BY <1>1, <1>2, <1>3, PTL DEF Spec, SetCursorMoves
----------------------------------------------------------------------------
(***************************************************************************)
(* One user: until a transfer fails, probe and remove blank the panel.     *)
(***************************************************************************)

\* The window is the whole panel and the pointer at its first cell.
Window == hw.colStart = 0 /\ hw.pageStart = 0 /\ hw.pageEnd = SSD1306_MAX_LINE
Origin == Window /\ hw.col = 0 /\ hw.page = 0

Before(cell) == cell[1] < hw.page \/ (cell[1] = hw.page /\ cell[2] < hw.col)

\* ssd1306_fill on its way: it has written what lies before the pointer.
Filling(t) ==
  /\ Window /\ t.data = Blank
  /\ t.n = hw.page * SSD1306_MAX_SEG + hw.col
  /\ \A cell \in Cells : Before(cell) => gddram[cell] = Blank

Blanking(t) ==
  /\ drv = "unbound" => t.at = "idle" /\ Origin
  /\ t.at \in {"init", "clear"} => Origin
  /\ t.at = "set" /\ t.then = "clear" => t.line = 0 /\ t.pos = 0
  /\ t.at = "cursor" /\ t.then = "clear" =>
       /\ line_num = 0 /\ cursor_pos = 0
       /\ t.n \in 4 .. 6 => hw.colStart = 0
  /\ t.at = "fill" /\ t.then \in {"probed", "off"} => Filling(t)
  /\ t.at \in {"probed", "off"} => \A cell \in Cells : gddram[cell] = Blank

LEMMA LastCell ==
  ASSUME NEW p \in Pages, NEW c \in Columns
  PROVE  /\ p * SSD1306_MAX_SEG + c < Total
         /\ p * SSD1306_MAX_SEG + c + 1 = Total <=> p = SSD1306_MAX_LINE /\ c = SSD1306_MAX_SEG - 1
         /\ (p + 1) * SSD1306_MAX_SEG + 0 = p * SSD1306_MAX_SEG + (SSD1306_MAX_SEG - 1) + 1
<1>1. SSD1306_MAX_SEG \in Nat /\ c \in Int /\ 0 <= c /\ c < SSD1306_MAX_SEG
  BY PanelAssumption DEF Columns
<1>2. CASE SSD1306_MAX_LINE = 0
  <2>1. p = 0
    BY <1>2 DEF Pages
  <2> QED BY <1>1, <1>2, <2>1 DEF Total
<1>3. CASE SSD1306_MAX_LINE = 1
  <2>1. p = 0 \/ p = 1
    BY <1>3 DEF Pages
  <2> QED BY <1>1, <1>3, <2>1 DEF Total
<1>4. CASE SSD1306_MAX_LINE = 3
  <2>1. p = 0 \/ p = 1 \/ p = 2 \/ p = 3
    BY <1>4 DEF Pages
  <2> QED BY <1>1, <1>4, <2>1 DEF Total
<1>5. CASE SSD1306_MAX_LINE = 7
  <2>1. p = 0 \/ p = 1 \/ p = 2 \/ p = 3 \/ p = 4 \/ p = 5 \/ p = 6 \/ p = 7
    BY <1>5 DEF Pages
  <2> QED BY <1>1, <1>5, <2>1 DEF Total
<1> QED BY <1>2, <1>3, <1>4, <1>5, PanelAssumption

\* A data byte in the full window moves the pointer to the next cell.
LEMMA NextCell ==
  ASSUME hw \in Controller, Window, hw.colEnd = SSD1306_MAX_SEG - 1, hw.mode = 0,
         hw' = Advance(hw)
  PROVE  /\ Window'
         /\ hw.col < SSD1306_MAX_SEG - 1 => hw'.col = hw.col + 1 /\ hw'.page = hw.page
         /\ hw.col = SSD1306_MAX_SEG - 1 /\ hw.page < SSD1306_MAX_LINE =>
              hw'.col = 0 /\ hw'.page = hw.page + 1
<1>1. hw.col \in Columns /\ hw.page \in Pages
  BY DEF Controller
<1>2. CASE hw.col # hw.colEnd
  <2>1. hw' = [hw EXCEPT !.col = (hw.col + 1) % SSD1306_MAX_SEG]
    BY <1>2 DEF Advance
  <2>2. hw.col + 1 \in Columns
    BY <1>1, <1>2, PanelAssumption DEF Columns
  <2>3. (hw.col + 1) % SSD1306_MAX_SEG = hw.col + 1
    BY <2>2, PanelSmallMod
  <2>4. hw' = [hw EXCEPT !.col = hw.col + 1]
    BY <2>1, <2>3
  <2> QED BY <1>2, <2>4 DEF Controller, Window
<1>3. CASE hw.col = hw.colEnd
  <2> DEFINE y == IF hw.page = hw.pageEnd THEN hw.pageStart
                  ELSE (hw.page + 1) % (SSD1306_MAX_LINE + 1)
  <2>1. hw' = [hw EXCEPT !.col = hw.colStart, !.page = y]
    BY <1>3 DEF Advance
  <2>2. hw.page < SSD1306_MAX_LINE => y = hw.page + 1
    <3>1. SUFFICES ASSUME hw.page < SSD1306_MAX_LINE PROVE y = hw.page + 1
      OBVIOUS
    <3>2. hw.page + 1 \in Pages /\ hw.page # SSD1306_MAX_LINE
      BY <1>1, <3>1, PanelAssumption DEF Pages
    <3>3. (hw.page + 1) % (SSD1306_MAX_LINE + 1) = hw.page + 1
      BY <3>2, PanelSmallMod
    <3> QED BY <3>2, <3>3 DEF Window
  <2> HIDE DEF y
  <2>3. /\ hw'.colStart = hw.colStart /\ hw'.pageStart = hw.pageStart
        /\ hw'.pageEnd = hw.pageEnd /\ hw'.col = hw.colStart /\ hw'.page = y
    BY <2>1 DEF Controller
  <2>4. ~(hw.col < SSD1306_MAX_SEG - 1)
    BY <1>1, <1>3, PanelAssumption DEF Columns
  <2> QED BY <2>2, <2>3, <2>4 DEF Window
<1> QED BY <1>2, <1>3

\* One byte of ssd1306_fill.
LEMMA FillStep ==
  ASSUME TypeInv, NEW t \in Calls, Filling(t), hw.colEnd = SSD1306_MAX_SEG - 1, hw.mode = 0,
         gddram' = [gddram EXCEPT ![<<hw.page, hw.col>>] = t.data], hw' = Advance(hw)
  PROVE  /\ t.n + 1 < Total =>
              /\ Window' /\ t.n + 1 = hw'.page * SSD1306_MAX_SEG + hw'.col
              /\ \A cell \in Cells : Before(cell)' => gddram'[cell] = Blank
         /\ ~(t.n + 1 < Total) => \A cell \in Cells : gddram'[cell] = Blank
<1> DEFINE p == hw.page
           c == hw.col
<1>1. hw \in Controller /\ p \in Pages /\ c \in Columns /\ gddram \in [Cells -> Byte]
  BY DEF TypeInv, TypeOK, Controller
<1>2. \A cell \in Cells : Before(cell) \/ cell = <<p, c>> => gddram'[cell] = Blank
  BY <1>1, Zenon DEF Filling
<1>3. /\ t.n = p * SSD1306_MAX_SEG + c /\ Window
  BY DEF Filling
<1>4. /\ SSD1306_MAX_SEG \in Int /\ SSD1306_MAX_LINE \in Int
      /\ p \in Int /\ 0 <= p /\ p <= SSD1306_MAX_LINE
      /\ c \in Int /\ 0 <= c /\ c <= SSD1306_MAX_SEG - 1
  BY <1>1, PanelAssumption DEF Pages, Columns
<1>5. p = SSD1306_MAX_LINE /\ c = SSD1306_MAX_SEG - 1 <=> ~(t.n + 1 < Total)
  <2>1. Total \in Int
    BY <1>4 DEF Total
  <2>2. t.n \in Int /\ t.n < Total
    BY <1>1, <1>3, LastCell DEF Calls
  <2>3. t.n + 1 = Total <=> p = SSD1306_MAX_LINE /\ c = SSD1306_MAX_SEG - 1
    BY <1>1, <1>3, LastCell
  <2> QED BY <2>1, <2>2, <2>3
<1>6. \A cell \in Cells :
        /\ cell[1] \in Int /\ 0 <= cell[1] /\ cell[1] <= SSD1306_MAX_LINE
        /\ cell[2] \in Int /\ 0 <= cell[2] /\ cell[2] <= SSD1306_MAX_SEG - 1
        /\ cell[1] = p /\ cell[2] = c => cell = <<p, c>>
  BY PanelAssumption DEF Cells, Pages, Columns
<1>7. CASE c < SSD1306_MAX_SEG - 1
  <2>1. Window' /\ hw'.col = c + 1 /\ hw'.page = p
    BY <1>1, <1>3, <1>7, NextCell
  <2>2. t.n + 1 < Total
    BY <1>4, <1>5, <1>7
  <2>3. t.n + 1 = hw'.page * SSD1306_MAX_SEG + hw'.col
    <3>1. \A x \in Int : x + c + 1 = x + (c + 1)
      BY <1>4
    <3>2. p * SSD1306_MAX_SEG \in Int
      BY <1>4
    <3> QED BY <1>3, <2>1, <3>1, <3>2
  <2>4. \A cell \in Cells : Before(cell)' => Before(cell) \/ cell = <<p, c>>
    BY <1>4, <1>6, <2>1 DEF Before
  <2> QED BY <1>2, <2>1, <2>2, <2>3, <2>4
<1>8. CASE c = SSD1306_MAX_SEG - 1 /\ p < SSD1306_MAX_LINE
  <2>1. Window' /\ hw'.col = 0 /\ hw'.page = p + 1
    BY <1>1, <1>3, <1>8, NextCell
  <2>2. t.n + 1 < Total
    BY <1>4, <1>5, <1>8
  <2>3. t.n + 1 = hw'.page * SSD1306_MAX_SEG + hw'.col
    BY <1>1, <1>3, <1>8, <2>1, LastCell
  <2>4. \A cell \in Cells : Before(cell)' => Before(cell) \/ cell = <<p, c>>
    BY <1>4, <1>6, <1>8, <2>1 DEF Before
  <2> QED BY <1>2, <2>1, <2>2, <2>3, <2>4
<1>9. CASE c = SSD1306_MAX_SEG - 1 /\ p = SSD1306_MAX_LINE
  <2>1. ~(t.n + 1 < Total)
    BY <1>5, <1>9
  <2>2. \A cell \in Cells : Before(cell) \/ cell = <<p, c>>
    BY <1>4, <1>6, <1>9 DEF Before
  <2> QED BY <1>2, <2>1, <2>2, Zenon
<1> QED BY <1>4, <1>7, <1>8, <1>9

\* The start of ssd1306_fill from the first cell: nothing lies before it.
LEMMA FillBegins ==
  ASSUME Origin', NEW t, t.n = 0, t.data = Blank
  PROVE  Filling(t)'
<1>1. \A cell \in Cells : ~Before(cell)'
  BY PanelAssumption DEF Before, Origin, Cells, Pages, Columns
<1>2. 0 = 0 * SSD1306_MAX_SEG + 0
  BY PanelAssumption
<1> QED BY <1>1, <1>2, Zenon DEF Filling, Origin

\* Commands other than the two that set a window leave it alone.
LEMMA ExecuteWindow ==
  ASSUME NEW h \in Controller, NEW b, NEW op, op \notin {SetColumns, SetPages}
  PROVE  LET e == Execute(h, op, b)
         IN  /\ e.colStart = h.colStart /\ e.col = h.col
             /\ e.pageStart = h.pageStart /\ e.pageEnd = h.pageEnd /\ e.page = h.page
  BY DEF Execute, Controller, StartLines, DisplayOff, DisplayOn, SetMode

\* Nor does a byte that is not the last of one of those two.
LEMMA CommandWindow ==
  ASSUME NEW h \in Controller, NEW b \in Byte,
         h.need = 1 => h.op \notin {SetColumns, SetPages}
  PROVE  LET e == Command(h, b)
         IN  /\ e.colStart = h.colStart /\ e.col = h.col
             /\ e.pageStart = h.pageStart /\ e.pageEnd = h.pageEnd /\ e.page = h.page
<1>1. CASE h.need = 2
  <2>1. Command(h, b) = [h EXCEPT !.need = 1, !.first = b]
    BY <1>1 DEF Command
  <2> QED BY <2>1 DEF Controller
<1>2. CASE h.need = 1
  <2>1. Command(h, b) = Execute(h, h.op, b)
    BY <1>2 DEF Command
  <2> QED BY <1>2, <2>1, ExecuteWindow
<1>3. CASE h.need \notin {1, 2} /\ ArgCount(b) = 0
  <2>1. Command(h, b) = Execute(h, b, b)
    BY <1>3 DEF Command
  <2>2. b \notin {SetColumns, SetPages}
    BY <1>3 DEF ArgCount
  <2> QED BY <2>1, <2>2, ExecuteWindow
<1>4. CASE h.need \notin {1, 2} /\ ArgCount(b) # 0
  <2> DEFINE k == ArgCount(b)
  <2>1. Command(h, b) = [h EXCEPT !.op = b, !.need = k]
    BY <1>4 DEF Command
  <2> HIDE DEF k
  <2> QED BY <2>1 DEF Controller
<1> QED BY <1>1, <1>2, <1>3, <1>4

\* The two windows of set_cursor.
LEMMA WindowColumns ==
  ASSUME NEW h \in Controller, NEW b \in Columns, h.need = 1, h.op = SetColumns,
         h.first \in Columns
  PROVE  LET c == Command(h, b)
         IN  c.colStart = h.first /\ c.pageStart = h.pageStart /\ c.pageEnd = h.pageEnd
<1>1. h.first % SSD1306_MAX_SEG = h.first /\ b % SSD1306_MAX_SEG = b
  BY PanelSmallMod
<1>2. Command(h, b) =
        [h EXCEPT !.need = 0, !.colStart = h.first, !.col = h.first, !.colEnd = b]
  <2>1. Command(h, b) = Execute(h, SetColumns, b)
    BY DEF Command
  <2>2. Execute(h, SetColumns, b) =
          [h EXCEPT !.need = 0, !.colStart = h.first % SSD1306_MAX_SEG,
                    !.col = h.first % SSD1306_MAX_SEG, !.colEnd = b % SSD1306_MAX_SEG]
    BY DEF Execute, SetColumns, SetPages, SetMode, StartLines, DisplayOff, DisplayOn
  <2> QED BY <1>1, <2>1, <2>2
<1> QED BY <1>2 DEF Controller

LEMMA WindowPages ==
  ASSUME NEW h \in Controller, NEW b \in Pages, h.need = 1, h.op = SetPages,
         h.first \in Pages
  PROVE  LET c == Command(h, b)
         IN  /\ c.pageStart = h.first /\ c.pageEnd = b /\ c.page = h.first
             /\ c.colStart = h.colStart /\ c.col = h.col
<1>1. h.first % (SSD1306_MAX_LINE + 1) = h.first /\ b % (SSD1306_MAX_LINE + 1) = b
  BY PanelSmallMod
<1>2. Command(h, b) =
        [h EXCEPT !.need = 0, !.pageStart = h.first, !.page = h.first, !.pageEnd = b]
  <2>1. Command(h, b) = Execute(h, SetPages, b)
    BY DEF Command
  <2>2. Execute(h, SetPages, b) =
          [h EXCEPT !.need = 0, !.pageStart = h.first % (SSD1306_MAX_LINE + 1),
                    !.page = h.first % (SSD1306_MAX_LINE + 1),
                    !.pageEnd = b % (SSD1306_MAX_LINE + 1)]
    BY DEF Execute, SetColumns, SetPages, SetMode, StartLines, DisplayOff, DisplayOn
  <2> QED BY <1>1, <2>1, <2>2
<1> QED BY <1>2 DEF Controller

LEMMA BlankingInit ==
  ASSUME NEW u \in Writers, Init
  PROVE  Blanking(call[u])
<1>1. call[u] = Idle /\ hw = PowerOn
  BY DEF Init
<1>2. Idle.at = "idle" /\ Idle.then = "idle"
  BY DEF Idle
<1>3. Origin
  BY <1>1 DEF PowerOn, Origin, Window
<1> QED BY <1>1, <1>2, <1>3 DEF Blanking

LEMMA BlankingNext ==
  ASSUME NEW u \in Writers, Writers = {u}, SoleInv(u), Blanking(call[u]), [Next]_vars,
         lost' = 0
  PROVE  Blanking(call[u])'
<1> DEFINE t == call[u]
           Goal == Blanking(call[u])'
           Away(r) == /\ r.at \notin {"init", "clear", "probed", "off"}
                      /\ ~(r.at = "set" /\ r.then = "clear")
                      /\ ~(r.at = "cursor" /\ r.then = "clear")
                      /\ ~(r.at = "fill" /\ r.then \in {"probed", "off"})
<1>1. /\ t \in Calls /\ CallOK(t) /\ Phase(t) /\ TypeInv /\ Blanking(t)
      /\ hw.colEnd = SSD1306_MAX_SEG - 1
      /\ hw \in Controller /\ ~Lose
  BY NoLoss DEF SoleInv, TypeInv, TypeOK
<1>2. \A r : Goto(u, r) => call'[u] = r
  BY DEF SoleInv, TypeInv, TypeOK, Goto
<1>3. t.at # "idle" => drv # "unbound"
  BY <1>1 DEF Blanking
<1>4. ASSUME Away(call'[u]), drv' # "unbound" PROVE Goal
  BY <1>4 DEF Blanking
<1>5. ASSUME NEW value, \/ CursorPosStore(u, value) \/ LineNumStore(u, value)
      PROVE  Goal
  <2>1. t.at = "idle" /\ drv # "unbound" /\ call' = call /\ drv' = drv
    BY <1>5 DEF CursorPosStore, LineNumStore, Ready, At
  <2>2. Away(call'[u])
    BY <2>1
  <2> QED BY <1>4, <2>1, <2>2
<1>6. ASSUME NEW value, CommandStore(u, value)
      PROVE  Goal
  <2> DEFINE r == [Idle EXCEPT !.at = "fill", !.data = value % 256]
  <2>1. call'[u] = r /\ drv' # "unbound"
    BY <1>2, <1>6 DEF CommandStore, Ready
  <2>2. Away(r)
    BY DEF Idle
  <2> QED BY <1>4, <2>1, <2>2
<1>7. ASSUME NEW str, MessageStore(u, str)
      PROVE  Goal
  <2> DEFINE r == [Idle EXCEPT !.at = "set", !.line = line_num, !.pos = cursor_pos,
                               !.then = "string", !.rest = str]
  <2>1. call'[u] = r /\ drv' # "unbound"
    BY <1>2, <1>7 DEF MessageStore, Ready
  <2>2. Away(r)
    BY DEF Idle
  <2> QED BY <1>4, <2>1, <2>2
<1>8. ASSUME Probe(u)
      PROVE  Goal
  <2> DEFINE r == [Idle EXCEPT !.at = "init", !.n = 1]
  <2>1. drv = "unbound" /\ drv' = "probing" /\ call'[u] = r /\ hw' = hw
    BY <1>2, <1>8 DEF Probe
  <2>2. r.at = "init"
    BY DEF Idle
  <2>3. Origin'
    BY <1>1, <2>1 DEF Blanking, Origin, Window
  <2> HIDE DEF r
  <2> QED BY <2>1, <2>2, <2>3 DEF Blanking
<1>9. ASSUME Remove(u)
      PROVE  Goal
  <2> DEFINE r == [Idle EXCEPT !.at = "set", !.then = "clear"]
  <2>1. drv' = "removing" /\ call'[u] = r
    BY <1>2, <1>9 DEF Remove
  <2>2. r.at = "set" /\ r.line = 0 /\ r.pos = 0
    BY DEF Idle
  <2> HIDE DEF r
  <2> QED BY <2>1, <2>2 DEF Blanking
<1>10. ASSUME SetCursor(u)
       PROVE  Goal
  <2>1. /\ t.at = "set" /\ t.then \in {"string", "glyph", "clear"} /\ drv' # "unbound"
        /\ t.then = "clear" => t.line = 0 /\ t.pos = 0
    BY <1>1, <1>3, <1>10 DEF SetCursor, At, Phase, SetPhase, Blanking
  <2>2. CASE t.line <= SSD1306_MAX_LINE /\ t.pos < SSD1306_MAX_SEG
    <3> DEFINE r == [t EXCEPT !.at = "cursor", !.n = 1]
    <3>1. line_num' = t.line /\ cursor_pos' = t.pos /\ call'[u] = r
      BY <1>2, <1>10, <2>2 DEF SetCursor
    <3>2. r.at = "cursor" /\ r.n = 1 /\ r.then = t.then
      BY <1>1 DEF Calls
    <3> HIDE DEF r
    <3> QED BY <2>1, <3>1, <3>2 DEF Blanking
  <2>3. CASE ~(t.line <= SSD1306_MAX_LINE /\ t.pos < SSD1306_MAX_SEG)
    <3>1. call'[u] = Resume(t)
      BY <1>2, <1>10, <2>3 DEF SetCursor
    <3>2. t.then \in {"string", "glyph"}
      BY <2>1, <2>3, PanelAssumption
    <3>3. Resume(t).at = t.then
      BY <1>1, <3>2 DEF Resume, Calls
    <3>4. Away(call'[u])
      BY <3>1, <3>2, <3>3
    <3> QED BY <1>4, <2>1, <3>4
  <2> QED BY <2>2, <2>3
<1>11. ASSUME SendCursorByte(u)
       PROVE  Goal
  <2>1. /\ t.at = "cursor" /\ t.n \in 1 .. 6 /\ CursorPhase(t) /\ hw.mode = 0
        /\ t.then \in {"string", "glyph", "clear"} /\ drv' # "unbound"
    BY <1>1, <1>3, <1>11 DEF SendCursorByte, At, Phase, CallOK, CursorPhase
  <2>2. hw' = Command(hw, CursorByte(t.n)) /\ UNCHANGED <<line_num, cursor_pos>>
    BY <1>1, <1>11 DEF SendCursorByte, SendCommand
  <2>3. CASE t.n < 6
    <3> DEFINE r == [t EXCEPT !.n = @ + 1]
    <3>1. call'[u] = r
      BY <1>2, <1>11, <2>3 DEF SendCursorByte
    <3>2. r.n = t.n + 1 /\ r.at = "cursor" /\ r.then = t.then
      BY <1>1, <2>1, CountUp
    <3> HIDE DEF r
    <3>3. CASE t.then # "clear"
      <4>1. Away(call'[u])
        BY <3>1, <3>2, <3>3
      <4> QED BY <1>4, <2>1, <4>1
    <3>4. CASE t.then = "clear"
      <4>1. /\ line_num = 0 /\ cursor_pos = 0
            /\ t.n \in 4 .. 6 => hw.colStart = 0
        BY <1>1, <2>1, <3>4 DEF Blanking
      <4>2. r.n \in 4 .. 6 => hw'.colStart = 0
        <5>1. CASE t.n = 3
          <6>1. /\ hw.need = 1 /\ hw.op = SetColumns /\ hw.first = 0
                /\ CursorByte(t.n) = SSD1306_MAX_SEG - 1
            BY <2>1, <4>1, <5>1 DEF CursorPhase, CursorByte
          <6>2. 0 \in Columns /\ SSD1306_MAX_SEG - 1 \in Columns
            BY PanelAssumption DEF Columns
          <6> QED BY <1>1, <2>2, <6>1, <6>2, WindowColumns
        <5>2. CASE t.n \in {4, 5}
          <6>1. hw.need # 1 /\ CursorByte(t.n) \in Byte
            BY <1>1, <2>1, <5>2, CursorByteTyped DEF CursorPhase, TypeInv, TypeOK
          <6> QED BY <1>1, <2>2, <4>1, <5>2, <6>1, CommandWindow
        <5>3. CASE t.n \in {1, 2}
          BY <3>2, <5>3
        <5> QED BY <2>1, <2>3, <5>1, <5>2, <5>3
      <4> QED BY <2>1, <2>2, <3>1, <3>2, <4>1, <4>2 DEF Blanking
    <3> QED BY <3>3, <3>4
  <2>4. CASE t.n = 6
    <3>1. call'[u] = Resume(t)
      BY <1>2, <1>11, <2>4 DEF SendCursorByte
    <3>2. Resume(t).at = t.then
      BY <1>1, <2>1 DEF Resume, Calls
    <3>3. CASE t.then # "clear"
      <4>1. Away(call'[u])
        BY <2>1, <3>1, <3>2, <3>3
      <4> QED BY <1>4, <2>1, <4>1
    <3>4. CASE t.then = "clear"
      <4>1. line_num = 0 /\ cursor_pos = 0 /\ hw.colStart = 0
        BY <1>1, <2>1, <2>4, <3>4 DEF Blanking
      <4>2. /\ hw.need = 1 /\ hw.op = SetPages /\ hw.first = 0 /\ hw.col = 0
            /\ CursorByte(t.n) = SSD1306_MAX_LINE
        BY <2>1, <2>4, <4>1 DEF CursorPhase, CursorByte
      <4>3. 0 \in Pages /\ SSD1306_MAX_LINE \in Pages
        BY PanelAssumption DEF Pages
      <4>4. Origin'
        BY <1>1, <2>2, <4>1, <4>2, <4>3, WindowPages DEF Origin, Window
      <4>5. call'[u].at = "clear"
        BY <3>1, <3>2, <3>4
      <4> QED BY <2>1, <4>4, <4>5 DEF Blanking
    <3> QED BY <3>3, <3>4
  <2> QED BY <2>1, <2>3, <2>4
<1>12. ASSUME PrintChar(u)
       PROVE  Goal
  <2> DEFINE r == [t EXCEPT !.at = "newline", !.reg = line_num]
             g == [t EXCEPT !.at = "glyph", !.n = 0]
  <2>1. /\ call'[u] = Idle \/ call'[u] = r \/ call'[u] = g
        /\ drv' # "unbound"
    BY <1>2, <1>3, <1>12 DEF PrintChar, At
  <2>2. Away(Idle) /\ Away(r) /\ Away(g)
    BY <1>1 DEF Idle, Calls
  <2> HIDE DEF r, g
  <2> QED BY <1>4, <2>1, <2>2
<1>13. ASSUME GoToNextLine(u)
       PROVE  Goal
  <2> DEFINE k == ((t.reg + 1) % 256) % (SSD1306_MAX_LINE + 1)
             s == [t EXCEPT !.at = "set", !.line = k, !.pos = 0, !.reg = 0]
             r == [s EXCEPT !.then = "string", !.rest = Tail(s.rest)]
             g == [s EXCEPT !.then = "glyph"]
  <2>1. /\ Goto(u, r) \/ Goto(u, g)
        /\ drv' = drv /\ t.at = "newline"
    BY <1>13, Zenon DEF GoToNextLine, At
  <2> HIDE DEF k
  <2>2. /\ s.at = "set"
    BY <1>1 DEF Calls
  <2>3. Away(r) /\ Away(g)
    BY <1>1 DEF Calls
  <2> HIDE DEF s, r, g
  <2> QED BY <1>2, <1>3, <1>4, <2>1, <2>3
<1>14. ASSUME WriteColumn(u) \/ LoadCursor(u)
       PROVE  Goal
  <2> DEFINE r == [t EXCEPT !.at = "load"]
             e == [t EXCEPT !.at = "store", !.reg = cursor_pos]
  <2>1. (call'[u] = r \/ call'[u] = e) /\ drv' # "unbound"
    BY <1>2, <1>3, <1>14 DEF WriteColumn, LoadCursor, At
  <2>2. Away(r) /\ Away(e)
    BY <1>1 DEF Calls
  <2> HIDE DEF r, e
  <2> QED BY <1>4, <2>1, <2>2
<1>15. ASSUME StoreCursor(u)
       PROVE  Goal
  <2> DEFINE s == [t EXCEPT !.reg = 0]
             r == [s EXCEPT !.at = "glyph", !.n = s.n + 1]
             e == [s EXCEPT !.at = "string", !.then = "idle", !.n = 0,
                            !.line = 0, !.pos = 0, !.rest = Tail(s.rest)]
  <2>1. (Goto(u, r) \/ Goto(u, e)) /\ drv' # "unbound"
    BY <1>3, <1>15 DEF StoreCursor, At
  <2>2. Away(r) /\ Away(e)
    BY <1>1 DEF Calls
  <2> HIDE DEF s, r, e
  <2> QED BY <1>2, <1>4, <2>1, <2>2
<1>16. ASSUME FillByte(u)
       PROVE  Goal
  <2> DEFINE r == [t EXCEPT !.n = @ + 1]
  <2>1. /\ t.at = "fill" /\ t.then \in {"idle", "probed", "off"} /\ drv' # "unbound"
        /\ hw.mode = 0
    BY <1>1, <1>3, <1>16 DEF FillByte, At, Phase
  <2>2. /\ call'[u] = IF t.n + 1 < Total THEN r ELSE Resume(t)
        /\ gddram' = [gddram EXCEPT ![<<hw.page, hw.col>>] = t.data]
        /\ hw' = Advance(hw)
    BY <1>1, <1>2, <1>16 DEF FillByte, SendData
  <2>3. r.at = "fill" /\ r.then = t.then /\ r.n = t.n + 1 /\ r.data = t.data
    <3>1. r.data = t.data
      BY <1>1 DEF Calls
    <3> QED BY <1>1, <2>1, <3>1, CountUp
  <2>4. /\ t.then = "idle" => Resume(t).at = "idle"
        /\ t.then # "idle" => Resume(t).at = t.then
    BY <1>1 DEF Resume, Idle, Calls
  <2> HIDE DEF r
  <2>5. CASE t.then = "idle"
    <3>1. Away(call'[u])
      BY <2>2, <2>3, <2>4, <2>5
    <3> QED BY <1>4, <2>1, <3>1
  <2>6. CASE t.then \in {"probed", "off"}
    <3>1. Filling(t)
      BY <1>1, <2>1, <2>6 DEF Blanking
    <3>2. /\ t.n + 1 < Total =>
                /\ Window' /\ t.n + 1 = hw'.page * SSD1306_MAX_SEG + hw'.col
                /\ \A cell \in Cells : Before(cell)' => gddram'[cell] = Blank
          /\ ~(t.n + 1 < Total) => \A cell \in Cells : gddram'[cell] = Blank
      BY <1>1, <2>1, <2>2, <3>1, FillStep
    <3>3. CASE t.n + 1 < Total
      <4>1. call'[u] = r
        BY <2>2, <3>3
      <4>2. Filling(call[u])'
        BY <2>3, <3>1, <3>2, <3>3, <4>1, Zenon DEF Filling
      <4> QED BY <2>1, <2>3, <4>1, <4>2 DEF Blanking
    <3>4. CASE ~(t.n + 1 < Total)
      <4>1. call'[u].at \in {"probed", "off"}
        BY <2>2, <2>4, <2>6, <3>4
      <4>2. \A cell \in Cells : gddram'[cell] = Blank
        BY <3>2, <3>4
      <4> QED BY <2>1, <4>1, <4>2 DEF Blanking
    <3> QED BY <3>3, <3>4
  <2> QED BY <2>1, <2>5, <2>6
<1>17. ASSUME SendInitByte(u)
       PROVE  Goal
  <2>1. t.at = "init" /\ t.n \in 1 .. 26 /\ InitPhase(t) /\ Origin /\ drv' # "unbound"
    BY <1>1, <1>3, <1>17 DEF SendInitByte, At, Phase, CallOK, Blanking
  <2>2. hw' = Command(hw, InitBytes[t.n])
    BY <1>1, <1>17 DEF SendInitByte, SendCommand
  <2>3. hw.need = 1 => hw.op \notin {SetColumns, SetPages}
    <3>1. CASE t.n \in {3, 5, 7, 10, 12, 16, 18, 20, 22}
      BY <2>1, <3>1 DEF InitPhase, InitBytes, SetColumns, SetPages, SetMode, DisplayOff, DisplayOn
    <3>2. CASE t.n \notin {3, 5, 7, 10, 12, 16, 18, 20, 22}
      BY <2>1, <3>2 DEF InitPhase
    <3> QED BY <3>1, <3>2
  <2>4. Origin'
    <3>1. InitBytes[t.n] \in Byte
      BY <2>1, InitByteTyped
    <3> QED BY <1>1, <2>1, <2>2, <2>3, <3>1, CommandWindow DEF Origin, Window
  <2>5. CASE t.n < 26
    <3> DEFINE r == [t EXCEPT !.n = @ + 1]
    <3>1. call'[u] = r
      BY <1>2, <1>17, <2>5, InitLength DEF SendInitByte
    <3>2. r.at = "init"
      BY <1>1, <2>1, CountUp
    <3> HIDE DEF r
    <3> QED BY <2>1, <2>4, <3>1, <3>2 DEF Blanking
  <2>6. CASE t.n = 26
    <3> DEFINE f == [Idle EXCEPT !.at = "fill", !.then = "probed"]
    <3>1. call'[u] = f
      BY <1>2, <1>17, <2>6, InitLength DEF SendInitByte
    <3>2. f.at = "fill" /\ f.n = 0 /\ f.data = Blank
      BY DEF Idle, Blank
    <3> HIDE DEF f
    <3>3. Filling(call[u])'
      BY <2>4, <3>1, <3>2, FillBegins, Zenon DEF Filling
    <3> QED BY <2>1, <3>1, <3>2, <3>3 DEF Blanking
  <2> QED BY <2>1, <2>5, <2>6
<1>18. ASSUME ProbeDone(u) \/ SwitchOff(u)
       PROVE  Goal
  <2>1. call'[u] = Idle /\ drv' \in {"bound", "removed"}
    BY <1>2, <1>18 DEF ProbeDone, SwitchOff
  <2>2. Away(Idle)
    BY DEF Idle
  <2> QED BY <1>4, <2>1, <2>2
<1>19. ASSUME ClearOnRemove(u)
       PROVE  Goal
  <2> DEFINE f == [Idle EXCEPT !.at = "fill", !.then = "off"]
  <2>1. /\ t.at = "clear" /\ call'[u] = f /\ hw' = hw /\ drv' # "unbound"
        /\ Origin
    BY <1>1, <1>2, <1>3, <1>19 DEF ClearOnRemove, At, Blanking
  <2>2. f.at = "fill" /\ f.n = 0 /\ f.data = Blank
    BY DEF Idle, Blank
  <2> HIDE DEF f
  <2>3. Filling(call[u])'
    <3>1. Origin'
      BY <2>1 DEF Origin, Window
    <3> QED BY <2>1, <2>2, <3>1, FillBegins, Zenon DEF Filling
  <2> QED BY <2>1, <2>2, <2>3 DEF Blanking
<1>20. ASSUME UNCHANGED vars
       PROVE  Goal
  BY <1>1, <1>20 DEF vars, Blanking, Origin, Window, Filling, Before
<1> HIDE DEF Goal
<1>21. Goal
  BY <1>5, <1>6, <1>7, <1>8, <1>9, <1>10, <1>11, <1>12, <1>13, <1>14, <1>15, <1>16, <1>17,
     <1>18, <1>19, <1>20 DEF Next, Begin, Continue
<1> QED BY <1>21 DEF Goal

\* On any panel and for any inputs: with one user, and until a transfer fails,
\* probe and remove leave every cell of the panel blank (ssd1306.c:347, 516).
THEOREM PanelBlanked ==
  ASSUME NEW u, Writers = {u}
  PROVE  Spec => []BlankAfterFill
<1> DEFINE Inv == UntilLoss(u) /\ (lost = 0 => Blanking(call[u]))
<1>1. Init => Inv
  BY UntilLossInvariant, BlankingInit
<1>2. Inv /\ [Next]_vars => Inv'
  <2> SUFFICES ASSUME Inv, [Next]_vars PROVE Inv'
    OBVIOUS
  <2>1. UntilLoss(u)'
    BY UntilLossInvariant
  <2>2. ASSUME lost' = 0 PROVE Blanking(call[u])'
    <3>1. lost = 0
      BY <2>2, NoLoss DEF UntilLoss
    <3> QED BY <2>2, <3>1, BlankingNext DEF UntilLoss
  <2> QED BY <2>1, <2>2
<1>3. Inv => BlankAfterFill
  BY DEF BlankAfterFill, Blanking, At
<1> QED BY <1>1, <1>2, <1>3, PTL DEF Spec
-----------------------------------------------------------------------------
(***************************************************************************)
(* After failures: the command decoder finds its way back, and the next    *)
(* set_cursor in range makes the sole user's invariant hold again.         *)
(***************************************************************************)

\* What holds of the driver's side of set_cursor, whatever the controller has
\* got of it.
DriverOK(t) ==
  /\ t.at # "idle" => drv # "unbound"
  /\ t.at = "set" => SetPhase(t)
  /\ t.at = "cursor" => line_num \in Pages /\ cursor_pos \in Columns

\* Between commands; in a set_cursor, by its last byte.
Framing(t) ==
  /\ t.at # "init"
  /\ t.at = "idle" => drv # "unbound"
  /\ t.at = "cursor" /\ t.n = 6 => hw.need <= 1
  /\ t.at # "cursor" => hw.need = 0

DriverInv(u) == TypeInv /\ DriverOK(call[u])

\* The range check of set_cursor is the panel's size.
LEMMA OnPanel ==
  ASSUME NEW x \in Byte
  PROVE  /\ x <= SSD1306_MAX_LINE => x \in Pages
         /\ x < SSD1306_MAX_SEG => x \in Columns
  BY PanelAssumption DEF Byte, Pages, Columns

\* Where a set_cursor begins, and where the other calls go.
LEMMA Destinations ==
  ASSUME NEW u \in Writers, Writers = {u}, DriverInv(u), [Next]_vars
  PROVE  DriverInv(u)'
<1> DEFINE t == call[u]
<1>1. /\ t \in Calls /\ CallOK(t) /\ DriverOK(t) /\ TypeInv
      /\ line_num \in Byte /\ cursor_pos \in Byte
  BY DEF DriverInv, TypeInv, TypeOK
<1>2. \A r : Goto(u, r) => call'[u] = r
  BY DEF DriverInv, TypeInv, TypeOK, Goto
<1>3. t.at # "idle" => drv # "unbound"
  BY <1>1 DEF DriverOK
<1>4. TypeInv'
  BY TypeInvNext DEF DriverInv
<1> DEFINE Goal == DriverOK(call[u])'
\* Most steps lead neither to a set_cursor nor into one.
<1>5. ASSUME drv' # "unbound" \/ call'[u].at = "idle", call'[u].at \notin {"set", "cursor"}
      PROVE  Goal
  BY <1>5 DEF DriverOK
<1>6. ASSUME NEW value, CursorPosStore(u, value) \/ LineNumStore(u, value)
      PROVE  Goal
  <2>1. t.at = "idle" /\ call' = call
    BY <1>6 DEF CursorPosStore, LineNumStore, Ready, At
  <2> QED BY <1>5, <2>1
<1>7. ASSUME NEW value, CommandStore(u, value)
      PROVE  Goal
  <2> DEFINE r == [Idle EXCEPT !.at = "fill", !.data = value % 256]
  <2>1. drv # "unbound" /\ drv' = drv /\ call'[u] = r
    BY <1>2, <1>7 DEF CommandStore, Ready, At
  <2>2. r.at = "fill"
    BY DEF Idle
  <2> QED BY <1>5, <2>1, <2>2
<1>8. ASSUME NEW str, MessageStore(u, str)
      PROVE  Goal
  <2> DEFINE r == [Idle EXCEPT !.at = "set", !.line = line_num, !.pos = cursor_pos,
                               !.then = "string", !.rest = str]
  <2>1. drv # "unbound" /\ call'[u] = r /\ UNCHANGED <<drv, line_num, cursor_pos>>
    BY <1>2, <1>8 DEF MessageStore, Ready, At
  <2>2. r.at = "set" /\ r.then = "string" /\ r.line = line_num /\ r.pos = cursor_pos
    BY DEF Idle
  <2> HIDE DEF r
  <2> QED BY <2>1, <2>2 DEF DriverOK, SetPhase
<1>9. ASSUME Probe(u)
      PROVE  Goal
  <2> DEFINE r == [Idle EXCEPT !.at = "init", !.n = 1]
  <2>1. drv' = "probing" /\ call'[u] = r
    BY <1>2, <1>9 DEF Probe
  <2>2. r.at = "init"
    BY DEF Idle
  <2> QED BY <1>5, <2>1, <2>2
<1>10. ASSUME Remove(u)
       PROVE  Goal
  <2> DEFINE r == [Idle EXCEPT !.at = "set", !.then = "clear"]
  <2>1. drv' = "removing" /\ call'[u] = r
    BY <1>2, <1>10 DEF Remove
  <2>2. r.at = "set" /\ r.then = "clear"
    BY DEF Idle
  <2> HIDE DEF r
  <2> QED BY <2>1, <2>2 DEF DriverOK, SetPhase
<1>11. ASSUME SetCursor(u)
       PROVE  Goal
  <2>1. /\ t.at = "set" /\ SetPhase(t) /\ drv # "unbound" /\ drv' = drv
        /\ t.line \in Byte /\ t.pos \in Byte
    BY <1>1, <1>3, <1>11 DEF SetCursor, At, DriverOK, Calls
  <2>2. CASE t.line <= SSD1306_MAX_LINE /\ t.pos < SSD1306_MAX_SEG
    <3> DEFINE r == [t EXCEPT !.at = "cursor", !.n = 1]
    <3>1. line_num' = t.line /\ cursor_pos' = t.pos /\ call'[u] = r
      BY <1>2, <1>11, <2>2 DEF SetCursor
    <3>2. r.at = "cursor"
      BY <1>1 DEF Calls
    <3> HIDE DEF r
    <3>3. t.line \in Pages /\ t.pos \in Columns
      BY <2>1, <2>2, OnPanel
    <3> QED BY <2>1, <3>1, <3>2, <3>3 DEF DriverOK
  <2>3. CASE ~(t.line <= SSD1306_MAX_LINE /\ t.pos < SSD1306_MAX_SEG)
    <3>1. call'[u] = Resume(t)
      BY <1>2, <1>11, <2>3 DEF SetCursor
    <3>2. Resume(t).at = t.then /\ t.then \in {"string", "glyph", "clear"}
      BY <1>1, <2>1 DEF Resume, Calls, SetPhase
    <3> QED BY <1>5, <2>1, <3>1, <3>2
  <2> QED BY <2>2, <2>3
<1>12. ASSUME SendCursorByte(u)
       PROVE  Goal
  <2>1. /\ t.at = "cursor" /\ drv # "unbound" /\ UNCHANGED <<drv, line_num, cursor_pos>>
        /\ line_num \in Pages /\ cursor_pos \in Columns
    BY <1>1, <1>3, <1>12 DEF SendCursorByte, At, DriverOK
  <2>2. call'[u] = [t EXCEPT !.n = @ + 1] \/ call'[u] = Resume(t)
    BY <1>2, <1>12 DEF SendCursorByte
  <2>3. CASE call'[u] = [t EXCEPT !.n = @ + 1]
    <3>1. call'[u].at = "cursor"
      BY <1>1, <2>1, <2>3, CountUp
    <3> QED BY <2>1, <3>1 DEF DriverOK
  <2>4. CASE call'[u] = Resume(t)
    <3>1. Resume(t).at \notin {"set", "cursor"}
      BY <1>1 DEF Resume, Calls, Idle
    <3> QED BY <1>5, <2>1, <2>4, <3>1
  <2> QED BY <2>2, <2>3, <2>4
<1>13. ASSUME PrintChar(u)
       PROVE  Goal
  <2> DEFINE r == [t EXCEPT !.at = "newline", !.reg = line_num]
             g == [t EXCEPT !.at = "glyph", !.n = 0]
  <2>1. drv # "unbound" /\ drv' = drv /\ (call'[u] = Idle \/ call'[u] = r \/ call'[u] = g)
    BY <1>2, <1>3, <1>13 DEF PrintChar, At
  <2>2. Idle.at = "idle" /\ r.at = "newline" /\ g.at = "glyph"
    BY <1>1 DEF Idle, Calls
  <2> HIDE DEF r, g
  <2> QED BY <1>5, <2>1, <2>2
<1>14. ASSUME GoToNextLine(u)
       PROVE  Goal
  <2> DEFINE k == ((t.reg + 1) % 256) % (SSD1306_MAX_LINE + 1)
             s == [t EXCEPT !.at = "set", !.line = k, !.pos = 0, !.reg = 0]
             r == [s EXCEPT !.then = "string", !.rest = Tail(s.rest)]
             g == [s EXCEPT !.then = "glyph"]
  <2>1. /\ Goto(u, r) \/ Goto(u, g)
        /\ drv' = drv /\ t.at = "newline"
    BY <1>14, Zenon DEF GoToNextLine, At
  <2>2. k \in Pages /\ 0 \in Columns
    <3>1. (t.reg + 1) % 256 \in Byte
      BY <1>1, NextByte DEF Calls
    <3> QED BY <3>1, PanelMod, PanelAssumption DEF Columns
  <2> HIDE DEF k
  <2>3. /\ s.at = "set" /\ s.line = k /\ s.pos = 0
    BY <1>1 DEF Calls
  <2>4. /\ r.at = "set" /\ r.then = "string" /\ r.line = k /\ r.pos = 0
        /\ g.at = "set" /\ g.then = "glyph" /\ g.line = k /\ g.pos = 0
    BY <1>1 DEF Calls
  <2> HIDE DEF s, r, g
  <2>5. (call'[u] = r \/ call'[u] = g) /\ drv # "unbound"
    BY <1>2, <1>3, <2>1
  <2> QED BY <2>1, <2>2, <2>4, <2>5 DEF DriverOK, SetPhase
<1>15. ASSUME WriteColumn(u) \/ LoadCursor(u)
       PROVE  Goal
  <2> DEFINE r == [t EXCEPT !.at = "load"]
             g == [t EXCEPT !.at = "store", !.reg = cursor_pos]
  <2>1. drv # "unbound" /\ drv' = drv /\ (call'[u] = r \/ call'[u] = g)
    BY <1>2, <1>3, <1>15 DEF WriteColumn, LoadCursor, At
  <2>2. r.at = "load" /\ g.at = "store"
    BY <1>1 DEF Calls
  <2> HIDE DEF r, g
  <2> QED BY <1>5, <2>1, <2>2
<1>16. ASSUME StoreCursor(u)
       PROVE  Goal
  <2> DEFINE s == [t EXCEPT !.reg = 0]
             r == [s EXCEPT !.at = "glyph", !.n = s.n + 1]
             e == [s EXCEPT !.at = "string", !.then = "idle", !.n = 0,
                            !.line = 0, !.pos = 0, !.rest = Tail(s.rest)]
  <2>1. /\ drv # "unbound" /\ drv' = drv
        /\ IF s.n < SSD1306_DEF_FONT_SIZE THEN Goto(u, r) ELSE Goto(u, e)
    BY <1>3, <1>16 DEF StoreCursor, At
  <2>2. r.at = "glyph" /\ e.at = "string"
    BY <1>1 DEF Calls
  <2> HIDE DEF s, r, e
  <2>3. call'[u] = r \/ call'[u] = e
    BY <1>2, <2>1
  <2> QED BY <1>5, <2>1, <2>2, <2>3
<1>17. ASSUME FillByte(u)
       PROVE  Goal
  <2>1. /\ t.at = "fill" /\ drv # "unbound" /\ drv' = drv
        /\ call'[u] \in {[t EXCEPT !.n = @ + 1], Resume(t)}
    BY <1>2, <1>3, <1>17 DEF FillByte, At
  <2>2. [t EXCEPT !.n = @ + 1].at = "fill"
    BY <1>1, <2>1, CountUp
  <2>3. Resume(t).at \notin {"set", "cursor"}
    BY <1>1 DEF Resume, Calls, Idle
  <2> QED BY <1>5, <2>1, <2>2, <2>3
<1>18. ASSUME SendInitByte(u)
       PROVE  Goal
  <2> DEFINE f == [Idle EXCEPT !.at = "fill", !.then = "probed"]
  <2>1. /\ t.at = "init" /\ drv # "unbound" /\ drv' = drv
        /\ call'[u] = [t EXCEPT !.n = @ + 1] \/ call'[u] = f
    BY <1>2, <1>3, <1>18 DEF SendInitByte, At
  <2>2. [t EXCEPT !.n = @ + 1].at = "init"
    BY <1>1, <2>1, CountUp
  <2>3. f.at = "fill"
    BY DEF Idle
  <2> HIDE DEF f
  <2> QED BY <1>5, <2>1, <2>2, <2>3
<1>19. ASSUME ProbeDone(u) \/ SwitchOff(u)
       PROVE  Goal
  <2>1. call'[u] = Idle
    BY <1>2, <1>19 DEF ProbeDone, SwitchOff
  <2> QED BY <1>5, <2>1 DEF Idle
<1>20. ASSUME ClearOnRemove(u)
       PROVE  Goal
  <2> DEFINE f == [Idle EXCEPT !.at = "fill", !.then = "off"]
  <2>1. drv # "unbound" /\ drv' = drv /\ call'[u] = f
    BY <1>2, <1>3, <1>20 DEF ClearOnRemove, At
  <2>2. f.at = "fill"
    BY DEF Idle
  <2> HIDE DEF f
  <2> QED BY <1>5, <2>1, <2>2
<1>21. ASSUME UNCHANGED vars
       PROVE  Goal
  BY <1>1, <1>21 DEF vars, DriverOK, SetPhase
<1> HIDE DEF Goal
<1>22. Goal
  BY <1>6, <1>7, <1>8, <1>9, <1>10, <1>11, <1>12, <1>13, <1>14, <1>15, <1>16, <1>17,
     <1>18, <1>19, <1>20, <1>21 DEF Next, Begin, Continue
<1> QED BY <1>4, <1>22 DEF DriverInv, Goal

\* The last two bytes of a set_cursor are a page and the last page, which no
\* command takes for an opcode with arguments: after them nothing is waited for.
LEMMA LastBytes ==
  ASSUME NEW h \in Controller, NEW b \in Pages
  PROVE  /\ Command(h, b).need <= 1
         /\ h.need <= 1 => Command(h, b).need = 0
<1>1. h.need \in 0 .. 2
  BY DEF Controller
<1>2. CASE h.need = 2
  <2>1. Command(h, b).need = 1
    <3>1. b \in Byte
      BY PanelAssumption DEF Pages, Byte
    <3> QED BY <1>2, <3>1, CommandFirst
  <2> QED BY <1>2, <2>1
<1>3. CASE h.need = 1
  <2>1. Command(h, b) = Execute(h, h.op, b)
    BY <1>3 DEF Command
  <2>2. Command(h, b).need = 0
    BY <2>1, ExecuteNeed
  <2> QED BY <1>3, <2>2
<1>4. CASE h.need = 0
  <2>1. ArgCount(b) = 0
    BY PanelAssumption DEF Pages, ArgCount, SetColumns, SetPages, SetMode, Settings
  <2>2. Command(h, b) = Execute(h, b, b)
    BY <1>4, <2>1 DEF Command
  <2>3. Command(h, b).need = 0
    BY <2>2, ExecuteNeed
  <2> QED BY <1>4, <2>3
<1> QED BY <1>1, <1>2, <1>3, <1>4

\* From there on the decoder is between commands outside of set_cursor, and
\* every later set_cursor leaves it so.
LEMMA FramingKept ==
  ASSUME NEW u \in Writers, Writers = {u}, DriverInv(u), Framing(call[u]), [Next]_vars,
         lost' = lost
  PROVE  Framing(call[u])'
<1> DEFINE t == call[u]
           Goal == Framing(call[u])'
<1>1. /\ t \in Calls /\ CallOK(t) /\ DriverOK(t) /\ Framing(t) /\ TypeInv
      /\ hw \in Controller /\ hw.need \in 0 .. 2 /\ ~Lose
  BY NoneFails DEF DriverInv, TypeInv, TypeOK, Controller
<1>2. \A r : Goto(u, r) => call'[u] = r
  BY DEF DriverInv, TypeInv, TypeOK, Goto
<1>3. drv # "unbound"
  BY <1>1 DEF Framing, DriverOK
<1>4. t.at # "init" /\ (t.at # "cursor" => hw.need = 0)
  BY <1>1 DEF Framing
\* Steps that leave the decoder alone, and lead into no sequence.
<1>5. ASSUME hw'.need = hw.need, drv' # "unbound", t.at # "cursor",
             call'[u].at \notin {"init", "cursor"}
      PROVE  Goal
  BY <1>4, <1>5 DEF Framing
<1>6. ASSUME NEW value, CursorPosStore(u, value) \/ LineNumStore(u, value)
      PROVE  Goal
  <2>1. t.at = "idle" /\ call' = call /\ UNCHANGED <<hw, drv>>
    BY <1>6 DEF CursorPosStore, LineNumStore, Ready, At
  <2> QED BY <1>3, <1>5, <2>1
<1>7. ASSUME NEW value, CommandStore(u, value)
      PROVE  Goal
  <2> DEFINE r == [Idle EXCEPT !.at = "fill", !.data = value % 256]
  <2>1. t.at = "idle" /\ call'[u] = r /\ UNCHANGED <<hw, drv>>
    BY <1>2, <1>7 DEF CommandStore, Ready, At
  <2>2. r.at = "fill"
    BY DEF Idle
  <2> QED BY <1>3, <1>5, <2>1, <2>2
<1>8. ASSUME NEW str, MessageStore(u, str)
      PROVE  Goal
  <2> DEFINE r == [Idle EXCEPT !.at = "set", !.line = line_num, !.pos = cursor_pos,
                               !.then = "string", !.rest = str]
  <2>1. t.at = "idle" /\ call'[u] = r /\ UNCHANGED <<hw, drv>>
    BY <1>2, <1>8 DEF MessageStore, Ready, At
  <2>2. r.at = "set"
    BY DEF Idle
  <2> HIDE DEF r
  <2> QED BY <1>3, <1>5, <2>1, <2>2
<1>9. ~Probe(u)
  BY <1>3 DEF Probe
<1>10. ASSUME Remove(u)
       PROVE  Goal
  <2> DEFINE r == [Idle EXCEPT !.at = "set", !.then = "clear"]
  <2>1. t.at = "idle" /\ drv' = "removing" /\ call'[u] = r /\ UNCHANGED hw
    BY <1>2, <1>10 DEF Remove, Ready, At
  <2>2. r.at = "set"
    BY DEF Idle
  <2> HIDE DEF r
  <2> QED BY <1>5, <2>1, <2>2
<1>11. ASSUME SetCursor(u)
       PROVE  Goal
  <2>1. t.at = "set" /\ SetPhase(t) /\ UNCHANGED <<hw, drv>>
    BY <1>1, <1>11 DEF SetCursor, At, DriverOK
  <2> DEFINE r == [t EXCEPT !.at = "cursor", !.n = 1]
  <2>2. call'[u] = r \/ call'[u] = Resume(t)
    BY <1>2, <1>11 DEF SetCursor
  <2>3. r.at = "cursor" /\ r.n = 1
    BY <1>1 DEF Calls
  <2>4. Resume(t).at \notin {"init", "cursor"}
    BY <1>1 DEF Resume, Calls, Idle
  <2> HIDE DEF r
  <2>5. CASE call'[u] = r
    BY <1>3, <2>1, <2>3, <2>5 DEF Framing
  <2>6. CASE call'[u] = Resume(t)
    BY <1>3, <1>5, <2>1, <2>4, <2>6
  <2> QED BY <2>2, <2>5, <2>6
<1>12. ASSUME SendCursorByte(u)
       PROVE  Goal
  <2>1. /\ t.at = "cursor" /\ t.n \in 1 .. 6 /\ drv' = drv
        /\ line_num \in Pages /\ SSD1306_MAX_LINE \in Pages
        /\ hw' = Command(hw, CursorByte(t.n))
    BY <1>1, <1>12, PanelAssumption
       DEF SendCursorByte, SendCommand, At, CallOK, DriverOK, Pages
  <2>2. CASE t.n < 6
    <3>1. call'[u] = [t EXCEPT !.n = @ + 1]
      BY <1>2, <1>12, <2>2 DEF SendCursorByte
    <3>2. call'[u].at = "cursor" /\ call'[u].n = t.n + 1
      BY <1>1, <2>1, <3>1, CountUp
    <3>3. t.n = 5 => hw'.need <= 1
      <4>1. CursorByte(5) = line_num
        BY DEF CursorByte
      <4> QED BY <1>1, <2>1, <4>1, LastBytes
    <3> QED BY <2>1, <3>2, <3>3 DEF Framing
  <2>3. CASE t.n = 6
    <3>1. call'[u] = Resume(t)
      BY <1>2, <1>12, <2>3 DEF SendCursorByte
    <3>2. Resume(t).at \notin {"init", "cursor"}
      BY <1>1 DEF Resume, Calls, Idle
    <3>3. CursorByte(6) = SSD1306_MAX_LINE /\ hw.need <= 1
      BY <1>1, <2>1, <2>3 DEF CursorByte, Framing
    <3>4. hw'.need = 0
      BY <1>1, <2>1, <2>3, <3>3, LastBytes
    <3> QED BY <1>3, <2>1, <3>1, <3>2, <3>4 DEF Framing
  <2> QED BY <2>1, <2>2, <2>3
<1>13. ASSUME PrintChar(u)
       PROVE  Goal
  <2> DEFINE r == [t EXCEPT !.at = "newline", !.reg = line_num]
             g == [t EXCEPT !.at = "glyph", !.n = 0]
  <2>1. t.at = "string" /\ UNCHANGED <<hw, drv>> /\ (call'[u] = Idle \/ call'[u] = r \/ call'[u] = g)
    BY <1>2, <1>13 DEF PrintChar, At
  <2>2. Idle.at = "idle" /\ r.at = "newline" /\ g.at = "glyph"
    BY <1>1 DEF Idle, Calls
  <2> HIDE DEF r, g
  <2> QED BY <1>3, <1>5, <2>1, <2>2
<1>14. ASSUME GoToNextLine(u)
       PROVE  Goal
  <2> DEFINE k == ((t.reg + 1) % 256) % (SSD1306_MAX_LINE + 1)
             s == [t EXCEPT !.at = "set", !.line = k, !.pos = 0, !.reg = 0]
             r == [s EXCEPT !.then = "string", !.rest = Tail(s.rest)]
             g == [s EXCEPT !.then = "glyph"]
  <2>1. /\ Goto(u, r) \/ Goto(u, g)
        /\ UNCHANGED <<hw, drv>> /\ t.at = "newline"
    BY <1>14, Zenon DEF GoToNextLine, At
  <2> HIDE DEF k
  <2>2. r.at = "set" /\ g.at = "set"
    BY <1>1 DEF Calls
  <2> HIDE DEF s, r, g
  <2>3. call'[u] = r \/ call'[u] = g
    BY <1>2, <2>1
  <2> QED BY <1>3, <1>5, <2>1, <2>2, <2>3
<1>15. ASSUME WriteColumn(u) \/ LoadCursor(u)
       PROVE  Goal
  <2> DEFINE r == [t EXCEPT !.at = "load"]
             g == [t EXCEPT !.at = "store", !.reg = cursor_pos]
  <2>1. /\ t.at \in {"glyph", "load"} /\ drv' = drv /\ (call'[u] = r \/ call'[u] = g)
        /\ hw' = Advance(hw) \/ hw' = hw
    BY <1>1, <1>2, <1>15 DEF WriteColumn, LoadCursor, SendData, At
  <2>2. r.at = "load" /\ g.at = "store"
    BY <1>1 DEF Calls
  <2> HIDE DEF r, g
  <2>3. hw'.need = hw.need
    BY <1>1, <2>1, AdvanceKeeps
  <2> QED BY <1>3, <1>5, <2>1, <2>2, <2>3
<1>16. ASSUME StoreCursor(u)
       PROVE  Goal
  <2> DEFINE s == [t EXCEPT !.reg = 0]
             r == [s EXCEPT !.at = "glyph", !.n = s.n + 1]
             e == [s EXCEPT !.at = "string", !.then = "idle", !.n = 0,
                            !.line = 0, !.pos = 0, !.rest = Tail(s.rest)]
  <2>1. /\ t.at = "store" /\ UNCHANGED <<hw, drv>>
        /\ IF s.n < SSD1306_DEF_FONT_SIZE THEN Goto(u, r) ELSE Goto(u, e)
    BY <1>16 DEF StoreCursor, At
  <2>2. r.at = "glyph" /\ e.at = "string"
    BY <1>1 DEF Calls
  <2> HIDE DEF s, r, e
  <2>3. call'[u] = r \/ call'[u] = e
    BY <1>2, <2>1
  <2> QED BY <1>3, <1>5, <2>1, <2>2, <2>3
<1>17. ASSUME FillByte(u)
       PROVE  Goal
  <2>1. /\ t.at = "fill" /\ drv' = drv /\ hw' = Advance(hw)
        /\ call'[u] \in {[t EXCEPT !.n = @ + 1], Resume(t)}
    BY <1>1, <1>2, <1>17 DEF FillByte, SendData, At
  <2>2. [t EXCEPT !.n = @ + 1].at = "fill"
    BY <1>1, <2>1, CountUp
  <2>3. Resume(t).at \notin {"init", "cursor"}
    BY <1>1 DEF Resume, Calls, Idle
  <2>4. hw'.need = hw.need
    BY <1>1, <2>1, AdvanceKeeps
  <2> QED BY <1>3, <1>5, <2>1, <2>2, <2>3, <2>4
<1>18. ~SendInitByte(u)
  BY <1>4 DEF SendInitByte, At
<1>19. ASSUME ProbeDone(u)
       PROVE  Goal
  <2>1. t.at = "probed" /\ drv' = "bound" /\ call'[u] = Idle /\ UNCHANGED hw
    BY <1>2, <1>19 DEF ProbeDone, At
  <2> QED BY <1>5, <2>1 DEF Idle
<1>20. ASSUME ClearOnRemove(u)
       PROVE  Goal
  <2> DEFINE f == [Idle EXCEPT !.at = "fill", !.then = "off"]
  <2>1. t.at = "clear" /\ UNCHANGED <<hw, drv>> /\ call'[u] = f
    BY <1>2, <1>20 DEF ClearOnRemove, At
  <2>2. f.at = "fill"
    BY DEF Idle
  <2> HIDE DEF f
  <2> QED BY <1>3, <1>5, <2>1, <2>2
<1>21. ASSUME SwitchOff(u)
       PROVE  Goal
  <2>1. /\ t.at = "off" /\ drv' = "removed" /\ call'[u] = Idle
        /\ hw' = Command(hw, DisplayOff) /\ hw.need = 0
    BY <1>1, <1>2, <1>4, <1>21 DEF SwitchOff, SendCommand, At
  <2>2. ArgCount(DisplayOff) = 0
    BY DEF ArgCount, DisplayOff, SetColumns, SetPages, SetMode, Settings
  <2>3. hw' = Execute(hw, DisplayOff, DisplayOff)
    BY <2>1, <2>2 DEF Command
  <2>4. hw'.need = hw.need
    BY <1>1, <2>1, <2>3, ExecuteNeed
  <2> QED BY <1>5, <2>1, <2>4 DEF Idle
<1>22. ASSUME UNCHANGED vars
       PROVE  Goal
  BY <1>1, <1>22 DEF vars, Framing
<1> HIDE DEF Goal
<1>23. Goal
  BY <1>6, <1>7, <1>8, <1>9, <1>10, <1>11, <1>12, <1>13, <1>14, <1>15, <1>16, <1>17,
     <1>18, <1>19, <1>20, <1>21, <1>22 DEF Next, Begin, Continue
<1> QED BY <1>23 DEF Goal

\* A set_cursor in range is about to be sent, or is being sent, to a decoder that
\* takes its bytes for what they are; or nothing is left to repair.
Repairing(u) ==
  \/ SoleInv(u)
  \/ /\ call[u].at = "set" /\ call[u].line \in Pages /\ call[u].pos \in Columns
     /\ hw.need = 0 /\ hw.mode = 0
  \/ /\ call[u].at = "cursor" /\ Phase(call[u])
     /\ call[u].n > 3 => hw.colEnd = SSD1306_MAX_SEG - 1

\* Such a set_cursor ends in step, and steps without failures keep it so.
LEMMA RepairNext ==
  ASSUME NEW u \in Writers, Writers = {u}, DriverInv(u), Repairing(u), [Next]_vars,
         lost' = lost
  PROVE  Repairing(u)'
<1> DEFINE t == call[u]
<1>1. t \in Calls /\ CallOK(t) /\ DriverOK(t) /\ TypeInv /\ ~Lose
  BY NoneFails DEF DriverInv, TypeInv, TypeOK
<1>2. \A r : Goto(u, r) => call'[u] = r
  BY DEF DriverInv, TypeInv, TypeOK, Goto
<1>3. CASE SoleInv(u)
  BY <1>3, SoleNext DEF Repairing
<1>4. CASE /\ t.at = "set" /\ t.line \in Pages /\ t.pos \in Columns
           /\ hw.need = 0 /\ hw.mode = 0
  <2>1. CASE SetCursor(u)
    <3> DEFINE r == [t EXCEPT !.at = "cursor", !.n = 1]
    <3>1. t.line <= SSD1306_MAX_LINE /\ t.pos < SSD1306_MAX_SEG
      BY <1>4, PanelAssumption DEF Pages, Columns
    <3>2. line_num' = t.line /\ cursor_pos' = t.pos /\ call'[u] = r /\ hw' = hw
      BY <1>2, <2>1, <3>1 DEF SetCursor
    <3>3. /\ r.at = "cursor" /\ r.n = 1 /\ r.then = t.then
          /\ r.line = t.line /\ r.pos = t.pos
      BY <1>1 DEF Calls
    <3> HIDE DEF r
    <3>4. SetPhase(t)
      BY <1>1, <1>4 DEF DriverOK
    <3>5. Phase(call[u])'
      BY <1>4, <3>2, <3>3, <3>4 DEF Phase, SetPhase, CursorPhase
    <3> QED BY <3>2, <3>3, <3>5 DEF Repairing
  <2>2. CASE UNCHANGED vars
    BY <1>4, <2>2 DEF vars, Repairing
  <2>3. SetCursor(u) \/ UNCHANGED vars
    BY <1>4 DEF Next, Begin, Continue, At, Ready, CursorPosStore, LineNumStore, CommandStore,
       MessageStore, Probe, Remove, SendCursorByte, PrintChar, GoToNextLine, WriteColumn,
       LoadCursor, StoreCursor, FillByte, SendInitByte, ProbeDone, ClearOnRemove, SwitchOff
  <2> QED BY <2>1, <2>2, <2>3
<1>5. CASE /\ t.at = "cursor" /\ Phase(t)
           /\ t.n > 3 => hw.colEnd = SSD1306_MAX_SEG - 1
  <2>1. CASE SendCursorByte(u)
    <3>1. t.n \in 1 .. 6
      BY <1>1, <1>5 DEF CallOK
    <3>2. /\ Phase(call[u])'
          /\ hw'.colEnd = SSD1306_MAX_SEG - 1 \/ (t.n < 3 /\ hw'.colEnd = hw.colEnd)
          /\ t.n < 6 => call'[u].at = "cursor" /\ call'[u].n = t.n + 1
      BY <1>1, <1>5, <2>1, CursorNext
    <3>3. CASE t.n < 3
      <4>1. call'[u].at = "cursor" /\ ~(call'[u].n > 3)
        BY <3>1, <3>2, <3>3
      <4> QED BY <3>2, <4>1 DEF Repairing
    <3>4. CASE ~(t.n < 3)
      <4>1. TypeInv'
        BY <1>1, TypeInvNext
      <4> QED BY <3>2, <3>4, <4>1 DEF Repairing, SoleInv
    <3> QED BY <3>3, <3>4
  <2>2. CASE UNCHANGED vars
    BY <1>5, <2>2 DEF vars, Repairing, Phase, InitPhase, SetPhase, CursorPhase, StringPhase,
       Room, Ahead, Sync
  <2>3. SendCursorByte(u) \/ UNCHANGED vars
    BY <1>5 DEF Next, Begin, Continue, At, Ready, CursorPosStore, LineNumStore, CommandStore,
       MessageStore, Probe, Remove, SetCursor, PrintChar, GoToNextLine, WriteColumn,
       LoadCursor, StoreCursor, FillByte, SendInitByte, ProbeDone, ClearOnRemove, SwitchOff
  <2> QED BY <2>1, <2>2, <2>3
<1> QED BY <1>3, <1>4, <1>5 DEF Repairing

LEMMA DriverInvariant ==
  ASSUME NEW u, Writers = {u}
  PROVE  /\ Init => DriverInv(u)
         /\ DriverInv(u) /\ [Next]_vars => DriverInv(u)'
<1>1. Init => DriverInv(u)
  BY TypeInvInit DEF Init, Idle, DriverInv, DriverOK
<1> QED BY <1>1, Destinations

\* Whatever the decoder was waiting for: when k transfers have failed and a
\* set_cursor has its last two bytes still to send, then, as long as no further
\* transfer fails, the decoder is between commands whenever no call is inside
\* one (the first half of ResyncAfterLoss).
THEOREM DecoderRecovers ==
  ASSUME NEW u, Writers = {u}, NEW k \in Nat
  PROVE  Spec => [](/\ At(u, "cursor") /\ call[u].n < 6 /\ lost = k
                    => [](lost = k => BetweenCommands))
<1> DEFINE Begun == At(u, "cursor") /\ call[u].n < 6 /\ lost = k
           J == lost \in Nat /\ lost >= k /\ (lost = k => Framing(call[u]))
<1>1. Init => DriverInv(u)
  BY DriverInvariant
<1>2. DriverInv(u) /\ [Next]_vars => DriverInv(u)'
  BY DriverInvariant
<1>3. DriverInv(u) /\ Begun => J
  BY DEF At, Framing
<1>4. DriverInv(u) /\ J /\ [Next]_vars => J'
  <2> SUFFICES ASSUME DriverInv(u), J, [Next]_vars PROVE J'
    OBVIOUS
  <2>1. lost' = lost \/ lost' = lost + 1
    BY LossCounted DEF DriverInv
  <2>2. CASE lost' = lost
    BY <2>2, FramingKept
  <2>3. CASE lost' = lost + 1
    BY <2>3
  <2> QED BY <2>1, <2>2, <2>3
<1>5. J => (lost = k => BetweenCommands)
  BY DEF BetweenCommands, Framing, At
<1> QED BY <1>1, <1>2, <1>3, <1>4, <1>5, PTL DEF Spec

\* The same of the pointer: a set_cursor in range, sent to a decoder between
\* commands, puts text and window in step, until a further transfer fails.
LEMMA PointerRecovers ==
  ASSUME NEW u, Writers = {u}, NEW k \in Nat
  PROVE  Spec => Repairs(u, k)
<1> DEFINE J == lost \in Nat /\ lost >= k /\ (lost = k => Repairing(u))
<1>1. Init => DriverInv(u)
  BY DriverInvariant
<1>2. DriverInv(u) /\ [Next]_vars => DriverInv(u)'
  BY DriverInvariant
<1>3. DriverInv(u) /\ RepairBegins(u, k) => J
  <2> SUFFICES ASSUME DriverInv(u), RepairBegins(u, k) PROVE J
    OBVIOUS
  <2>1. call[u].line \in Byte /\ call[u].pos \in Byte
    BY DEF DriverInv, TypeInv, TypeOK, Calls
  <2>2. call[u].line \in Pages /\ call[u].pos \in Columns
    BY <2>1, OnPanel DEF RepairBegins
  <2> QED BY <2>2 DEF Repairing, RepairBegins, At
<1>4. DriverInv(u) /\ J /\ [Next]_vars => J'
  <2> SUFFICES ASSUME DriverInv(u), J, [Next]_vars PROVE J'
    OBVIOUS
  <2>1. lost' = lost \/ lost' = lost + 1
    BY LossCounted DEF DriverInv
  <2>2. CASE lost' = lost
    BY <2>2, RepairNext
  <2>3. CASE lost' = lost + 1
    BY <2>3
  <2> QED BY <2>1, <2>2, <2>3
<1>5. DriverInv(u) /\ J => (lost = k => InStep)
  <2> SUFFICES ASSUME Repairing(u), DriverInv(u), At(u, "glyph"), line_num <= SSD1306_MAX_LINE
               PROVE  /\ hw.need = 0 /\ hw.mode = 0
                      /\ hw.page = line_num /\ hw.col = cursor_pos
    BY DEF InStep
  <2>1. line_num \in Pages
    BY OnPanel DEF DriverInv, TypeInv, TypeOK
  <2> QED BY <2>1 DEF Repairing, SoleInv, Phase, At, Sync
<1> QED BY <1>1, <1>2, <1>3, <1>4, <1>5, PTL DEF Spec, Repairs

\* SetCursorRepairs: on any panel, one set_cursor repairs what failed transfers
\* have put out of step (the second half of ResyncAfterLoss).
THEOREM CursorRepairs ==
  ASSUME NEW u, Writers = {u}
  PROVE  Spec => SetCursorRepairs
<1>1. ASSUME NEW w \in Writers, NEW k \in 0 .. MaxLoss
      PROVE  Spec => Repairs(w, k)
  <2>1. Writers = {w} /\ k \in Nat
    BY DriverAssumption
  <2> QED BY <2>1, PointerRecovers
<1> QED BY <1>1 DEF SetCursorRepairs
-----------------------------------------------------------------------------
(***************************************************************************)
(* The text display: until a transfer fails, each step of the driver is a  *)
(* step of TextDisplay, or changes nothing of what is shown.               *)
(***************************************************************************)

\* No probe and no remove is under way.
Settled == drv \in {"bound", "removed"}

\* What the display shows of a call: where the driver is with it, and what is
\* left to print.
TextPhase(t) ==
  /\ t.at = "idle" => drv \in {"unbound", "bound", "removed"}
  /\ t.at \in {"idle", "init", "fill", "probed", "clear", "off"} => t.rest = <<>>
  /\ t.at \in {"init", "probed"} => drv = "probing"
  /\ t.at \in {"clear", "off"} => drv = "removing"
  /\ t.at = "fill" =>
       /\ t.then = "idle" => Settled /\ t.data \in {v % 256 : v \in FillValues}
       /\ t.then = "probed" => drv = "probing"
       /\ t.then = "off" => drv = "removing"
  /\ t.at \in {"set", "cursor"} =>
       /\ t.then = "clear" => drv = "removing" /\ t.rest = <<>>
       /\ t.then # "clear" => Settled
       /\ t.then = "glyph" => Head(t.rest) = "glyph"
  /\ t.at \in {"string", "newline", "glyph", "load", "store"} => Settled
  /\ t.at = "newline" =>
       /\ t.reg = line_num
       /\ Head(t.rest) = "newline" \/ cursor_pos + SSD1306_DEF_FONT_SIZE >= SSD1306_MAX_SEG
  /\ t.at \in {"glyph", "load", "store"} => Head(t.rest) = "glyph"

\* What is shown, in terms of the one call.
LEMMA ShownIs ==
  ASSUME NEW u, Writers = {u}
  PROVE  LET t == call[u]
             printed == t.at \in {"load", "store"}
         IN  /\ ShownLine = IF t.at = "set" THEN t.line ELSE line_num
             /\ ShownPos = IF t.at = "set" THEN t.pos
                           ELSE IF printed THEN cursor_pos + 1 ELSE cursor_pos
             /\ ShownText = IF printed /\ t.n = SSD1306_DEF_FONT_SIZE THEN Tail(t.rest) ELSE t.rest
             /\ ShownCol = IF t.at = "glyph" THEN t.n
                           ELSE IF printed /\ t.n # SSD1306_DEF_FONT_SIZE THEN t.n + 1 ELSE 0
<1>1. User = u
  BY DEF User
<1> QED BY <1>1 DEF ShownLine, ShownPos, ShownText, ShownCol, Printed, LastCol, At

\* The same of the next state.
LEMMA ShownIsNext ==
  ASSUME NEW u, Writers = {u}
  PROVE  LET t == call'[u]
             printed == t.at \in {"load", "store"}
         IN  /\ ShownLine' = IF t.at = "set" THEN t.line ELSE line_num'
             /\ ShownPos' = IF t.at = "set" THEN t.pos
                            ELSE IF printed THEN cursor_pos' + 1 ELSE cursor_pos'
             /\ ShownText' = IF printed /\ t.n = SSD1306_DEF_FONT_SIZE THEN Tail(t.rest) ELSE t.rest
             /\ ShownCol' = IF t.at = "glyph" THEN t.n
                            ELSE IF printed /\ t.n # SSD1306_DEF_FONT_SIZE THEN t.n + 1 ELSE 0
<1>1. User = u
  BY DEF User
<1> QED BY <1>1 DEF ShownLine, ShownPos, ShownText, ShownCol, Printed, LastCol, At

\* All that is known of the one call until a transfer fails.
Together(u) == SoleInv(u) /\ Blanking(call[u]) /\ TextPhase(call[u])

\* A step that changes nothing of what is shown.
LEMMA ShowsNothing ==
  ASSUME UNCHANGED <<gddram, drv, lost>>,
         ShownLine' = ShownLine, ShownPos' = ShownPos, ShownText' = ShownText, ShownCol' = ShownCol
  PROVE  [Text!TextNext]_(Text!textVars)
BY DEF Text!textVars, Text!display

\* It starts as the abstract display does.
LEMMA TextInit ==
  ASSUME NEW u, Writers = {u}, Init
  PROVE  TextPhase(call[u]) /\ Text!TextInit
<1>1. /\ call[u] = Idle /\ drv = "unbound" /\ line_num = 0 /\ cursor_pos = 0 /\ lost = 0
      /\ gddram \in [Cells -> {Blank, Ink}]
  BY DEF Init
<1>2. Idle.at = "idle" /\ Idle.rest = <<>>
  BY DEF Idle
<1>3. ShownLine = 0 /\ ShownPos = 0 /\ ShownText = <<>> /\ ShownCol = 0
  BY <1>1, <1>2, ShownIs
<1>4. TextPhase(call[u])
  BY <1>1, <1>2 DEF TextPhase
<1>5. Text!Grid = Cells /\ Text!Ink = Ink /\ Text!Blank = Blank
  BY DEF Text!Grid, Cells, Pages, Columns, Text!Ink, Ink, Text!Blank, Blank
<1> QED BY <1>1, <1>3, <1>4, <1>5 DEF Text!TextInit

\* With every step without a failed transfer the abstract display takes a step
\* or none, and the phase of the one call is kept.
LEMMA TextStep ==
  ASSUME NEW u \in Writers, Writers = {u}, Together(u), [Next]_vars, lost' = 0
  PROVE  TextPhase(call[u])' /\ [Text!TextNext]_(Text!textVars)
<1> DEFINE t == call[u]
           Goal == TextPhase(call[u])' /\ [Text!TextNext]_(Text!textVars)
<1>1. /\ t \in Calls /\ CallOK(t) /\ Phase(t) /\ TypeInv /\ Blanking(t) /\ TextPhase(t)
      /\ hw \in Controller /\ ~Lose /\ lost = 0
      /\ line_num \in Byte /\ cursor_pos \in Byte
  BY NoLoss DEF Together, SoleInv, TypeInv, TypeOK
<1>2. \A r : Goto(u, r) => call'[u] = r
  BY DEF Together, SoleInv, TypeInv, TypeOK, Goto
<1>3. t.at # "idle" => drv # "unbound"
  BY <1>1 DEF Blanking
<1>4. /\ ShownLine = IF t.at = "set" THEN t.line ELSE line_num
      /\ ShownPos = IF t.at = "set" THEN t.pos
                    ELSE IF t.at \in {"load", "store"} THEN cursor_pos + 1 ELSE cursor_pos
      /\ ShownText = IF t.at \in {"load", "store"} /\ t.n = SSD1306_DEF_FONT_SIZE
                     THEN Tail(t.rest) ELSE t.rest
      /\ ShownCol = IF t.at = "glyph" THEN t.n
                    ELSE IF t.at \in {"load", "store"} /\ t.n # SSD1306_DEF_FONT_SIZE
                    THEN t.n + 1 ELSE 0
  BY ShownIs
<1>5. /\ ShownLine' = IF call'[u].at = "set" THEN call'[u].line ELSE line_num'
      /\ ShownPos' = IF call'[u].at = "set" THEN call'[u].pos
                     ELSE IF call'[u].at \in {"load", "store"} THEN cursor_pos' + 1 ELSE cursor_pos'
      /\ ShownText' = IF call'[u].at \in {"load", "store"} /\ call'[u].n = SSD1306_DEF_FONT_SIZE
                      THEN Tail(call'[u].rest) ELSE call'[u].rest
      /\ ShownCol' = IF call'[u].at = "glyph" THEN call'[u].n
                     ELSE IF call'[u].at \in {"load", "store"} /\ call'[u].n # SSD1306_DEF_FONT_SIZE
                     THEN call'[u].n + 1 ELSE 0
  BY ShownIsNext
<1>6. lost = 0 /\ lost' = 0 => ~(lost > 0) /\ ~(lost' > 0)
  OBVIOUS
\* Where nothing is printed, the text cursor is the driver's.
<1> DEFINE Plain(r) == r.at \notin {"set", "glyph", "load", "store"}
<1>7. /\ Plain(t) => ShownLine = line_num /\ ShownPos = cursor_pos /\ ShownText = t.rest /\ ShownCol = 0
      /\ Plain(call'[u]) => /\ ShownLine' = line_num' /\ ShownPos' = cursor_pos'
                            /\ ShownText' = call'[u].rest /\ ShownCol' = 0
  BY <1>4, <1>5
<1>8. ASSUME Plain(t), Plain(call'[u]), call'[u].rest = t.rest,
             UNCHANGED <<line_num, cursor_pos, gddram, drv>>
      PROVE  [Text!TextNext]_(Text!textVars)
  BY <1>1, <1>7, <1>8, ShowsNothing
<1>9. ASSUME NEW value \in CursorValues, CursorPosStore(u, value)
      PROVE  Goal
  <2>1. /\ t.at = "idle" /\ drv # "unbound" /\ call' = call
        /\ UNCHANGED <<drv, line_num, gddram>> /\ cursor_pos' = value % 256
    BY <1>9 DEF CursorPosStore, Ready, At
  <2>2. Text!MovePos(value)
    BY <1>1, <1>7, <2>1 DEF Text!MovePos, Text!Usable, TextPhase
  <2>3. TextPhase(call[u])'
    BY <1>1, <2>1 DEF TextPhase, Settled
  <2> QED BY <1>6, <1>1, <2>2, <2>3 DEF Text!TextNext
<1>10. ASSUME NEW value \in LineValues, LineNumStore(u, value)
       PROVE  Goal
  <2>1. /\ t.at = "idle" /\ drv # "unbound" /\ call' = call
        /\ UNCHANGED <<drv, cursor_pos, gddram>> /\ line_num' = value % 256
    BY <1>10 DEF LineNumStore, Ready, At
  <2>2. Text!MoveLine(value)
    BY <1>1, <1>7, <2>1 DEF Text!MoveLine, Text!Usable, TextPhase
  <2>3. TextPhase(call[u])'
    BY <1>1, <2>1 DEF TextPhase, Settled
  <2> QED BY <1>6, <1>1, <2>2, <2>3 DEF Text!TextNext
<1>11. ASSUME NEW value \in FillValues, CommandStore(u, value)
       PROVE  Goal
  <2> DEFINE r == [Idle EXCEPT !.at = "fill", !.data = value % 256]
  <2>1. /\ t.at = "idle" /\ drv # "unbound" /\ call'[u] = r
        /\ UNCHANGED <<line_num, cursor_pos, gddram, drv>>
    BY <1>2, <1>11 DEF CommandStore, Ready, At
  <2>2. r.at = "fill" /\ r.then = "idle" /\ r.rest = <<>> /\ r.data = value % 256
    BY DEF Idle
  <2> HIDE DEF r
  <2>3. TextPhase(call[u])'
    BY <1>1, <2>1, <2>2 DEF TextPhase, Settled
  <2>4. t.rest = <<>>
    BY <1>1, <2>1 DEF TextPhase
  <2> QED BY <1>8, <2>1, <2>2, <2>3, <2>4
<1>12. ASSUME NEW str \in Messages, MessageStore(u, str)
       PROVE  Goal
  <2> DEFINE r == [Idle EXCEPT !.at = "set", !.line = line_num, !.pos = cursor_pos,
                               !.then = "string", !.rest = str]
  <2>1. /\ t.at = "idle" /\ drv # "unbound" /\ call'[u] = r
        /\ UNCHANGED <<gddram, drv, line_num, cursor_pos>>
    BY <1>2, <1>12 DEF MessageStore, Ready, At
  <2>2. /\ r.at = "set" /\ r.then = "string" /\ r.line = line_num /\ r.pos = cursor_pos
        /\ r.rest = str
    BY DEF Idle
  <2> HIDE DEF r
  <2>3. TextPhase(call[u])'
    BY <1>1, <2>1, <2>2 DEF TextPhase, Settled
  <2>4. Text!Say(str)
    <3>1. /\ ShownLine' = ShownLine /\ ShownPos' = ShownPos /\ ShownCol' = ShownCol
          /\ ShownText' = str
      BY <1>5, <1>7, <2>1, <2>2
    <3>2. drv \in {"bound", "removed"} /\ ShownText = <<>>
      BY <1>1, <1>7, <2>1 DEF TextPhase
    <3> QED BY <2>1, <3>1, <3>2 DEF Text!Say, Text!Usable
  <2> QED BY <1>6, <1>1, <2>3, <2>4 DEF Text!TextNext
<1>13. ASSUME Probe(u)
       PROVE  Goal
  <2> DEFINE r == [Idle EXCEPT !.at = "init", !.n = 1]
  <2>1. /\ t.at = "idle" /\ drv = "unbound" /\ drv' = "probing" /\ call'[u] = r
        /\ UNCHANGED <<line_num, cursor_pos, gddram>>
    BY <1>2, <1>13 DEF Probe, At
  <2>2. r.at = "init" /\ r.rest = <<>>
    BY DEF Idle
  <2> HIDE DEF r
  <2>3. TextPhase(call[u])'
    BY <2>1, <2>2 DEF TextPhase
  <2>4. Text!Probe
    <3>1. t.rest = <<>>
      BY <1>1, <2>1 DEF TextPhase
    <3> QED BY <1>7, <2>1, <2>2, <3>1 DEF Text!Probe
  <2> QED BY <1>6, <1>1, <2>3, <2>4 DEF Text!TextNext
<1>14. ASSUME Remove(u)
       PROVE  Goal
  <2> DEFINE r == [Idle EXCEPT !.at = "set", !.then = "clear"]
  <2>1. /\ t.at = "idle" /\ drv = "bound" /\ drv' = "removing" /\ call'[u] = r
        /\ UNCHANGED <<line_num, cursor_pos, gddram>>
    BY <1>2, <1>14 DEF Remove, Ready, At
  <2>2. r.at = "set" /\ r.then = "clear" /\ r.line = 0 /\ r.pos = 0 /\ r.rest = <<>>
    BY DEF Idle
  <2> HIDE DEF r
  <2>3. TextPhase(call[u])'
    BY <2>1, <2>2 DEF TextPhase
  <2>4. Text!Remove
    <3>1. t.rest = <<>>
      BY <1>1, <2>1 DEF TextPhase
    <3>2. /\ ShownLine' = 0 /\ ShownPos' = 0 /\ ShownCol' = ShownCol
          /\ ShownText' = <<>> /\ ShownText = <<>>
      BY <1>5, <1>7, <2>1, <2>2, <3>1
    <3> QED BY <2>1, <3>2 DEF Text!Remove, Text!Usable
  <2> QED BY <1>6, <1>1, <2>3, <2>4 DEF Text!TextNext
<1>15. ASSUME SetCursor(u)
       PROVE  Goal
  <2>1. t.at = "set" /\ SetPhase(t) /\ t.line \in Byte /\ t.pos \in Byte /\ UNCHANGED <<gddram, drv>>
    BY <1>1, <1>15 DEF SetCursor, At, Phase, Calls
  <2>2. ShownLine = t.line /\ ShownPos = t.pos /\ ShownText = t.rest /\ ShownCol = 0
    BY <1>4, <2>1
  <2>3. CASE t.line <= SSD1306_MAX_LINE /\ t.pos < SSD1306_MAX_SEG
    <3> DEFINE r == [t EXCEPT !.at = "cursor", !.n = 1]
    <3>1. line_num' = t.line /\ cursor_pos' = t.pos /\ call'[u] = r
      BY <1>2, <1>15, <2>3 DEF SetCursor
    <3>2. r.at = "cursor" /\ r.then = t.then /\ r.rest = t.rest
      BY <1>1 DEF Calls
    <3> HIDE DEF r
    <3>3. TextPhase(call[u])'
      BY <1>1, <2>1, <3>1, <3>2 DEF TextPhase, Settled
    <3> QED BY <1>1, <1>7, <2>1, <2>2, <3>1, <3>2, <3>3, ShowsNothing
  <2>4. CASE ~(t.line <= SSD1306_MAX_LINE /\ t.pos < SSD1306_MAX_SEG)
    <3>1. UNCHANGED <<line_num, cursor_pos>> /\ call'[u] = Resume(t)
      BY <1>2, <1>15, <2>4 DEF SetCursor
    <3>2. 0 \in Columns /\ \A x \in Byte : (x \in Pages <=> x <= SSD1306_MAX_LINE)
                                           /\ (x \in Columns <=> x < SSD1306_MAX_SEG)
      BY PanelAssumption DEF Byte, Pages, Columns
    <3>3. t.then = "clear" => t.line = 0 /\ t.pos = 0
      BY <1>1, <2>1 DEF Blanking
    <3>4. t.then = "string" /\ t.line = line_num /\ t.pos = cursor_pos
      BY <2>1, <2>4, <3>2, <3>3, PanelAssumption DEF SetPhase
    <3>5. Resume(t).at = "string" /\ Resume(t).rest = t.rest
      BY <1>1, <3>4 DEF Resume, Calls
    <3>6. TextPhase(call[u])'
      BY <1>1, <2>1, <3>1, <3>4, <3>5 DEF TextPhase, Settled
    <3> QED BY <1>1, <1>7, <2>1, <2>2, <3>1, <3>4, <3>5, <3>6, ShowsNothing
  <2> QED BY <2>3, <2>4
<1>16. ASSUME SendCursorByte(u)
       PROVE  Goal
  <2>1. /\ t.at = "cursor" /\ t.n \in 1 .. 6 /\ t.then \in {"string", "glyph", "clear"}
        /\ UNCHANGED <<line_num, cursor_pos, drv, gddram>>
    BY <1>1, <1>16 DEF SendCursorByte, SendCommand, At, Phase, CursorPhase, CallOK
  <2>2. CASE t.n < 6
    <3> DEFINE r == [t EXCEPT !.n = @ + 1]
    <3>1. call'[u] = r
      BY <1>2, <1>16, <2>2 DEF SendCursorByte
    <3>2. r.at = "cursor" /\ r.then = t.then /\ r.rest = t.rest
      BY <1>1, <2>1, CountUp
    <3> HIDE DEF r
    <3>3. TextPhase(call[u])'
      BY <1>1, <2>1, <3>1, <3>2 DEF TextPhase, Settled
    <3> QED BY <1>8, <2>1, <3>1, <3>2, <3>3
  <2>3. CASE t.n = 6
    <3>1. call'[u] = Resume(t)
      BY <1>2, <1>16, <2>3 DEF SendCursorByte
    <3>2. Resume(t).at = t.then /\ Resume(t).n = 0 /\ Resume(t).rest = t.rest
      BY <1>1, <2>1 DEF Resume, Calls
    <3>3. TextPhase(call[u])'
      BY <1>1, <2>1, <3>1, <3>2 DEF TextPhase, Settled
    <3>4. ShownLine' = line_num /\ ShownPos' = cursor_pos /\ ShownText' = t.rest /\ ShownCol' = 0
      BY <1>5, <2>1, <3>1, <3>2
    <3> QED BY <1>1, <1>7, <2>1, <3>3, <3>4, ShowsNothing
  <2> QED BY <2>1, <2>2, <2>3
<1>17. ASSUME PrintChar(u)
       PROVE  Goal
  <2>1. t.at = "string" /\ UNCHANGED <<line_num, cursor_pos, drv, gddram>>
    BY <1>17 DEF PrintChar, At
  <2> DEFINE full == cursor_pos + SSD1306_DEF_FONT_SIZE >= SSD1306_MAX_SEG
             r == [t EXCEPT !.at = "newline", !.reg = line_num]
             g == [t EXCEPT !.at = "glyph", !.n = 0]
  <2>2. \/ t.rest = <<>> /\ call'[u] = Idle
        \/ t.rest # <<>> /\ (full \/ Head(t.rest) = "newline") /\ call'[u] = r
        \/ t.rest # <<>> /\ ~full /\ Head(t.rest) # "newline" /\ call'[u] = g
    BY <1>2, <1>17 DEF PrintChar
  <2> HIDE DEF full
  <2>3. CASE t.rest = <<>> /\ call'[u] = Idle
    <3>1. Idle.at = "idle" /\ Idle.rest = <<>>
      BY DEF Idle
    <3>2. TextPhase(call[u])'
      BY <1>1, <2>1, <2>3, <3>1 DEF TextPhase, Settled
    <3> QED BY <1>8, <2>1, <2>3, <3>1, <3>2
  <2>4. CASE t.rest # <<>> /\ (full \/ Head(t.rest) = "newline") /\ call'[u] = r
    <3>1. r.at = "newline" /\ r.rest = t.rest /\ r.reg = line_num
      BY <1>1 DEF Calls
    <3> HIDE DEF r
    <3>2. TextPhase(call[u])'
      BY <1>1, <2>1, <2>4, <3>1 DEF TextPhase, Settled, full
    <3> QED BY <1>8, <2>1, <2>4, <3>1, <3>2
  <2>5. CASE t.rest # <<>> /\ ~full /\ Head(t.rest) # "newline" /\ call'[u] = g
    <3>1. g.at = "glyph" /\ g.rest = t.rest /\ g.n = 0
      BY <1>1 DEF Calls
    <3>2. Head(t.rest) = "glyph"
      BY <1>1, <2>5 DEF Calls
    <3> HIDE DEF g
    <3>3. TextPhase(call[u])'
      BY <1>1, <2>1, <2>5, <3>1, <3>2 DEF TextPhase, Settled
    <3>4. ShownLine' = line_num /\ ShownPos' = cursor_pos /\ ShownText' = t.rest /\ ShownCol' = 0
      BY <1>5, <2>1, <2>5, <3>1
    <3> QED BY <1>1, <1>7, <2>1, <3>3, <3>4, ShowsNothing
  <2> QED BY <2>2, <2>3, <2>4, <2>5
<1>18. ASSUME GoToNextLine(u)
       PROVE  Goal
  <2> DEFINE k == ((t.reg + 1) % 256) % (SSD1306_MAX_LINE + 1)
             s == [t EXCEPT !.at = "set", !.line = k, !.pos = 0, !.reg = 0]
             r == [s EXCEPT !.then = "string", !.rest = Tail(s.rest)]
             g == [s EXCEPT !.then = "glyph"]
  <2>1. /\ t.at = "newline" /\ UNCHANGED <<drv, gddram>>
        /\ IF Head(s.rest) = "newline" THEN Goto(u, r) ELSE Goto(u, g)
    BY <1>18, Zenon DEF GoToNextLine, At
  <2>2. /\ t.reg = line_num /\ t.rest # <<>> /\ Settled
        /\ Head(t.rest) = "newline" \/ cursor_pos + SSD1306_DEF_FONT_SIZE >= SSD1306_MAX_SEG
    BY <1>1, <2>1 DEF TextPhase, CallOK
  <2>3. s.rest = t.rest /\ s.at = "set" /\ s.line = k /\ s.pos = 0
    BY <1>1 DEF Calls
  <2>4. /\ r.at = "set" /\ r.then = "string" /\ r.line = s.line /\ r.pos = s.pos /\ r.rest = Tail(s.rest)
        /\ g.at = "set" /\ g.then = "glyph" /\ g.line = s.line /\ g.pos = s.pos /\ g.rest = s.rest
    <3>1. /\ r.at = s.at /\ r.then = "string" /\ r.line = s.line /\ r.pos = s.pos /\ r.rest = Tail(s.rest)
          /\ g.at = s.at /\ g.then = "glyph" /\ g.line = s.line /\ g.pos = s.pos /\ g.rest = s.rest
      <4> HIDE DEF k
      <4> QED BY <1>1 DEF Calls
    <3> QED BY <2>3, <3>1
  <2>5. Head(t.rest) \in {"glyph", "newline"}
    BY <1>1, <2>2 DEF Calls
  <2> HIDE DEF s, r, g
  <2>6. /\ call'[u].at = "set" /\ call'[u].line = k /\ call'[u].pos = 0
        /\ call'[u].then = IF Head(t.rest) = "newline" THEN "string" ELSE "glyph"
        /\ call'[u].rest = IF Head(t.rest) = "newline" THEN Tail(t.rest) ELSE t.rest
    BY <1>2, <2>1, <2>3, <2>4
  <2>7. TextPhase(call[u])'
    BY <2>1, <2>2, <2>5, <2>6 DEF TextPhase, Settled
  <2>8. Text!NextLine
    <3>1. /\ ShownLine = line_num /\ ShownPos = cursor_pos /\ ShownText = t.rest /\ ShownCol = 0
      BY <1>7, <2>1
    <3>2. /\ ShownLine' = k /\ ShownPos' = 0 /\ ShownCol' = 0
          /\ ShownText' = IF Head(t.rest) = "newline" THEN Tail(t.rest) ELSE t.rest
      BY <1>5, <2>6
    <3>3. Head(ShownText) = "newline" \/ ~Text!Fits
      <4>1. SSD1306_DEF_FONT_SIZE \in Int /\ SSD1306_MAX_SEG \in Int
        BY DriverAssumption, PanelAssumption
      <4>2. cursor_pos \in Int
        BY <1>1 DEF Byte
      <4>3. ~(cursor_pos + SSD1306_DEF_FONT_SIZE < SSD1306_MAX_SEG) \/ Head(t.rest) = "newline"
        BY <2>2, <4>1, <4>2
      <4> QED BY <3>1, <4>3 DEF Text!Fits
    <3>4. k = ((line_num + 1) % 256) % (SSD1306_MAX_LINE + 1)
      BY <2>2
    <3> HIDE DEF k
    <3>5. Text!NextLine <=>
            /\ ShownText # <<>> /\ ShownCol = 0
            /\ Head(ShownText) = "newline" \/ ~Text!Fits
            /\ ShownLine' = ((ShownLine + 1) % 256) % (SSD1306_MAX_LINE + 1)
            /\ ShownPos' = 0
            /\ ShownText' = IF Head(ShownText) = "newline" THEN Tail(ShownText) ELSE ShownText
            /\ UNCHANGED <<gddram, ShownCol, drv>>
      BY DEF Text!NextLine
    <3> QED BY <2>1, <2>2, <3>1, <3>2, <3>3, <3>4, <3>5
  <2> HIDE DEF k
  <2> QED BY <1>6, <1>1, <2>7, <2>8 DEF Text!TextNext
<1>19. ASSUME WriteColumn(u)
       PROVE  Goal
  <2> DEFINE r == [t EXCEPT !.at = "load"]
             b == IF t.n < SSD1306_DEF_FONT_SIZE THEN Ink ELSE Blank
  <2>1. /\ t.at = "glyph" /\ Room(t) /\ (line_num \in Pages => Sync)
        /\ t.rest # <<>> /\ Head(t.rest) = "glyph" /\ Settled
    BY <1>1, <1>19 DEF WriteColumn, At, Phase, TextPhase, CallOK
  <2>2. /\ call'[u] = r /\ UNCHANGED <<line_num, cursor_pos, drv>>
        /\ gddram' = [gddram EXCEPT ![<<hw.page, hw.col>>] = b]
    BY <1>1, <1>2, <1>19 DEF WriteColumn, SendData
  <2>3. r.at = "load" /\ r.n = t.n /\ r.rest = t.rest
    BY <1>1 DEF Calls
  <2> HIDE DEF r
  <2>4. TextPhase(call[u])'
    BY <1>1, <2>1, <2>2, <2>3 DEF TextPhase, Settled
  <2>5. /\ t.n \in Int /\ 0 <= t.n /\ t.n <= SSD1306_DEF_FONT_SIZE
        /\ cursor_pos \in Int /\ SSD1306_DEF_FONT_SIZE \in Int /\ 1 <= SSD1306_DEF_FONT_SIZE
        /\ SSD1306_MAX_SEG \in Int /\ SSD1306_MAX_LINE \in Int
        /\ cursor_pos + SSD1306_DEF_FONT_SIZE - t.n < SSD1306_MAX_SEG
    <3>1. /\ SSD1306_DEF_FONT_SIZE \in Int /\ 1 <= SSD1306_DEF_FONT_SIZE
          /\ SSD1306_MAX_SEG \in Int /\ SSD1306_MAX_LINE \in Int
      BY DriverAssumption, PanelAssumption
    <3>2. cursor_pos \in Int /\ 0 <= cursor_pos
      BY <1>1 DEF Byte
    <3>3. Room(t)
      BY <2>1
    <3> QED BY <3>1, <3>2, <3>3 DEF Room
  <2>6. Text!PrintColumn
    <3> DEFINE last == t.n = SSD1306_DEF_FONT_SIZE
               cell == <<hw.page, hw.col>>
    <3>1. ShownLine = line_num /\ ShownPos = cursor_pos /\ ShownText = t.rest /\ ShownCol = t.n
      BY <1>4, <2>1
    <3>2. /\ ShownLine' = line_num /\ ShownPos' = cursor_pos + 1
          /\ ShownText' = IF last THEN Tail(t.rest) ELSE t.rest
          /\ ShownCol' = IF last THEN 0 ELSE t.n + 1
      BY <1>5, <2>2, <2>3
    <3>3. t.n = 0 => Text!Fits
      BY <2>5, <3>1 DEF Text!Fits
    <3>4. cell \in Text!Grid
      BY <1>1 DEF Text!Grid, Controller, Pages, Columns
    <3>5. line_num <= SSD1306_MAX_LINE => cell = <<line_num, cursor_pos>>
      <4>1. line_num <= SSD1306_MAX_LINE => line_num \in Pages
        BY <1>1, <2>5 DEF Pages, Byte
      <4> QED BY <2>1, <4>1 DEF Sync
    <3>6. b = IF last THEN Text!Blank ELSE Text!Ink
      BY <2>5 DEF Text!Blank, Text!Ink, Blank, Ink
    <3> HIDE DEF b, cell
    <3>7. gddram' = [gddram EXCEPT ![cell] = IF last THEN Text!Blank ELSE Text!Ink]
      BY <2>2, <3>6 DEF cell
    <3> HIDE DEF last
    <3>8. Text!PrintColumn <=>
            /\ ShownText # <<>> /\ Head(ShownText) = "glyph" /\ (ShownCol = 0 => Text!Fits)
            /\ \E c \in Text!Grid :
                 /\ ShownLine <= SSD1306_MAX_LINE => c = <<ShownLine, ShownPos>>
                 /\ gddram' = [gddram EXCEPT ![c] = IF ShownCol = SSD1306_DEF_FONT_SIZE
                                                     THEN Text!Blank ELSE Text!Ink]
            /\ ShownCol' = IF ShownCol = SSD1306_DEF_FONT_SIZE THEN 0 ELSE ShownCol + 1
            /\ ShownText' = IF ShownCol = SSD1306_DEF_FONT_SIZE THEN Tail(ShownText) ELSE ShownText
            /\ ShownPos' = ShownPos + 1
            /\ UNCHANGED <<ShownLine, drv>>
      BY DEF Text!PrintColumn
    <3>9. last <=> ShownCol = SSD1306_DEF_FONT_SIZE
      BY <3>1 DEF last
    <3>10. \E c \in Text!Grid :
             /\ ShownLine <= SSD1306_MAX_LINE => c = <<ShownLine, ShownPos>>
             /\ gddram' = [gddram EXCEPT ![c] = IF ShownCol = SSD1306_DEF_FONT_SIZE
                                                 THEN Text!Blank ELSE Text!Ink]
      BY <3>1, <3>4, <3>5, <3>7, <3>9
    <3> QED BY <2>1, <2>2, <3>1, <3>2, <3>3, <3>8, <3>9, <3>10
  <2> QED BY <1>6, <1>1, <2>4, <2>6 DEF Text!TextNext
<1>20. ASSUME LoadCursor(u)
       PROVE  Goal
  <2> DEFINE r == [t EXCEPT !.at = "store", !.reg = cursor_pos]
  <2>1. t.at = "load" /\ call'[u] = r /\ UNCHANGED <<line_num, cursor_pos, drv, gddram>>
    BY <1>2, <1>20 DEF LoadCursor, At
  <2>2. r.at = "store" /\ r.n = t.n /\ r.rest = t.rest
    BY <1>1 DEF Calls
  <2> HIDE DEF r
  <2>3. TextPhase(call[u])'
    BY <1>1, <2>1, <2>2 DEF TextPhase, Settled
  <2>4. /\ ShownLine' = ShownLine /\ ShownPos' = ShownPos
        /\ ShownText' = ShownText /\ ShownCol' = ShownCol
    BY <1>4, <1>5, <2>1, <2>2
  <2> QED BY <1>1, <2>1, <2>3, <2>4, ShowsNothing
<1>21. ASSUME StoreCursor(u)
       PROVE  Goal
  <2> DEFINE s == [t EXCEPT !.reg = 0]
             r == [s EXCEPT !.at = "glyph", !.n = s.n + 1]
             e == [s EXCEPT !.at = "string", !.then = "idle", !.n = 0,
                            !.line = 0, !.pos = 0, !.rest = Tail(s.rest)]
  <2>1. t.at = "store" /\ Room(t) /\ t.reg = cursor_pos /\ UNCHANGED <<line_num, drv, gddram>>
    BY <1>1, <1>21 DEF StoreCursor, At, Phase
  <2>2. /\ SSD1306_DEF_FONT_SIZE \in Int /\ 1 <= SSD1306_DEF_FONT_SIZE
        /\ SSD1306_MAX_SEG \in Int /\ SSD1306_MAX_SEG <= 128
        /\ t.n \in Int /\ 0 <= t.n /\ t.n <= SSD1306_DEF_FONT_SIZE
        /\ cursor_pos \in Int /\ 0 <= cursor_pos
        /\ cursor_pos + SSD1306_DEF_FONT_SIZE - t.n < SSD1306_MAX_SEG
    <3>1. /\ SSD1306_DEF_FONT_SIZE \in Int /\ 1 <= SSD1306_DEF_FONT_SIZE
          /\ SSD1306_MAX_SEG \in Int /\ SSD1306_MAX_SEG <= 128
      BY DriverAssumption, PanelAssumption
    <3>2. cursor_pos \in Int /\ 0 <= cursor_pos
      BY <1>1 DEF Byte
    <3>3. Room(t)
      BY <2>1
    <3> QED BY <3>1, <3>2, <3>3 DEF Room
  <2>3. /\ cursor_pos' = (cursor_pos + 1) % 256
        /\ IF s.n < SSD1306_DEF_FONT_SIZE THEN Goto(u, r) ELSE Goto(u, e)
    BY <1>21, <2>1 DEF StoreCursor
  <2>4. cursor_pos' = cursor_pos + 1
    <3>1. \A x \in 0 .. 254 : (x + 1) % 256 = x + 1
      OBVIOUS
    <3>2. cursor_pos \in 0 .. 254
      BY <2>2
    <3> QED BY <2>3, <3>1, <3>2
  <2>5. s.n = t.n /\ s.rest = t.rest
    BY <1>1 DEF Calls
  <2>6. /\ r.at = "glyph" /\ r.n = t.n + 1 /\ r.rest = t.rest
        /\ e.at = "string" /\ e.rest = Tail(t.rest)
    BY <1>1, <2>5 DEF Calls
  <2> HIDE DEF s, r, e
  <2>7. CASE t.n < SSD1306_DEF_FONT_SIZE
    <3>1. call'[u] = r
      BY <1>2, <2>3, <2>5, <2>7
    <3>2. TextPhase(call[u])'
      BY <1>1, <2>1, <2>6, <3>1 DEF TextPhase, Settled
    <3>3. /\ ShownLine' = ShownLine /\ ShownPos' = ShownPos
          /\ ShownText' = ShownText /\ ShownCol' = ShownCol
      BY <1>4, <1>5, <2>1, <2>2, <2>4, <2>6, <2>7, <3>1
    <3> QED BY <1>1, <2>1, <3>2, <3>3, ShowsNothing
  <2>8. CASE ~(t.n < SSD1306_DEF_FONT_SIZE)
    <3>1. call'[u] = e /\ t.n = SSD1306_DEF_FONT_SIZE
      BY <1>2, <2>2, <2>3, <2>5, <2>8
    <3>2. TextPhase(call[u])'
      BY <1>1, <2>1, <2>6, <3>1 DEF TextPhase, Settled
    <3>3. /\ ShownLine' = ShownLine /\ ShownPos' = ShownPos
          /\ ShownText' = ShownText /\ ShownCol' = ShownCol
      BY <1>4, <1>5, <2>1, <2>4, <2>6, <3>1
    <3> QED BY <1>1, <2>1, <3>2, <3>3, ShowsNothing
  <2> QED BY <2>7, <2>8
<1>22. ASSUME FillByte(u)
       PROVE  Goal
  <2> DEFINE r == [t EXCEPT !.n = @ + 1]
             cell == <<hw.page, hw.col>>
  <2>1. /\ t.at = "fill" /\ t.then \in {"idle", "probed", "off"} /\ t.rest = <<>>
        /\ UNCHANGED <<line_num, cursor_pos, drv>>
    BY <1>1, <1>22 DEF FillByte, At, Phase, TextPhase
  <2>2. call'[u] \in {r, Resume(t)} /\ gddram' = [gddram EXCEPT ![cell] = t.data]
    BY <1>1, <1>2, <1>22 DEF FillByte, SendData
  <2>3. r.at = "fill" /\ r.then = t.then /\ r.rest = t.rest /\ r.data = t.data
    <3>1. r.data = t.data
      BY <1>1 DEF Calls
    <3> QED BY <1>1, <2>1, <3>1, CountUp
  <2>4. Resume(t).at = t.then /\ Resume(t).rest = <<>>
    BY <1>1, <2>1 DEF Resume, Idle, Calls
  <2> HIDE DEF r
  <2>5. TextPhase(call[u])'
    BY <1>1, <2>1, <2>2, <2>3, <2>4 DEF TextPhase, Settled
  <2>6. Text!Fill(t.data)
    <3>1. /\ ShownLine' = ShownLine /\ ShownPos' = ShownPos
          /\ ShownText' = ShownText /\ ShownCol' = ShownCol /\ ShownText = <<>>
      BY <1>7, <2>1, <2>2, <2>3, <2>4
    <3>2. cell \in Text!Grid
      BY <1>1 DEF Text!Grid, Controller, Pages, Columns
    <3>3. \/ Text!Usable /\ t.data \in {v % 256 : v \in FillValues}
          \/ drv \in {"probing", "removing"} /\ t.data = Text!Blank
      BY <1>1, <2>1, <3>1 DEF TextPhase, Settled, Text!Usable, Blanking, Filling, Blank, Text!Blank
    <3> HIDE DEF cell
    <3> QED BY <2>1, <2>2, <3>1, <3>2, <3>3 DEF Text!Fill
  <2>7. t.data \in 0 .. 255
    BY <1>1 DEF Calls, Byte
  <2> QED BY <1>6, <1>1, <2>5, <2>6, <2>7 DEF Text!TextNext
<1>23. ASSUME SendInitByte(u)
       PROVE  Goal
  <2>1. t.at = "init" /\ t.n \in 1 .. 26 /\ UNCHANGED <<line_num, cursor_pos, drv, gddram>>
    BY <1>1, <1>23 DEF SendInitByte, SendCommand, At, CallOK
  <2> DEFINE r == [t EXCEPT !.n = @ + 1]
             f == [Idle EXCEPT !.at = "fill", !.then = "probed"]
  <2>2. call'[u] = r \/ call'[u] = f
    BY <1>2, <1>23 DEF SendInitByte
  <2>3. r.at = "init" /\ r.rest = t.rest
    BY <1>1, <2>1, CountUp
  <2>4. f.at = "fill" /\ f.then = "probed" /\ f.rest = <<>>
    BY DEF Idle
  <2> HIDE DEF r, f
  <2>5. TextPhase(call[u])'
    BY <1>1, <2>1, <2>2, <2>3, <2>4 DEF TextPhase, Settled
  <2>6. t.rest = <<>>
    BY <1>1, <2>1 DEF TextPhase
  <2> QED BY <1>8, <2>1, <2>2, <2>3, <2>4, <2>5, <2>6
<1>24. ASSUME ProbeDone(u)
       PROVE  Goal
  <2>1. /\ t.at = "probed" /\ drv' = "bound" /\ call'[u] = Idle
        /\ UNCHANGED <<line_num, cursor_pos, gddram>>
    BY <1>2, <1>24 DEF ProbeDone, At
  <2>2. Idle.at = "idle" /\ Idle.rest = <<>>
    BY DEF Idle
  <2>3. TextPhase(call[u])'
    BY <2>1, <2>2 DEF TextPhase
  <2>4. drv = "probing" /\ t.rest = <<>> /\ \A cell \in Cells : gddram[cell] = Blank
    BY <1>1, <2>1 DEF TextPhase, Blanking
  <2>5. Text!Probed
    BY <1>7, <2>1, <2>2, <2>4 DEF Text!Probed, Text!AllBlank, Text!Grid, Text!Blank, Blank, Cells,
       Pages, Columns
  <2> QED BY <1>6, <1>1, <2>3, <2>5 DEF Text!TextNext
<1>25. ASSUME ClearOnRemove(u)
       PROVE  Goal
  <2> DEFINE f == [Idle EXCEPT !.at = "fill", !.then = "off"]
  <2>1. t.at = "clear" /\ call'[u] = f /\ UNCHANGED <<line_num, cursor_pos, drv, gddram>>
    BY <1>2, <1>25 DEF ClearOnRemove, At
  <2>2. f.at = "fill" /\ f.then = "off" /\ f.rest = <<>>
    BY DEF Idle
  <2> HIDE DEF f
  <2>3. TextPhase(call[u])'
    BY <1>1, <2>1, <2>2 DEF TextPhase
  <2>4. t.rest = <<>>
    BY <1>1, <2>1 DEF TextPhase
  <2> QED BY <1>8, <2>1, <2>2, <2>3, <2>4
<1>26. ASSUME SwitchOff(u)
       PROVE  Goal
  <2>1. /\ t.at = "off" /\ drv' = "removed" /\ call'[u] = Idle
        /\ UNCHANGED <<line_num, cursor_pos, gddram>>
    BY <1>1, <1>2, <1>26 DEF SwitchOff, SendCommand, At
  <2>2. Idle.at = "idle" /\ Idle.rest = <<>>
    BY DEF Idle
  <2>3. TextPhase(call[u])'
    BY <2>1, <2>2 DEF TextPhase
  <2>4. drv = "removing" /\ t.rest = <<>> /\ \A cell \in Cells : gddram[cell] = Blank
    BY <1>1, <2>1 DEF TextPhase, Blanking
  <2>5. Text!Removed
    BY <1>7, <2>1, <2>2, <2>4 DEF Text!Removed, Text!AllBlank, Text!Grid, Text!Blank, Blank, Cells,
       Pages, Columns
  <2> QED BY <1>6, <1>1, <2>3, <2>5 DEF Text!TextNext
<1>27. ASSUME UNCHANGED vars
       PROVE  Goal
  <2>1. UNCHANGED <<line_num, cursor_pos, drv, gddram>> /\ call' = call
    BY <1>27 DEF vars
  <2>2. TextPhase(call[u])'
    BY <1>1, <2>1 DEF TextPhase, Settled
  <2>3. /\ ShownLine' = ShownLine /\ ShownPos' = ShownPos
        /\ ShownText' = ShownText /\ ShownCol' = ShownCol
    BY <1>4, <1>5, <2>1
  <2> QED BY <1>1, <2>1, <2>2, <2>3, ShowsNothing
<1> HIDE DEF Goal
<1>28. Goal
  BY <1>9, <1>10, <1>11, <1>12, <1>13, <1>14, <1>15, <1>16, <1>17, <1>18, <1>19, <1>20, <1>21,
     <1>22, <1>23, <1>24, <1>25, <1>26, <1>27 DEF Next, Begin, Continue
<1> QED BY <1>28 DEF Goal

\* IsTextDisplay: as long as no transfer has failed, what one user does to the
\* display is what the abstract one allows: its first state is one of the
\* abstract display's, and each step of the driver is a step of it or none.
THEOREM ImplementsTextDisplay ==
  ASSUME NEW u, Writers = {u}
  PROVE  Spec => IsTextDisplay
<1> DEFINE Inv == UntilLoss(u) /\ (lost = 0 => Blanking(call[u]) /\ TextPhase(call[u]))
<1>1. Init => Inv /\ Text!TextInit
  BY UntilLossInvariant, BlankingInit, TextInit
<1>2. ASSUME Inv, [Next]_vars PROVE Inv' /\ [Text!TextNext]_(Text!textVars)
  <2>1. UntilLoss(u)'
    BY <1>2, UntilLossInvariant
  <2>2. CASE lost' = 0
    <3>1. lost = 0
      BY <1>2, <2>2, NoLoss DEF UntilLoss
    <3>2. Blanking(call[u])'
      BY <1>2, <2>2, <3>1, BlankingNext DEF UntilLoss
    <3>3. Together(u)
      BY <1>2, <3>1 DEF UntilLoss, Together
    <3> QED BY <1>2, <2>1, <2>2, <3>2, <3>3, TextStep
  <2>3. CASE lost' # 0
    <3>1. lost' \in Nat
      BY <2>1, PanelAssumption DEF UntilLoss, TypeInv, TypeOK
    <3>2. lost' > 0
      BY <2>3, <3>1
    <3>3. Text!TextNext
      BY <3>2 DEF Text!TextNext
    <3> QED BY <2>1, <2>3, <3>3
  <2> QED BY <2>2, <2>3
<1> QED BY <1>1, <1>2, PTL DEF Spec, IsTextDisplay, Text!TextSpec
=============================================================================
