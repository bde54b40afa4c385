------------------------------ MODULE Ssd1306 ------------------------------
(***************************************************************************)
(* The SSD1306 driver, i2c/ssd1306/ssd1306.c: the sysfs files a process    *)
(* writes (message, command, cursor_pos, line_num), probe and remove, down *)
(* to the single I2C transfers they are made of.                           *)
(*                                                                         *)
(* The driver keeps the text cursor (device_data.line_num and cursor_pos)  *)
(* itself and never reads the controller's RAM pointer back: it relies on  *)
(* both moving together.  Nothing is locked, so calls of different         *)
(* processes interleave at every transfer and at every store to            *)
(* device_data.  A step here is at most one transfer or one store of the   *)
(* cursor.  The result of a transfer is ignored (ssd1306.c:366), so that a *)
(* failed one is a byte that silently never arrives.                       *)
(***************************************************************************)
EXTENDS Ssd1306Controller

CONSTANTS
  SSD1306_DEF_FONT_SIZE,   \* columns of a glyph, without the spacing column (5)
  Writers,                 \* the processes that use the driver
  Messages,                \* strings written to `message'
  CursorValues,            \* numbers written to `cursor_pos'
  LineValues,              \* numbers written to `line_num'
  FillValues,              \* numbers written to `command'
  MaxLoss                  \* bound: how many transfers may fail

ASSUME DriverAssumption ==
  /\ SSD1306_DEF_FONT_SIZE \in 1 .. SSD1306_MAX_SEG - 1
  /\ Messages \subseteq Seq({"glyph", "newline"})
  /\ CursorValues \subseteq Int /\ LineValues \subseteq Int /\ FillValues \subseteq Int
  /\ MaxLoss \in Nat

VARIABLES
  line_num, cursor_pos,   \* device_data: the text cursor, two uint8_t
  drv,                    \* "unbound", "probing", "bound", "removing", "removed"
  call,                   \* per process: the call it is in and its locals
  hw, gddram,             \* the controller and its display RAM
  lost                    \* transfers that failed so far

vars == <<line_num, cursor_pos, drv, call, hw, gddram, lost>>

Ink   == 1    \* a column of a glyph in ssd1306_font
Blank == 0

\* The bytes of ssd1306_display_init, in order.
InitBytes ==
  << DisplayOff, 213, 128, 168, 63, 211, 0, 64, 141, 20, SetMode, 0, 161, 200, 218, 18,
     129, 128, 217, 241, 219, 32, 164, 166, 46, DisplayOn >>

\* Mutant: line and position exchanged.
CursorByteSwapped(k) ==
  << SetColumns, line_num, SSD1306_MAX_SEG - 1,
     SetPages, cursor_pos, SSD1306_MAX_LINE >>[k]

\* The bytes of ssd1306_set_cursor.  The two cursor bytes are loaded from
\* device_data when they are sent, not when the range was checked.
CursorByte(k) ==
  << SetColumns, cursor_pos, SSD1306_MAX_SEG - 1,
     SetPages, line_num, SSD1306_MAX_LINE >>[k]

Total == SSD1306_MAX_SEG * (SSD1306_MAX_LINE + 1)    \* transfers of ssd1306_fill

Idle == [ at |-> "idle", then |-> "idle", n |-> 0, line |-> 0, pos |-> 0,
          rest |-> <<>>, reg |-> 0, data |-> 0 ]

At(w, label) == call[w].at = label
Ready(w)     == At(w, "idle") /\ drv # "unbound"

\* Leave a subroutine: go where its caller continues.
Resume(t) == IF t.then = "idle" THEN Idle ELSE [t EXCEPT !.at = t.then, !.n = 0]

Goto(w, t) == call' = [call EXCEPT ![w] = t]
----------------------------------------------------------------------------
\* i2c_write of a command byte, and of a data byte.
Lose == lost < MaxLoss /\ lost' = lost + 1 /\ UNCHANGED <<hw, gddram>>

SendCommand(b) ==
  \/ hw' = Command(hw, b) /\ UNCHANGED <<gddram, lost>>
  \/ Lose

SendData(b) ==
  \/ /\ gddram' = [gddram EXCEPT ![<<hw.page, hw.col>>] = b]
     /\ hw' = Advance(hw)
     /\ UNCHANGED lost
  \/ Lose
----------------------------------------------------------------------------
\* Mutant: the number is kept in a wider type than uint8_t.
CursorPosStoreWide(w, value) ==
  /\ Ready(w)
  /\ cursor_pos' = value
  /\ UNCHANGED <<line_num, drv, call, hw, gddram, lost>>

\* A process writes one of the sysfs files.  Input kstrtol rejects changes
\* nothing and is left out.
CursorPosStore(w, value) ==
  /\ Ready(w)
  /\ cursor_pos' = value % 256
  /\ UNCHANGED <<line_num, drv, call, hw, gddram, lost>>

LineNumStore(w, value) ==
  /\ Ready(w)
  /\ line_num' = value % 256
  /\ UNCHANGED <<cursor_pos, drv, call, hw, gddram, lost>>

CommandStore(w, value) ==
  /\ Ready(w)
  /\ Goto(w, [Idle EXCEPT !.at = "fill", !.data = value % 256])
  /\ UNCHANGED <<line_num, cursor_pos, drv, hw, gddram, lost>>

MessageStore(w, str) ==
  /\ Ready(w)
  /\ Goto(w, [Idle EXCEPT !.at = "set", !.line = line_num, !.pos = cursor_pos,
                          !.then = "string", !.rest = str])
  /\ UNCHANGED <<line_num, cursor_pos, drv, hw, gddram, lost>>

\* Probe creates the sysfs files before it initialises the display.
Probe(w) ==
  /\ At(w, "idle") /\ drv = "unbound"
  /\ drv' = "probing"
  /\ Goto(w, [Idle EXCEPT !.at = "init", !.n = 1])
  /\ UNCHANGED <<line_num, cursor_pos, hw, gddram, lost>>

\* Mutant: clear the display without moving to its first cell.
RemoveInPlace(w) ==
  /\ Ready(w) /\ drv = "bound"
  /\ drv' = "removing"
  /\ Goto(w, [Idle EXCEPT !.at = "clear"])
  /\ UNCHANGED <<line_num, cursor_pos, hw, gddram, lost>>

\* Remove leaves the files where they are: it deletes the group from the
\* client's device, while probe had created it on the root device.
Remove(w) ==
  /\ Ready(w) /\ drv = "bound"
  /\ drv' = "removing"
  /\ Goto(w, [Idle EXCEPT !.at = "set", !.then = "clear"])
  /\ UNCHANGED <<line_num, cursor_pos, hw, gddram, lost>>
----------------------------------------------------------------------------
\* Mutant: no transfer when the cursor is already there.
SetCursorIfMoved(w) ==
  /\ At(w, "set")
  /\ LET t == call[w]
         moved == t.line # line_num \/ t.pos # cursor_pos
     IN  /\ line_num' = t.line /\ cursor_pos' = t.pos
         /\ Goto(w, IF moved THEN [t EXCEPT !.at = "cursor", !.n = 1] ELSE Resume(t))
  /\ UNCHANGED <<drv, hw, gddram, lost>>

\* ssd1306_set_cursor(call[w].line, call[w].pos): the range check ...
SetCursor(w) ==
  /\ At(w, "set")
  /\ LET t == call[w]
         inRange == t.line <= SSD1306_MAX_LINE /\ t.pos < SSD1306_MAX_SEG
     IN  /\ line_num'   = IF inRange THEN t.line ELSE line_num
         /\ cursor_pos' = IF inRange THEN t.pos ELSE cursor_pos
         /\ Goto(w, IF inRange THEN [t EXCEPT !.at = "cursor", !.n = 1] ELSE Resume(t))
  /\ UNCHANGED <<drv, hw, gddram, lost>>

\* Mutant: the last page is not sent.
SendFiveBytes(w) ==
  /\ At(w, "cursor")
  /\ SendCommand(CursorByte(call[w].n))
  /\ Goto(w, IF call[w].n < 5 THEN [call[w] EXCEPT !.n = @ + 1]
             ELSE Resume(call[w]))
  /\ UNCHANGED <<line_num, cursor_pos, drv>>

\* ... and its six transfers.
SendCursorByte(w) ==
  /\ At(w, "cursor")
  /\ SendCommand(CursorByte(call[w].n))
  /\ Goto(w, IF call[w].n < 6 THEN [call[w] EXCEPT !.n = @ + 1]
             ELSE Resume(call[w]))
  /\ UNCHANGED <<line_num, cursor_pos, drv>>
----------------------------------------------------------------------------
\* Mutant: the glyph that ends in the spacing column is taken to fit.
PrintCharTight(w) ==
  /\ At(w, "string")
  /\ LET rest == call[w].rest
         full == cursor_pos + SSD1306_DEF_FONT_SIZE > SSD1306_MAX_SEG
     IN  \/ rest = <<>> /\ Goto(w, Idle)
         \/ /\ rest # <<>> /\ (full \/ Head(rest) = "newline")
            /\ Goto(w, [call[w] EXCEPT !.at = "newline", !.reg = line_num])
         \/ /\ rest # <<>> /\ ~full /\ Head(rest) # "newline"
            /\ Goto(w, [call[w] EXCEPT !.at = "glyph", !.n = 0])
  /\ UNCHANGED <<line_num, cursor_pos, drv, hw, gddram, lost>>

\* One iteration of ssd1306_string: the end of the string, a new line, or a
\* glyph on this line.
PrintChar(w) ==
  /\ At(w, "string")
  /\ LET rest == call[w].rest
         full == cursor_pos + SSD1306_DEF_FONT_SIZE >= SSD1306_MAX_SEG
     IN  \/ rest = <<>> /\ Goto(w, Idle)
         \/ /\ rest # <<>> /\ (full \/ Head(rest) = "newline")
            /\ Goto(w, [call[w] EXCEPT !.at = "newline", !.reg = line_num])
         \/ /\ rest # <<>> /\ ~full /\ Head(rest) # "newline"
            /\ Goto(w, [call[w] EXCEPT !.at = "glyph", !.n = 0])
  /\ UNCHANGED <<line_num, cursor_pos, drv, hw, gddram, lost>>

\* Mutant: the character that did not fit is dropped.
GoToNextLineDrops(w) ==
  /\ At(w, "newline")
  /\ line_num' = ((call[w].reg + 1) % 256) % (SSD1306_MAX_LINE + 1)
  /\ Goto(w, [call[w] EXCEPT !.at = "set", !.line = line_num', !.pos = 0, !.reg = 0,
                             !.then = "string", !.rest = Tail(@)])
  /\ UNCHANGED <<cursor_pos, drv, hw, gddram, lost>>

\* ssd1306_go_to_next_line; the increment and the mask are one store of the
\* compiled code.  A newline character is then done with; any other one is
\* printed at the start of the new line.
GoToNextLine(w) ==
  /\ At(w, "newline")
  /\ line_num' = ((call[w].reg + 1) % 256) % (SSD1306_MAX_LINE + 1)
  /\ LET t == [call[w] EXCEPT !.at = "set", !.line = line_num', !.pos = 0, !.reg = 0]
     IN  Goto(w, IF Head(t.rest) = "newline"
                 THEN [t EXCEPT !.then = "string", !.rest = Tail(t.rest)]
                 ELSE [t EXCEPT !.then = "glyph"])
  /\ UNCHANGED <<cursor_pos, drv, hw, gddram, lost>>

\* The columns of a glyph and the blank one after it: one transfer each,
\* followed by cursor_pos++, a load and a store.
WriteColumn(w) ==
  /\ At(w, "glyph")
  /\ SendData(IF call[w].n < SSD1306_DEF_FONT_SIZE THEN Ink ELSE Blank)
  /\ Goto(w, [call[w] EXCEPT !.at = "load"])
  /\ UNCHANGED <<line_num, cursor_pos, drv>>

LoadCursor(w) ==
  /\ At(w, "load")
  /\ Goto(w, [call[w] EXCEPT !.at = "store", !.reg = cursor_pos])
  /\ UNCHANGED <<line_num, cursor_pos, drv, hw, gddram, lost>>

StoreCursor(w) ==
  /\ At(w, "store")
  /\ cursor_pos' = (call[w].reg + 1) % 256
  /\ LET t == [call[w] EXCEPT !.reg = 0]
     IN  Goto(w, IF t.n < SSD1306_DEF_FONT_SIZE
                 THEN [t EXCEPT !.at = "glyph", !.n = @ + 1]
                 ELSE [t EXCEPT !.at = "string", !.then = "idle", !.n = 0,
                                !.line = 0, !.pos = 0, !.rest = Tail(@)])
  /\ UNCHANGED <<line_num, drv, hw, gddram, lost>>
----------------------------------------------------------------------------
\* ssd1306_fill: `Total' data transfers from wherever the pointer stands.
FillByte(w) ==
  /\ At(w, "fill")
  /\ SendData(call[w].data)
  /\ Goto(w, IF call[w].n + 1 < Total THEN [call[w] EXCEPT !.n = @ + 1]
             ELSE Resume(call[w]))
  /\ UNCHANGED <<line_num, cursor_pos, drv>>

\* ssd1306_display_init, then the clearing of the display; probe returns.
SendInitByte(w) ==
  /\ At(w, "init")
  /\ SendCommand(InitBytes[call[w].n])
  /\ Goto(w, IF call[w].n < Len(InitBytes) THEN [call[w] EXCEPT !.n = @ + 1]
             ELSE [Idle EXCEPT !.at = "fill", !.then = "probed"])
  /\ UNCHANGED <<line_num, cursor_pos, drv>>

ProbeDone(w) ==
  /\ At(w, "probed")
  /\ drv' = "bound"
  /\ Goto(w, Idle)
  /\ UNCHANGED <<line_num, cursor_pos, hw, gddram, lost>>

\* The rest of remove: clear the display, then switch it off.
ClearOnRemove(w) ==
  /\ At(w, "clear")
  /\ Goto(w, [Idle EXCEPT !.at = "fill", !.then = "off"])
  /\ UNCHANGED <<line_num, cursor_pos, drv, hw, gddram, lost>>

SwitchOff(w) ==
  /\ At(w, "off")
  /\ SendCommand(DisplayOff)
  /\ drv' = "removed"
  /\ Goto(w, Idle)
  /\ UNCHANGED <<line_num, cursor_pos>>
----------------------------------------------------------------------------
Init ==
  /\ line_num = 0 /\ cursor_pos = 0
  /\ drv = "unbound"
  /\ call = [w \in Writers |-> Idle]
  /\ hw = PowerOn
  /\ gddram \in [Cells -> {Blank, Ink}]    \* display RAM is random at power-on
  /\ lost = 0

Begin(w) ==
  \/ \E v \in CursorValues : CursorPosStore(w, v)
  \/ \E v \in LineValues   : LineNumStore(w, v)
  \/ \E v \in FillValues   : CommandStore(w, v)
  \/ \E m \in Messages     : MessageStore(w, m)
  \/ Probe(w)
  \/ Remove(w)

\* The driver's own steps, once a call has begun.
Continue(w) ==
  \/ SetCursor(w)    \/ SendCursorByte(w) \/ PrintChar(w)
  \/ GoToNextLine(w) \/ WriteColumn(w)    \/ LoadCursor(w)
  \/ StoreCursor(w)  \/ FillByte(w)       \/ SendInitByte(w)
  \/ ProbeDone(w)    \/ ClearOnRemove(w)  \/ SwitchOff(w)

Next == \E w \in Writers : Begin(w) \/ Continue(w)

Spec == Init /\ [][Next]_vars

\* A call that has begun runs to its end: nothing in it waits for another
\* process, and the scheduler runs every runnable thread.
FairSpec == Spec /\ \A w \in Writers : WF_vars(Continue(w))
----------------------------------------------------------------------------
Labels == { "idle", "set", "cursor", "string", "newline", "glyph", "load", "store",
            "fill", "init", "probed", "clear", "off" }

Calls ==
  [ at : Labels, then : {"idle", "string", "glyph", "clear", "probed", "off"},
    n : Nat, line : Byte, pos : Byte, rest : Seq({"glyph", "newline"}),
    reg : Byte, data : Byte ]

\* Every variable keeps its type; in particular the cursor stays a pair of
\* uint8_t and the RAM pointer stays on the panel.
TypeOK ==
  /\ line_num \in Byte /\ cursor_pos \in Byte
  /\ drv \in {"unbound", "probing", "bound", "removing", "removed"}
  /\ call \in [Writers -> Calls]
  /\ hw \in Controller
  /\ gddram \in [Cells -> Byte]
  /\ lost \in 0 .. MaxLoss

\* A column of a glyph is about to land in the cell the text cursor names.
InStep ==
  \A w \in Writers :
    At(w, "glyph") /\ line_num <= SSD1306_MAX_LINE =>
      /\ hw.need = 0 /\ hw.mode = 0
      /\ hw.page = line_num /\ hw.col = cursor_pos

\* With one user and no failed transfer, a column of a glyph always lands in
\* the cell the driver's text cursor names: the wrap to the next line at the
\* right edge (ssd1306.c:402), the window set by set_cursor and the
\* cursor_pos++ after each transfer keep the two pointers together, also
\* after a cursor position out of range.  A line out of range is the one
\* exception: set_cursor ignores it and the text goes where the pointer is.
DataAtCursor == lost = 0 => InStep

\* No call is inside a command sequence and the decoder is between commands.
BetweenCommands ==
  (\A w \in Writers : ~At(w, "cursor") /\ ~At(w, "init")) => hw.need = 0

\* However the bytes of several users' calls mix, the controller is not left
\* waiting for the rest of a half-sent command when no call is inside a sequence.
\* There is one way to do that: line_num_store takes any number (ssd1306.c:241),
\* and one that is itself an opcode of two arguments, stored between another
\* call's range check and its line byte, may come when the decoder is out of
\* step.  The byte after it is the last of all, so that one argument is missing.
FramingRestored ==
  lost = 0 /\ ~BetweenCommands =>
    hw.need = 1 /\ \E value \in LineValues : hw.op = value % 256

\* With one user and no failed transfer, probe and remove blank the whole
\* panel, although ssd1306_fill writes only the current window: probe finds
\* the reset window, remove sets the full one first (ssd1306.c:347, 516).
BlankAfterFill ==
  \A w \in Writers :
    lost = 0 /\ (At(w, "probed") \/ At(w, "off")) => \A cell \in Cells : gddram[cell] = Blank

\* "Move the Cursor to specified position only if it is in range"
\* (ssd1306.c:371): when set_cursor returns after its six transfers and none
\* has failed, the RAM pointer is at the line and position it was called with.
SetCursorMoves ==
  [][\A w \in Writers :
       At(w, "cursor") /\ ~At(w, "cursor")' /\ lost' = 0 =>
         hw'.page = call[w].line /\ hw'.col = call[w].pos]_vars

\* "Move the Cursor to specified position only if it is in range"
\* (ssd1306.c:371): the position and the line that set_cursor has still to send
\* are on the panel, as they were when it checked them.
MovesOnlyInRange ==
  \A w \in Writers :
    At(w, "cursor") => /\ call[w].n <= 2 => cursor_pos \in Columns
                       /\ call[w].n <= 5 => line_num \in Pages

\* Failed transfers put text and window out of step only for a while: once
\* transfers stop failing, the set_cursor of the messages that follow brings the
\* controller and the text cursor together again for good.  Only the addressing
\* mode is sent once, at probe, and is not repaired.
ResyncAfterLoss == <>[](hw.mode = 0 => InStep)

\* When k transfers have failed, one set_cursor that finds its position in range
\* and the decoder between commands is enough, until another transfer fails.
RepairBegins(w, k) ==
  /\ At(w, "set") /\ call[w].line <= SSD1306_MAX_LINE /\ call[w].pos < SSD1306_MAX_SEG
  /\ hw.need = 0 /\ hw.mode = 0 /\ lost = k

Repairs(w, k) == [](RepairBegins(w, k) => [](lost = k => InStep))

SetCursorRepairs == \A w \in Writers, k \in 0 .. MaxLoss : Repairs(w, k)

\* The display its only user sees.  A column counts as printed when it has been
\* sent, although cursor_pos follows later; a cursor that set_cursor was called
\* with counts before it has been stored.
User    == CHOOSE w \in Writers : TRUE
Printed == At(User, "load") \/ At(User, "store")
LastCol == call[User].n = SSD1306_DEF_FONT_SIZE

ShownLine == IF At(User, "set") THEN call[User].line ELSE line_num
ShownPos  == IF At(User, "set") THEN call[User].pos
             ELSE IF Printed THEN cursor_pos + 1 ELSE cursor_pos
ShownText == IF Printed /\ LastCol THEN Tail(call[User].rest) ELSE call[User].rest
ShownCol  == IF At(User, "glyph") THEN call[User].n
             ELSE IF Printed /\ ~LastCol THEN call[User].n + 1 ELSE 0

Text == INSTANCE TextDisplay WITH
          cells <- gddram, line <- ShownLine, pos <- ShownPos, text <- ShownText,
          col <- ShownCol, power <- drv, broken <- lost > 0

\* One user, until a transfer fails: the driver and the controller together are
\* a text display, although each of its steps is many transfers, and two
\* cursors, the driver's and the controller's, have to move as one.
IsTextDisplay == Text!TextSpec
=============================================================================
