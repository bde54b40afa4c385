------------------------- MODULE Ssd1306Controller -------------------------
(***************************************************************************)
(* The SSD1306 display controller at the far end of the I2C bus, as the    *)
(* driver i2c/ssd1306/ssd1306.c drives it.  Hardware, so external: the     *)
(* opcodes, their argument counts and the horizontal addressing mode are   *)
(* the ones named by the comments beside the driver's own transfers        *)
(* (ssd1306.c:320-345 and 376-382).                                        *)
(*                                                                         *)
(* Every transfer of the driver carries one byte: a command byte, fed to a *)
(* decoder that collects the arguments of a command over several           *)
(* transfers, or a data byte, stored at the RAM pointer, which then        *)
(* advances inside the addressing window.                                  *)
(*                                                                         *)
(* Only the commands the driver sends are decoded.  Any other byte in      *)
(* command position is a command without arguments and without effect.     *)
(***************************************************************************)
EXTENDS Integers, Sequences

CONSTANTS
  SSD1306_MAX_SEG,   \* columns of the panel (128)
  SSD1306_MAX_LINE   \* number of the last page (7)

ASSUME PanelAssumption ==
  /\ SSD1306_MAX_SEG \in 2 .. 128
  /\ SSD1306_MAX_LINE \in {0, 1, 3, 7}

Byte    == 0 .. 255
Columns == 0 .. SSD1306_MAX_SEG - 1
Pages   == 0 .. SSD1306_MAX_LINE
Cells   == Pages \X Columns

SetMode    == 32             \* 0x20, memory addressing mode
SetColumns == 33             \* 0x21, column start and end address
SetPages   == 34             \* 0x22, page start and end address
StartLines == 64 .. 127      \* 0x40-0x7F, display start line
DisplayOff == 174            \* 0xAE
DisplayOn  == 175            \* 0xAF

\* 0x81, 0x8D, 0xA8, 0xD3, 0xD5, 0xD9, 0xDA, 0xDB: panel settings, one argument
Settings == {129, 141, 168, 211, 213, 217, 218, 219}

ArgCount(b) ==
  CASE b \in {SetColumns, SetPages}    -> 2
    [] b \in Settings \cup {SetMode}   -> 1
    [] OTHER                           -> 0

Controller ==
  [ op        : Byte,            \* command whose arguments are awaited
    need      : 0 .. 2,          \* how many of them are still to come
    first     : Byte,            \* the first of two, once it has come
    mode      : 0 .. 3,          \* addressing mode, 0 = horizontal
    startLine : 0 .. 63,
    on        : BOOLEAN,
    colStart  : Columns, colEnd  : Columns, col  : Columns,
    pageStart : Pages,   pageEnd : Pages,   page : Pages ]

\* The reset state: the whole panel is the window, page addressing, off.
PowerOn ==
  [ op |-> 0, need |-> 0, first |-> 0, mode |-> 2, startLine |-> 0, on |-> FALSE,
    colStart  |-> 0, colEnd  |-> SSD1306_MAX_SEG - 1, col  |-> 0,
    pageStart |-> 0, pageEnd |-> SSD1306_MAX_LINE,    page |-> 0 ]

\* Execute a complete command `op' whose last argument (if any) is b.
Execute(h, op, b) ==
  CASE op = SetColumns ->
         LET start == h.first % SSD1306_MAX_SEG
         IN  [h EXCEPT !.need = 0, !.colStart = start, !.col = start,
                       !.colEnd = b % SSD1306_MAX_SEG]
    [] op = SetPages ->
         LET start == h.first % (SSD1306_MAX_LINE + 1)
         IN  [h EXCEPT !.need = 0, !.pageStart = start, !.page = start,
                       !.pageEnd = b % (SSD1306_MAX_LINE + 1)]
    [] op = SetMode        -> [h EXCEPT !.need = 0, !.mode = b % 4]
    [] op \in StartLines   -> [h EXCEPT !.need = 0, !.startLine = op - 64]
    [] op = DisplayOff     -> [h EXCEPT !.need = 0, !.on = FALSE]
    [] op = DisplayOn      -> [h EXCEPT !.need = 0, !.on = TRUE]
    [] OTHER               -> [h EXCEPT !.need = 0]

\* One command byte reaches the decoder.
Command(h, b) ==
  CASE h.need = 2 -> [h EXCEPT !.need = 1, !.first = b]
    [] h.need = 1 -> Execute(h, h.op, b)
    [] OTHER      -> IF ArgCount(b) = 0 THEN Execute(h, b, b)
                     ELSE [h EXCEPT !.op = b, !.need = ArgCount(b)]

\* The pointer after one data byte: to the right inside the window, then to
\* the start of the window's next page (only in horizontal addressing mode).
Advance(h) ==
  LET nextPage == IF h.page = h.pageEnd THEN h.pageStart
                  ELSE (h.page + 1) % (SSD1306_MAX_LINE + 1)
  IN  IF h.col # h.colEnd
      THEN [h EXCEPT !.col = (h.col + 1) % SSD1306_MAX_SEG]
      ELSE [h EXCEPT !.col = h.colStart,
                     !.page = IF h.mode = 0 THEN nextPage ELSE h.page]
=============================================================================
