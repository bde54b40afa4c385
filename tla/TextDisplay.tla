---------------------------- MODULE TextDisplay ----------------------------
(***************************************************************************)
(* What the only user of the display's sysfs files may expect of it: a     *)
(* grid of cells and a text cursor.  A message is printed from the cursor  *)
(* on, column by column, every column in the cell the cursor names; a      *)
(* glyph that does not fit with the space after it starts the next line,   *)
(* and so does a newline; the line after the last one is the first.        *)
(* Probing and removing the driver leave the grid blank.                   *)
(*                                                                         *)
(* On a line the panel does not have, no cell is promised.  After a failed *)
(* transfer nothing is.                                                    *)
(*                                                                         *)
(* Ssd1306 models the driver and the controller that provide it.           *)
(***************************************************************************)
EXTENDS Integers, Sequences

CONSTANTS
  SSD1306_MAX_SEG, SSD1306_MAX_LINE, SSD1306_DEF_FONT_SIZE,   \* as in Ssd1306
  Messages, CursorValues, LineValues, FillValues

VARIABLES
  cells,       \* what the grid shows
  line, pos,   \* the text cursor
  text,        \* what is left to print of a message
  col,         \* columns printed of the glyph in hand
  power,       \* "unbound", "probing", "bound", "removing" or "removed"
  broken       \* a transfer has failed

display  == <<cells, line, pos, text, col, power>>
textVars == <<display, broken>>

Grid     == (0 .. SSD1306_MAX_LINE) \X (0 .. SSD1306_MAX_SEG - 1)
Ink      == 1
Blank    == 0
AllBlank == \A cell \in Grid : cells[cell] = Blank

\* The files are there, and no message, no probe and no remove is under way.
Usable == power \in {"bound", "removed"} /\ text = <<>>

MovePos(value) ==
  /\ Usable /\ pos' = value % 256
  /\ UNCHANGED <<cells, line, text, col, power>>

MoveLine(value) ==
  /\ Usable /\ line' = value % 256
  /\ UNCHANGED <<cells, pos, text, col, power>>

Say(message) ==
  /\ Usable /\ text' = message
  /\ UNCHANGED <<cells, line, pos, col, power>>

\* A whole glyph and its space fit on the line.
Fits == pos + SSD1306_DEF_FONT_SIZE < SSD1306_MAX_SEG

\* The next column of a glyph, or the space after it, which ends it.
PrintColumn ==
  /\ text # <<>> /\ Head(text) = "glyph" /\ (col = 0 => Fits)
  /\ LET last == col = SSD1306_DEF_FONT_SIZE
     IN  /\ \E cell \in Grid :
              /\ line <= SSD1306_MAX_LINE => cell = <<line, pos>>
              /\ cells' = [cells EXCEPT ![cell] = IF last THEN Blank ELSE Ink]
         /\ col' = IF last THEN 0 ELSE col + 1
         /\ text' = IF last THEN Tail(text) ELSE text
  /\ pos' = pos + 1
  /\ UNCHANGED <<line, power>>

NextLine ==
  /\ text # <<>> /\ col = 0
  /\ Head(text) = "newline" \/ ~Fits
  /\ line' = ((line + 1) % 256) % (SSD1306_MAX_LINE + 1)
  /\ pos' = 0
  /\ text' = IF Head(text) = "newline" THEN Tail(text) ELSE text
  /\ UNCHANGED <<cells, col, power>>

\* One cell of a fill, by command, or with blanks by probe and remove.
Fill(value) ==
  /\ text = <<>>
  /\ \/ Usable /\ value \in {v % 256 : v \in FillValues}
     \/ power \in {"probing", "removing"} /\ value = Blank
  /\ \E cell \in Grid : cells' = [cells EXCEPT ![cell] = value]
  /\ UNCHANGED <<line, pos, text, col, power>>

Probe ==
  /\ power = "unbound" /\ power' = "probing"
  /\ UNCHANGED <<cells, line, pos, text, col>>

Probed ==
  /\ power = "probing" /\ AllBlank /\ power' = "bound"
  /\ UNCHANGED <<cells, line, pos, text, col>>

\* Remove homes the cursor before it clears the display.
Remove ==
  /\ Usable /\ power = "bound" /\ power' = "removing"
  /\ line' = 0 /\ pos' = 0
  /\ UNCHANGED <<cells, text, col>>

Removed ==
  /\ power = "removing" /\ AllBlank /\ power' = "removed"
  /\ UNCHANGED <<cells, line, pos, text, col>>
----------------------------------------------------------------------------
TextInit ==
  /\ cells \in [Grid -> {Blank, Ink}]
  /\ line = 0 /\ pos = 0 /\ text = <<>> /\ col = 0
  /\ power = "unbound" /\ broken = FALSE

TextNext ==
  \/ broken'
  \/ /\ ~broken /\ ~broken'
     /\ \/ \E value \in CursorValues : MovePos(value)
        \/ \E value \in LineValues : MoveLine(value)
        \/ \E message \in Messages : Say(message)
        \/ PrintColumn \/ NextLine
        \/ \E value \in 0 .. 255 : Fill(value)
        \/ Probe \/ Probed \/ Remove \/ Removed

TextSpec == TextInit /\ [][TextNext]_textVars
=============================================================================
