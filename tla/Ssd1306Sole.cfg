SPECIFICATION FairSpec
CONSTANTS
  SSD1306_MAX_SEG = 3
  SSD1306_MAX_LINE = 1
  SSD1306_DEF_FONT_SIZE = 1
  Writers = {w1}
  Messages <- TextMessages
  CursorValues <- EdgeCursors
  LineValues <- EdgeLines
  FillValues = {0}
  MaxLoss = 1
INVARIANTS TypeOK DataAtCursor BlankAfterFill
PROPERTIES SetCursorMoves ResyncAfterLoss IsTextDisplay SetCursorRepairs
