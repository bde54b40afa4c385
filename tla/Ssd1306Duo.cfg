SPECIFICATION Spec
CONSTANTS
  SSD1306_MAX_SEG = 2
  SSD1306_MAX_LINE = 0
  SSD1306_DEF_FONT_SIZE = 1
  Writers = {w1, w2}
  Messages <- LineBreak
  CursorValues <- OpcodeCursors
  LineValues <- OpcodeLines
  FillValues = {}
  MaxLoss = 0
SYMMETRY AnyUser
INVARIANTS FramingRestored
