SPECIFICATION Spec
CONSTANTS
  Values <- ShortAndLong
  MaxPresses = 1
  MayFail = TRUE
CHECK_DEADLOCK FALSE
INVARIANTS SlotsKept
