SPECIFICATION Spec
CONSTANTS
  Values <- ShortAndLong
  MaxPresses = 1
  MayFail = TRUE
CHECK_DEADLOCK FALSE
INVARIANTS TypeOK TextsInPlace LedsFollow
PROPERTIES PressShown Flashes
