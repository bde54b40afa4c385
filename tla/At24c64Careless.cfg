SPECIFICATION Spec
CONSTANTS
  Users = {u1}
  Files = {f1}
  Values <- Bits
  Counts <- EdgeCounts
  LAST_BYTE = 5
  Offsets <- SeekOffsets
  PAGE_SIZE = 3
  MEM_SIZE = 6
  COUNT_MOD = 4
  Careful = FALSE
  MaxErrors = 1
INVARIANTS TypeOK
PROPERTIES OutsideUntouched
