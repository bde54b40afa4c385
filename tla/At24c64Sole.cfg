SPECIFICATION Spec
CONSTANTS
  Users = {u1}
  Files = {f1, f2}
  Values <- Bits
  Counts <- CarefulCounts
  LAST_BYTE = 5
  Offsets <- None
  PAGE_SIZE = 3
  MEM_SIZE = 6
  COUNT_MOD = 4
  Careful = TRUE
  MaxErrors = 0
SYMMETRY AnyFile
PROPERTIES WriteStores IsByteFile
