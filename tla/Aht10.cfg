SPECIFICATION Spec
CONSTANTS
  u1 = u1
  u2 = u2
  Users <- TwoUsers
  Probe = probe
  Measurements <- TwoOfThem
  Garbage <- OnStack
  Statuses <- Ready
  MaxErrors = 1
SYMMETRY Symmetry
INVARIANTS TypeOK ShowsMeasured
