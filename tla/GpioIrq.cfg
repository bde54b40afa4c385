SPECIFICATION Spec
CONSTANTS
  a1 = a1
  a2 = a2
  v1 = v1
  NoTask = NoTask
  Apps <- TwoApps
  Visitors <- OneVisitor
  MaxQueued = 2
  MaxPresses = 4
  MaxLoads = 2
  MaxFaults = 2
CHECK_DEADLOCK FALSE
SYMMETRY Symmetry
INVARIANTS TypeOK TaskAlive NeverKilled CountedOnce HandlerBacked QuietWhenGone NothingLeftBehind HarmNeedsRefusal
