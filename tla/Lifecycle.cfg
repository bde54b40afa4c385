SPECIFICATION Spec
CONSTANTS
  MaxLoads = 3
  MaxProbes = 3
  MaxUsers = 2
  MaxFaults = 2
CHECK_DEADLOCK FALSE
INVARIANTS TypeOK FilesHaveData OopsExplained CleanUnload
