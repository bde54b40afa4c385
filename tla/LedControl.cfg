SPECIFICATION Spec
CONSTANTS
  Children = 3
  MaxLoads = 2
  MaxBinds = 2
  MaxFaults = 1
CHECK_DEADLOCK FALSE
INVARIANTS TypeOK FilesHaveData DarkUntilWritten OopsNeedsDisabled
PROPERTIES BindsAgain
