CONSTANTS
  NONE = NONE
  MaxCalls = 2
  Data = {"d", "e"}
  DataOf <- MCSameData
  MaxSessions = 2
  MaxLosses = 2
SPECIFICATION FairSpec
INVARIANTS ResponseIsOwn SuccessIsApplied OnlyWholeFiles SuccessLeavesNoFile
PROPERTY ImplementsChannel
CHECK_DEADLOCK FALSE
