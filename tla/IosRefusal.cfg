CONSTANTS
  NONE = NONE
  MaxCalls = 2
  Data = {"d", "e"}
  DataOf <- MCSameData
  MaxSessions = 2
  MaxLosses = 2
SPECIFICATION Spec
INVARIANT RefusalIsReported
CHECK_DEADLOCK FALSE
