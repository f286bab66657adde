CONSTANTS
  p1 = p1
  p2 = p2
  NONE = NONE
  Pushes <- MCPushes
  Calls <- MCCalls
SPECIFICATION Spec
SYMMETRY Symmetry
INVARIANTS SuccessIsCommitted PatchUndoesOwnCommit SuccessLeavesNoFiles
CHECK_DEADLOCK FALSE
