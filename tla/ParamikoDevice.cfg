CONSTANTS
  NONE = NONE
  MaxCalls = 4
SPECIFICATION FairSpec
INVARIANT EffortIsBounded
PROPERTIES ImplementsChannel CallEnds
CHECK_DEADLOCK FALSE
