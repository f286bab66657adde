CONSTANTS
  NONE = NONE
  ANY = ANY
  Bits <- MCWidths
  Lists <- MCLists
  PortsAdded <- MCPortsAdded
  AnyPort <- MCAnyPort
  Others <- MCOthers
  Supersets <- MCSupersets
  Excludes <- MCExcludes
  Pieces <- MCPieces
  Comma = ","
  TermLists <- MCFilters
  PolicyTerms <- CheckedTerms
  Policies <- MCPolicies
  Queries <- MCQueries
  Packets <- AllPackets
SPECIFICATION Spec
INVARIANTS CollapseKeepsPorts TwoPassesEnough ContainmentSound ContainmentFindsAll
           ExcludeIsExact CollapsedIsShortest TextsAreKept
           ShadedIsUnreachable ShadedIsFound FlattenedIsReduced
           ExactIsReached DecisionIsReported ShadedTermIsNeverExact
