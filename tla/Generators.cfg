CONSTANTS
  NONE = NONE
  Bits <- MCBits
  HighPorts <- MCHighPorts
  IcmpTypes <- MCIcmpTypes
  ShortNames <- MCShortNames
  Abbreviated <- MCAbbreviated
  Truncated <- MCTruncated
  Token <- MCToken
  MaxPorts = 3
  MaxPairs = 1
  StandardNumbers = {"10"}
  OtherNumbers = {"100"}
  Jobs <- MCJobs
  Packets <- MCPackets
SPECIFICATION Spec
INVARIANTS RenderedAsMeant DecidedAsWritten SettingsHold WellFormed
