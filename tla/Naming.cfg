CONSTANTS
  NONE = NONE
  Bits <- MCBits
  Names <- MCNames
  ServiceValues = {"80/tcp", "53/udp"}
  ProtocolOf <- MCProtocolOf
  NetworkValues = {"0.0/1", "0.1/2", "fe80/1", "fe00/0"}
  NetworkOf <- MCNetworkOf
  LetterFirst = {"fe80/1", "fe00/0"}
  Comments = {"text"}
  MaxDepth = 6
  MaxLists = 2
  Jobs <- MCJobs
  Queries <- MCQueries
SPECIFICATION Spec
INVARIANTS DefinitionsAreWhole UndefinedIsReported LookupIsExact ParentsAreAncestors
