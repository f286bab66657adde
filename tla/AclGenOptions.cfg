CONSTANTS
  Policies <- MCPolicies
  MaxCalls = 9
  Directories <- MCDirectories
  Generators <- MCGenerators
  NONE = NONE
SPECIFICATION GSpec
INVARIANT OptionsAreHonoured
