SPECIFICATION Spec
CONSTANTS
  Paths <- MCPaths
  Estimates <- MCEstimates
  KeySolves <- MCKeySolves
  BaselineSolves <- MCBaselineSolves
INVARIANTS
  NeverRegresses
  AcceptedIsValidated
  FitsWithinConfiguredVertices
