SPECIFICATION Spec
CONSTANTS
  Calls <- MCCalls
  OutlineTolerance = 3
  RegionTolerance = 1
  MaxRegions = 3
  MaxGap = 4
  MaxBoundaryPoints = 4
  FittedPairs <- Eases
INVARIANTS
  RegionAnchorsAreFewest
  SeenCancelNeverConverges
  FewestKeysInAll
  EmittedFollowsSource
