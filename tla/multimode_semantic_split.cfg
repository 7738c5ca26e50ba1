SPECIFICATION Spec
CONSTANTS
  Calls <- OpposedCalls
  OutlineTolerance = 1
  RegionTolerance = 1
  MaxRegions = 2
  MaxGap = 8
  MaxBoundaryPoints = 12
  FittedPairs <- Eases
INVARIANT OpposedTimingIsSplit
