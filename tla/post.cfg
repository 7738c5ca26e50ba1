SPECIFICATION ReductionSpec
CONSTANTS
  SolvedKeys <- MCKeys
  MinTarget = 3
  PassBudget = 2
  ChunkSize = 2
  Corners <- MCCorners
  Errors <- MCErrors
  ScreenErrors <- MCScreenErrors
  kTieEpsilon = 1
  MaxVertices = 0
  LadderBudget = 8
CHECK_DEADLOCK FALSE
INVARIANTS
  NeverBelowMinimum
  ReportsTheValidatedError
  ClassesStayTogether
PROPERTIES
  CornersKept
  CancelKeepsTheSolvedKeys
