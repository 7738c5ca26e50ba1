SPECIFICATION MCSpec
CONSTANTS
  Problems <- MCProblems
  Values <- MCValues
  kInfSegments = 100
CHECK_DEADLOCK FALSE
INVARIANTS
  EveryReachedStartTried
  SeenCancelStops
  ResultIsAChain
  FewestKeys
  GreedyIsAShortestChain
