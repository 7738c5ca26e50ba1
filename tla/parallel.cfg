SPECIFICATION ParallelSpec
CONSTANTS
  vert = vert
  in_tangent = in_tangent
  out_tangent = out_tangent
  Children <- MCChildren
  Workers = 2
  Errors <- MCErrors
  Tolerance = 1
  EmitMayThrow = TRUE
  e1 = e1
  e2 = e2
  e3 = e3
  Emitters <- MCEmitters
  Events = 2
  LineLength = 3
  WritesMayFail = TRUE
INVARIANTS
  NoChildLost
  DecompositionOnlyImproves
  OnlyAThrowTearsALine
PROPERTIES
  KeepsPromise
  EveryTaskGetsThrough
