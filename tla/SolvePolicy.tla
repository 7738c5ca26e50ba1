----------------------------- MODULE SolvePolicy -----------------------------
(***************************************************************************)
(* The pure decisions of the solve command: what each optimization mode    *)
(* allows, which route solves a property, which post-solve stages it may   *)
(* enter, and the number a progress event carries.                         *)
(***************************************************************************)
EXTENDS Integers

Modes == {"full", "temporal_only", "vertex_only", "motion_smooth",
          "motion_path_smooth"}

Routes == {"PreserveSourceKeys", "MotionSmooth", "FrameKeyFallback",
           "ReplacementShapeFlatTemporal", "PathDecomposed", "PlainTemporal"}

(***************************************************************************)
(* The run's configuration, as far as control depends on it.  coarse is    *)
(* EffectivePathTolerance(config) >= 2.0.                                   *)
(***************************************************************************)
ConfigSpace ==
  [mode : Modes, spatialFit : BOOLEAN, replacementFit : BOOLEAN,
   preferVertices : BOOLEAN, decompose : BOOLEAN, landmarks : BOOLEAN,
   coarse : BOOLEAN]

AllowsTemporal(c) == c.mode \in {"full", "temporal_only"}
AllowsVertex(c) == c.mode \in {"full", "vertex_only"}
AllowsSpatialTopology(c) == c.mode = "full"
UsesMotionSmoothing(c) == c.mode \in {"motion_smooth", "motion_path_smooth"}

(***************************************************************************)
(* What path preparation leaves behind for one property: whether its       *)
(* samples are a flat shape path that ends in a static run, and which of   *)
(* the fast path, the outline prepass, the replacement fit (perhaps        *)
(* refined) and the canonical fit applied.  refittable: its value kind and *)
(* sampling rate admit a temporal refit.                                   *)
(***************************************************************************)
PreparationSpace ==
  [shape : BOOLEAN, tail : BOOLEAN, nearOptimal : BOOLEAN, outline : BOOLEAN,
   replaced : BOOLEAN, refined : BOOLEAN, canonical : BOOLEAN,
   refittable : BOOLEAN]

TriesNearOptimal(c, p) ==
  AllowsSpatialTopology(c) /\ p.shape /\ ~c.replacementFit

TriesOutline(c, p) ==
  /\ ~p.nearOptimal
  /\ p.shape
  /\ \/ AllowsSpatialTopology(c) /\ c.replacementFit
     \/ AllowsVertex(c) /\ ~AllowsTemporal(c) /\ c.spatialFit

TriesReplacement(c, p) ==
  ~p.nearOptimal /\ AllowsSpatialTopology(c) /\ c.replacementFit /\ p.shape

TriesCanonical(c, p) ==
  /\ ~p.nearOptimal /\ ~p.replaced
  /\ AllowsSpatialTopology(c) /\ c.spatialFit /\ p.shape

Preparations(c) ==
  {p \in PreparationSpace :
     /\ p.nearOptimal => TriesNearOptimal(c, p)
     /\ p.outline => TriesOutline(c, p)
     /\ p.replaced => TriesReplacement(c, p)
     /\ p.refined => p.replaced
     /\ p.canonical => TriesCanonical(c, p)}

\* The fit reduced the path, so its temporal solve uses the replacement route.
PathTemporalReducedByFit(c, p) ==
  /\ AllowsTemporal(c) /\ p.shape
  /\ p.replaced \/ (p.canonical /\ c.coarse)

ChoosePropertySolveRoute(c, p) ==
  CASE p.nearOptimal -> "PreserveSourceKeys"
    [] ~p.nearOptimal /\ UsesMotionSmoothing(c) -> "MotionSmooth"
    [] ~p.nearOptimal /\ ~UsesMotionSmoothing(c) /\ ~AllowsTemporal(c)
         -> "FrameKeyFallback"
    [] ~p.nearOptimal /\ AllowsTemporal(c) /\ PathTemporalReducedByFit(c, p)
         -> "ReplacementShapeFlatTemporal"
    [] ~p.nearOptimal /\ AllowsTemporal(c)
       /\ ~PathTemporalReducedByFit(c, p) /\ c.decompose /\ p.shape
         -> "PathDecomposed"
    [] OTHER -> "PlainTemporal"

\* The final static run is cut from the samples before the temporal solve.
TrimsStaticTail(c, p) == p.tail /\ ~UsesMotionSmoothing(c)

\* Only these routes poll the cancel file while they solve.
PollsWhileSolving(route) ==
  route \in {"ReplacementShapeFlatTemporal", "PathDecomposed", "PlainTemporal"}

------------------------------------------------------------------------------
(***************************************************************************)
(* The progress field.  Stages are thousandths of a property; the result   *)
(* is in units of 10^-6 / n, so that no rounding hides a step backwards:   *)
(* 0.02 + ((i + stage) * 0.96) / n, clamped to 0.98.                       *)
(***************************************************************************)
Clamped(low, v, high) == IF v < low THEN low ELSE IF v > high THEN high ELSE v

Unit == 1000

SolveProgressForPropertyStage(i, n, stage) ==
  Clamped(0, 20 * Unit * n + (Unit * i + Clamped(0, stage, Unit)) * 960,
          980 * Unit * n)

SolveStartProgress(n) == 20 * Unit * n
ParallelConfigProgress(n) == 25 * Unit * n
DoneProgress(n) == Unit * Unit * n
==============================================================================
