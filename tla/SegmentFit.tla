------------------------------ MODULE SegmentFit ------------------------------
(***************************************************************************)
(* FitSegment: can one segment stand for the samples i..j of a property?   *)
(* A hold, a straight line, an eased outline, a Hermite and an optimized   *)
(* curve are tried in this order, and the first within tolerance is taken. *)
(* A hold, a line, a Hermite and an optimized curve are measured unit by   *)
(* unit, and a sample has as many units as subframes; the eased outline is *)
(* measured once a sample.  The cheap curves stop at the first unit beyond *)
(* a ceiling, so their error is that of a part of the segment; a long      *)
(* outline segment is measured by concurrent workers.                      *)
(*                                                                         *)
(* The curves themselves are numeric: a call carries the error of each     *)
(* curve wherever it is measured, as the property and as the screen see it.*)
(***************************************************************************)
EXTENDS Integers, Sequences

CONSTANT Calls     \* the calls explored

Curves == {"hold", "linear", "shape", "hermite", "ceres"}
UnitError == [prop : Nat, screen : Nat]

NoCeiling == -1    \* an infinite ceiling
NoGate == -1       \* no shape_temporal_bezier_attempt_threshold_ratio

\* Where a curve is measured: at every unit, or once a sample.
Count(c, which) == IF which = "shape" THEN c.samples ELSE c.samples * c.subframes

\* accept: tolerance times kAcceptanceHeadroom; screened: a screen tolerance or
\* weight is set; gate: tolerance times the gate ratio; degenerate: the spatial
\* curves without length, or without a sample between their ends.
IsCall(c) ==
  /\ c.samples \in Nat /\ c.subframes \in Nat \ {0}
  /\ c.accept \in Nat /\ c.screen \in Nat /\ c.gate \in Nat \cup {NoGate}
  /\ \A flag \in {c.screened, c.hold, c.linear, c.bezier, c.shapeBezier,
                  c.shapeFlat, c.highDim, c.fastSpatial, c.parallel} :
       flag \in BOOLEAN
  /\ c.degenerate \subseteq {"hermite", "ceres"}
  /\ \A which \in Curves : c.err[which] \in [1 .. Count(c, which) -> UnitError]

ASSUME CallsAssumption == \A c \in Calls : IsCall(c)

VARIABLES
  call,       \* the arguments
  pc,         \* where FitSegment is
  curve,      \* the curve being measured
  slots,      \* places the workers have measured
  next,       \* the place added to the report next
  report,     \* the ErrorReport so far
  miss,       \* linear_miss, if there is one
  infeasible, \* the miss to return if no curve fits
  result      \* what is returned

vars == <<call, pc, curve, slots, next, report, miss, infeasible, result>>

Places(c) == 1 .. Count(call, c)
ErrorAt(c, k) == call.err[c][k]

Zero == [max |-> 0, screen |-> 0]
NoMiss == [max |-> NoCeiling]
Result(feasible, interp, err, reason) ==
  [feasible |-> feasible, interp |-> interp, err |-> err, reason |-> reason]
Miss(interp, err, reason) == Result(FALSE, interp, err, reason)

Init ==
  /\ call \in Calls
  /\ pc = "start" /\ curve = "hold"
  /\ slots = {} /\ next = 1 /\ report = Zero /\ miss = NoMiss
  /\ infeasible = Miss("hold", 0, "infeasible_empty") /\ result = infeasible

-----------------------------------------------------------------------------
(***************************************************************************)
(* Policies.                                                               *)
(***************************************************************************)
Larger(a, b) == IF a >= b THEN a ELSE b

PassesWithoutScreen(r) == r.max <= call.accept
PassesStrictly(r) ==
  r.max < call.accept /\ (call.screened => r.screen <= call.screen)
Passes(r) == r.max <= call.accept /\ (call.screened => r.screen <= call.screen)

GateAllows(m) == call.gate = NoGate \/ m.max <= call.gate

\* An outline whose straight line misses is eased only if the gate allows, so
\* its line is measured up to the gate and whatever the screen says.
GatedLine == call.bezier /\ call.shapeBezier /\ call.shapeFlat
             /\ call.gate # NoGate

AcceptancePropertyCeiling == call.accept
LinearFailFastPropertyCeiling ==
  IF GatedLine THEN Larger(AcceptancePropertyCeiling, call.gate)
  ELSE AcceptancePropertyCeiling

AcceptanceScreenCeiling == IF call.screened THEN call.screen ELSE NoCeiling

FailsFast(c) == c \in {"hold", "linear"}
PropertyCeiling(c) ==
  IF c = "linear" THEN LinearFailFastPropertyCeiling
  ELSE AcceptancePropertyCeiling
ScreenCeiling(c) ==
  IF c = "linear" /\ GatedLine THEN NoCeiling ELSE AcceptanceScreenCeiling

Beyond(value, ceiling) == ceiling # NoCeiling /\ value > ceiling
Exceeds(c, r) == Beyond(r.max, PropertyCeiling(c))
                 \/ Beyond(r.screen, ScreenCeiling(c))

ShouldParallelComputeShapeError(c) ==
  call.parallel /\ call.shapeFlat /\ c \in {"hermite", "ceres"}

-----------------------------------------------------------------------------
(***************************************************************************)
(* Going from curve to curve.                                              *)
(***************************************************************************)
Measure(c) ==
  /\ pc' = "measure" /\ curve' = c
  /\ slots' = {} /\ next' = 1 /\ report' = Zero
  /\ UNCHANGED result

Return(r) ==
  /\ pc' = "done" /\ result' = r
  /\ UNCHANGED <<curve, slots, next, report>>

\* A miss without an error counts as none.
Smaller(old, new) == IF old.err = 0 \/ new.err < old.err THEN new ELSE old

GiveUp(reason) == Return(Miss(infeasible'.interp, infeasible'.err, reason))

\* FitUnifiedSpatialTiming returns a seed it cannot measure as it came: what is
\* known of a degenerate optimized curve is the error of the Hermite.
TryCeres(seed) ==
  IF "ceres" \in call.degenerate
  THEN Return(Smaller(infeasible', Miss("ceres", seed, "infeasible_bezier_ceres")))
  ELSE Measure("ceres")

TrySmoothCurves ==
  IF call.highDim THEN GiveUp("infeasible_highdim_linear_only")
  ELSE IF "hermite" \notin call.degenerate THEN Measure("hermite")
  ELSE IF call.fastSpatial THEN Return(Miss("hermite", 0, ""))
  ELSE TryCeres(0)

\* The gate turns the segment away with the miss of the line, if there is one.
TryBezier ==
  IF ~call.bezier THEN Return(infeasible')
  ELSE IF ~(call.shapeBezier /\ call.shapeFlat) THEN TrySmoothCurves
  ELSE IF call.gate = NoGate \/ (miss' # NoMiss /\ GateAllows(miss'))
       THEN Measure("shape")
  ELSE IF miss' = NoMiss THEN GiveUp("infeasible_shape_temporal_bezier_gate")
  ELSE Return(Miss("linear", miss'.max, "infeasible_shape_temporal_bezier_gate"))

TryLinear == IF call.linear THEN Measure("linear") ELSE TryBezier

\* The hold of a single sample is not measured.
Begin ==
  /\ pc = "start" /\ UNCHANGED <<call, miss, infeasible>>
  /\ \/ call.samples = 0 /\ Return(infeasible)
     \/ call.samples = 1 /\ Return(Result(TRUE, "hold", 0, "hold"))
     \/ call.samples > 1 /\ call.hold /\ Measure("hold")
     \/ call.samples > 1 /\ ~call.hold /\ TryLinear

-----------------------------------------------------------------------------
(***************************************************************************)
(* ComputeError.                                                           *)
(***************************************************************************)
\* A worker measures a unit: any worker, any unit, in any order.
ComputeErrorUnit(k) ==
  /\ pc = "measure" /\ ShouldParallelComputeShapeError(curve)
  /\ k \notin slots /\ slots' = slots \cup {k}
  /\ UNCHANGED <<call, pc, curve, next, report, miss, infeasible, result>>

Accumulated(r, c, k) ==
  [max |-> Larger(r.max, ErrorAt(c, k).prop),
   screen |-> Larger(r.screen, ErrorAt(c, k).screen)]

Measured(c) == ~ShouldParallelComputeShapeError(c) \/ slots = Places(c)

AccumulateErrorUnit ==
  /\ pc = "measure" /\ Measured(curve)
  /\ report' = Accumulated(report, curve, next)
  /\ pc' = IF \/ FailsFast(curve) /\ Exceeds(curve, report')
              \/ next = Count(call, curve)
           THEN "judge" ELSE "measure"
  /\ next' = next + 1
  /\ UNCHANGED <<call, curve, slots, miss, infeasible, result>>

-----------------------------------------------------------------------------
(***************************************************************************)
(* What follows from the measure.                                          *)
(***************************************************************************)
Accept ==
  /\ pc = "judge" /\ Passes(report)
  /\ Return(Result(TRUE, curve, report.max, "ok"))
  /\ UNCHANGED <<call, miss, infeasible>>

MissHold ==
  /\ pc = "judge" /\ curve = "hold" /\ ~Passes(report)
  /\ infeasible' = Miss("hold", report.max, "infeasible_hold")
  /\ UNCHANGED <<call, miss>> /\ TryLinear

MissLinear ==
  /\ pc = "judge" /\ curve = "linear" /\ ~Passes(report)
  /\ miss' = [max |-> report.max]
  /\ infeasible' =
       Smaller(infeasible, Miss("linear", report.max, "infeasible_linear"))
  /\ TryBezier /\ UNCHANGED call

MissShape ==
  /\ pc = "judge" /\ curve = "shape" /\ ~Passes(report)
  /\ infeasible' = Smaller(infeasible,
                    Miss("shape", report.max, "infeasible_shape_temporal_bezier"))
  /\ TrySmoothCurves /\ UNCHANGED <<call, miss>>

MissHermite ==
  /\ pc = "judge" /\ curve = "hermite" /\ ~Passes(report)
  /\ UNCHANGED <<call, miss, infeasible>>
  /\ IF call.fastSpatial
     THEN Return(Miss("hermite", report.max, "infeasible_unified_spatial_speed"))
     ELSE TryCeres(report.max)

MissCeres ==
  /\ pc = "judge" /\ curve = "ceres" /\ ~Passes(report)
  /\ infeasible' =
       Smaller(infeasible, Miss("ceres", report.max, "infeasible_bezier_ceres"))
  /\ Return(infeasible') /\ UNCHANGED <<call, miss>>

Next ==
  \/ Begin \/ AccumulateErrorUnit
  \/ \E k \in Places(curve) : ComputeErrorUnit(k)
  \/ Accept \/ MissHold \/ MissLinear \/ MissShape \/ MissHermite \/ MissCeres

Spec == Init /\ [][Next]_vars

-----------------------------------------------------------------------------
(***************************************************************************)
(* What the callers rely on.                                               *)
(***************************************************************************)
WithinAt(c, k) ==
  /\ ErrorAt(c, k).prop <= call.accept
  /\ call.screened => ErrorAt(c, k).screen <= call.screen

Within(c) == \A k \in Places(c) : WithinAt(c, k)

TypeOK ==
  /\ call \in Calls
  /\ pc \in {"start", "measure", "judge", "done"} /\ curve \in Curves
  /\ slots \subseteq Places(curve) /\ next \in 1 .. Count(call, curve) + 1
  /\ report \in [max : Nat, screen : Nat]
  /\ miss \in [max : Nat \cup {NoCeiling}]
  /\ \A r \in {infeasible, result} :
       r.feasible \in BOOLEAN /\ r.interp \in Curves /\ r.err \in Nat
  /\ ~infeasible.feasible

\* A feasible segment is within tolerance wherever its curve is measured, at
\* every unit, or at every sample for the eased outline, however the measure was
\* cut short or shared among workers; and it reports the error it has.
FeasibleIsWithin ==
  pc = "done" /\ result.feasible /\ call.samples > 1 =>
    /\ Within(result.interp)
    /\ \A k \in Places(result.interp) : ErrorAt(result.interp, k).prop <= result.err

\* A curve that has been left behind really misses: no fail-fast stop turns
\* away a curve that fits, so the simplest curve that fits is the one found.
Tried(c) ==
  CASE c = "hold" -> call.hold
    [] c = "linear" -> call.linear
    [] OTHER -> FALSE

SimplestCurveThatFits ==
  pc = "done" /\ call.samples > 1 =>
    \A c \in {"hold", "linear"} :
      Tried(c) /\ Within(c) =>
        result.feasible /\ (result.interp = c \/ result.interp = "hold")

\* The gate decides on a line that may have been measured only in part; it
\* decides as it would on the whole of it.
GateSeesTheWholeMiss ==
  miss # NoMiss /\ GatedLine =>
    (GateAllows(miss) <=> \A k \in Places("linear") : ErrorAt("linear", k).prop <= call.gate)
==============================================================================
