----------------------------- MODULE KeyFidelity_proofs -----------------------------
(***************************************************************************)
(* Keys and the error they are said to have, in the two places where a     *)
(* report decides what is kept.  FitSegment measures a curve against one   *)
(* segment, perhaps in part, and calls it feasible or not.  The cleanup of *)
(* a solved property replaces its keys by fewer and measures them against  *)
(* the samples of the whole clip.                                          *)
(***************************************************************************)
EXTENDS SegmentFit, KeyCleanup, FiniteSetTheorems, TLAPS

(***************************************************************************)
(* SegmentFit: any number of samples and subframes, any errors and       *)
(* settings, workers in any order.                                         *)
(***************************************************************************)
\* The report covers the first m places: none is worse than it says, and the
\* errors it says occur.
Covers(m) ==
  /\ \A k \in 1 .. m : /\ ErrorAt(curve, k).prop <= report.max
                       /\ ErrorAt(curve, k).screen <= report.screen
  /\ report.max = 0 \/ \E k \in 1 .. m : ErrorAt(curve, k).prop = report.max
  /\ report.screen = 0 \/ \E k \in 1 .. m : ErrorAt(curve, k).screen = report.screen

Measuring ==
  pc = "measure" => call.samples > 1 /\ next \in Places(curve) /\ Covers(next - 1)

\* A measure that was cut short is one that has failed.
Judging ==
  pc = "judge" =>
    /\ call.samples > 1 /\ next \in 2 .. Count(call, curve) + 1
    /\ Covers(next - 1)
    /\ next = Count(call, curve) + 1 \/ (FailsFast(curve) /\ Exceeds(curve, report))

\* What was tried before the curve at hand does not fit.
LeftBehind ==
  /\ pc \in {"measure", "judge"} /\ curve # "hold" /\ call.hold => ~Within("hold")
  /\ pc \in {"measure", "judge"} /\ curve \notin {"hold", "linear"} /\ call.linear
       => ~Within("linear")

IInv ==
  /\ TypeOK /\ Measuring /\ Judging /\ LeftBehind
  /\ FeasibleIsWithin /\ SimplestCurveThatFits /\ GateSeesTheWholeMiss

------------------------------------------------------------------------------
\* The errors of a curve are natural numbers, and so are the bounds.
LEMMA CallTypes ==
  ASSUME call \in Calls
  PROVE  /\ call.samples \in Nat /\ call.accept \in Nat /\ call.screen \in Nat
         /\ call.gate \in Nat \/ call.gate = NoGate
         /\ \A flag \in {call.screened, call.hold, call.linear, call.bezier,
                         call.shapeBezier, call.shapeFlat, call.highDim,
                         call.fastSpatial, call.parallel} : flag \in BOOLEAN
         /\ \A c \in Curves : Count(call, c) \in Nat
         /\ \A c \in Curves : \A k \in Places(c) :
              ErrorAt(c, k).prop \in Nat /\ ErrorAt(c, k).screen \in Nat
<1>1. IsCall(call)
  BY CallsAssumption
<1>2. ASSUME NEW c \in Curves, NEW k \in Places(c)
      PROVE  ErrorAt(c, k) \in UnitError
  <2>1. call.err[c] \in [1 .. Count(call, c) -> UnitError]
    BY <1>1 DEF IsCall
  <2> QED
    BY <2>1 DEF ErrorAt, Places
<1>3. call.gate \in Nat \/ call.gate = NoGate
  BY <1>1 DEF IsCall
<1>4. call.samples \in Nat /\ call.subframes \in Nat
  BY <1>1 DEF IsCall
<1>5. \A c \in Curves : Count(call, c) \in Nat
  BY <1>4 DEF Count
<1> QED
  BY <1>1, <1>2, <1>3, <1>4, <1>5 DEF IsCall, UnitError

\* A segment of two samples or more is measured somewhere.
LEMMA SomePlace ==
  ASSUME call \in Calls, call.samples > 1, NEW c \in Curves
  PROVE  1 \in Places(c)
<1>1. call.samples \in Nat /\ call.subframes \in Nat \ {0}
  BY CallsAssumption DEF IsCall
<1>2. \A m, n \in Nat : m > 1 /\ n # 0 => m * n >= 1
  OBVIOUS
<1> QED
  BY <1>1, <1>2 DEF Places, Count

\* A report of a curve that covers all its units, or that has exceeded what is
\* asked of it, passes exactly if the curve is within tolerance.
LEMMA VerdictIsTrue ==
  ASSUME TypeOK, Judging, pc = "judge"
  PROVE  /\ Passes(report) => Within(curve) /\ next = Count(call, curve) + 1
         /\ ~Passes(report) => ~Within(curve)
<1> USE CallTypes DEF TypeOK
<1>1. report.max \in Nat /\ report.screen \in Nat
  OBVIOUS
<1>2. next - 1 \in 1 .. Count(call, curve) /\ Count(call, curve) \in Nat
  BY DEF Judging
<1>3. ASSUME NEW k \in 1 .. next - 1 PROVE k \in Places(curve)
  BY <1>2 DEF Places
<1>4. ASSUME FailsFast(curve), Exceeds(curve, report) PROVE ~Passes(report)
  <2>1. CASE Beyond(report.max, PropertyCeiling(curve))
    <3>1. PropertyCeiling(curve) \in Nat /\ PropertyCeiling(curve) >= call.accept
      BY DEF PropertyCeiling, LinearFailFastPropertyCeiling, Larger,
             AcceptancePropertyCeiling, GatedLine, NoGate
    <3> QED
      BY <2>1, <3>1, <1>1 DEF Beyond, Passes
  <2>2. CASE Beyond(report.screen, ScreenCeiling(curve))
    BY <2>2, <1>1 DEF Beyond, ScreenCeiling, AcceptanceScreenCeiling, Passes
  <2> QED
    BY <1>4, <2>1, <2>2 DEF Exceeds
<1>5. Passes(report) => next = Count(call, curve) + 1
  BY <1>4 DEF Judging
<1>6. ASSUME Passes(report) PROVE Within(curve)
  <2>1. next - 1 = Count(call, curve)
    BY <1>2, <1>5, <1>6
  <2>2. Covers(Count(call, curve))
    BY <2>1 DEF Judging
  <2> SUFFICES ASSUME NEW k \in Places(curve) PROVE WithinAt(curve, k)
    BY DEF Within
  <2>3. /\ ErrorAt(curve, k).prop <= report.max
        /\ ErrorAt(curve, k).screen <= report.screen
    BY <2>2 DEF Covers, Places
  <2>4. ErrorAt(curve, k).prop \in Nat /\ ErrorAt(curve, k).screen \in Nat
    OBVIOUS
  <2> QED
    BY <1>1, <1>6, <2>3, <2>4 DEF Passes, WithinAt
<1>7. ASSUME ~Passes(report), Within(curve) PROVE FALSE
  <2>1. Covers(next - 1)
    BY DEF Judging
  <2>2. CASE report.max > call.accept
    <3>1. PICK k \in 1 .. next - 1 : ErrorAt(curve, k).prop = report.max
      BY <2>1, <2>2 DEF Covers
    <3>2. k \in Places(curve)
      BY <1>3
    <3> QED
      BY <1>7, <2>2, <3>1, <3>2, <1>1 DEF Within, WithinAt
  <2>3. CASE call.screened /\ report.screen > call.screen
    <3>1. PICK k \in 1 .. next - 1 : ErrorAt(curve, k).screen = report.screen
      BY <2>1, <2>3 DEF Covers
    <3>2. k \in Places(curve)
      BY <1>3
    <3> QED
      BY <1>7, <2>3, <3>1, <3>2, <1>1 DEF Within, WithinAt
  <2> QED
    BY <1>1, <1>7, <2>2, <2>3 DEF Passes
<1> QED
  BY <1>5, <1>6, <1>7

------------------------------------------------------------------------------
\* Where a step leads: to the measure of a curve, or back to the caller.
Enters(c) ==
  /\ pc' = "measure" /\ curve' = c
  /\ slots' = {} /\ next' = 1 /\ report' = Zero /\ result' = result

GivesUp ==
  /\ pc' = "done" /\ UNCHANGED <<curve, slots, next, report>>
  /\ result'.feasible = FALSE /\ result'.interp \in Curves /\ result'.err \in Nat

\* What a step may leave as the miss to return.
IsMiss(r) == r.feasible = FALSE /\ r.interp \in Curves /\ r.err \in Nat

Missed ==
  /\ IsMiss(infeasible') /\ miss' \in [max : Nat \cup {NoCeiling}]

LEMMA SmallerIsMiss ==
  ASSUME NEW old, NEW new, IsMiss(old), IsMiss(new)
  PROVE  IsMiss(Smaller(old, new))
BY DEF Smaller

LEMMA GiveUpGivesUp ==
  ASSUME Missed
  PROVE  /\ \A reason : GiveUp(reason) => GivesUp
         /\ Return(infeasible') => GivesUp
         /\ \A which \in Curves, err \in Nat : \A reason :
              Return(Miss(which, err, reason)) => GivesUp
BY DEF Missed, IsMiss, GiveUp, Return, Miss, Result, GivesUp

LEMMA CeresFollows ==
  ASSUME Missed, NEW seed \in Nat, TryCeres(seed)
  PROVE  GivesUp \/ Enters("ceres")
<1>1. IsMiss(Miss("ceres", seed, "infeasible_bezier_ceres"))
  BY DEF IsMiss, Miss, Result, Curves
<1> DEFINE least == Smaller(infeasible', Miss("ceres", seed, "infeasible_bezier_ceres"))
<1>2. IsMiss(least)
  BY <1>1, SmallerIsMiss DEF Missed
<1>3. Return(least) => GivesUp
  <2> HIDE DEF least
  <2> QED
    BY <1>2 DEF Return, IsMiss, GivesUp
<1> QED
  BY <1>3 DEF TryCeres, Measure, Enters

LEMMA SmoothFollows ==
  ASSUME Missed, TrySmoothCurves
  PROVE  GivesUp \/ Enters("hermite") \/ Enters("ceres")
<1>1. Return(Miss("hermite", 0, "")) => GivesUp
  BY GiveUpGivesUp DEF Curves
<1>2. TryCeres(0) => GivesUp \/ Enters("ceres")
  BY CeresFollows
<1> QED
  BY <1>1, <1>2, GiveUpGivesUp DEF TrySmoothCurves, Measure, Enters

EntersSmooth == Enters("shape") \/ Enters("hermite") \/ Enters("ceres")

LEMMA BezierFollows ==
  ASSUME Missed, TryBezier
  PROVE  GivesUp \/ EntersSmooth
<1>1. TrySmoothCurves => GivesUp \/ EntersSmooth
  BY SmoothFollows DEF EntersSmooth
<1>2. Measure("shape") => EntersSmooth
  BY DEF Measure, Enters, EntersSmooth
<1>3. CASE miss' # NoMiss
  <2>1. miss'.max \in Nat
    BY <1>3 DEF Missed, NoMiss
  <2>2. Return(Miss("linear", miss'.max, "infeasible_shape_temporal_bezier_gate"))
          => GivesUp
    BY <2>1, GiveUpGivesUp DEF Curves
  <2> QED
    BY <1>1, <1>2, <1>3, <2>2, GiveUpGivesUp DEF TryBezier
<1>4. CASE miss' = NoMiss
  BY <1>1, <1>2, <1>4, GiveUpGivesUp DEF TryBezier
<1> QED
  BY <1>3, <1>4

LEMMA LinearFollows ==
  ASSUME Missed, TryLinear
  PROVE  \/ call.linear /\ Enters("linear")
         \/ ~call.linear /\ (GivesUp \/ EntersSmooth)
BY BezierFollows DEF TryLinear, Measure, Enters

\* A curve is within tolerance or not for the whole of a call.
LEMMA WithinStays ==
  ASSUME call' = call, NEW c
  PROVE  Within(c)' <=> Within(c)
BY DEF Within, WithinAt, ErrorAt, Places, Count

LEMMA EntersKeeps ==
  ASSUME TypeOK, call' = call, Missed,
         call.samples > 1, NEW c \in Curves, Enters(c),
         c # "hold" /\ call.hold => ~Within("hold"),
         c \notin {"hold", "linear"} /\ call.linear => ~Within("linear")
  PROVE  /\ TypeOK' /\ Measuring' /\ Judging' /\ LeftBehind'
         /\ FeasibleIsWithin' /\ SimplestCurveThatFits'
<1> USE CallTypes
<1>1. call \in Calls
  BY DEF TypeOK
<1>2. 1 \in Places(c)
  BY <1>1, SomePlace
<1>3. TypeOK'
  <2>1. call' \in Calls /\ pc' = "measure" /\ curve' \in Curves
    BY <1>1 DEF Enters
  <2>2. slots' \subseteq Places(curve)' /\ next' \in 1 .. Count(call, curve)' + 1
    <3>1. Count(call, curve)' = Count(call, c)
      BY DEF Enters, Count
    <3> QED
      BY <1>1, <3>1 DEF Enters
  <2>3. report' \in [max : Nat, screen : Nat] /\ miss' \in [max : Nat \cup {NoCeiling}]
    BY DEF Enters, Zero, Missed
  <2>4. /\ IsMiss(infeasible')
        /\ result'.feasible \in BOOLEAN /\ result'.interp \in Curves /\ result'.err \in Nat
    BY DEF TypeOK, Enters, Missed
  <2> QED
    BY <2>1, <2>2, <2>3, <2>4 DEF TypeOK, IsMiss
<1>4. Measuring'
  <2>1. 1 \in Places(curve)'
    BY <1>2 DEF Enters, Places, Count
  <2> QED
    BY <2>1 DEF Measuring, Enters, Covers, Zero
<1>5. LeftBehind'
  BY WithinStays DEF LeftBehind, Enters
<1> QED
  BY <1>3, <1>4, <1>5
     DEF Judging, FeasibleIsWithin, SimplestCurveThatFits, Enters

\* The same for the curves after the line.
LEMMA EntersSmoothKeeps ==
  ASSUME TypeOK, call' = call, Missed, call.samples > 1, EntersSmooth,
         call.hold => ~Within("hold"), call.linear => ~Within("linear")
  PROVE  /\ TypeOK' /\ Measuring' /\ Judging' /\ LeftBehind'
         /\ FeasibleIsWithin' /\ SimplestCurveThatFits'
<1>1. CASE Enters("shape")
  BY <1>1, EntersKeeps DEF Curves
<1>2. CASE Enters("hermite")
  BY <1>2, EntersKeeps DEF Curves
<1>3. CASE Enters("ceres")
  BY <1>3, EntersKeeps DEF Curves
<1> QED
  BY <1>1, <1>2, <1>3 DEF EntersSmooth

LEMMA GivesUpKeeps ==
  ASSUME TypeOK, call' = call, Missed, GivesUp,
         call.hold => ~Within("hold"), call.linear => ~Within("linear")
  PROVE  /\ TypeOK' /\ Measuring' /\ Judging' /\ LeftBehind'
         /\ FeasibleIsWithin' /\ SimplestCurveThatFits'
<1> USE CallTypes
<1>1. TypeOK'
  BY DEF TypeOK, GivesUp, Places, Count, Missed, IsMiss
<1>2. SimplestCurveThatFits'
  BY WithinStays DEF SimplestCurveThatFits, Tried
<1> QED
  BY <1>1, <1>2
     DEF Measuring, Judging, LeftBehind, FeasibleIsWithin, GivesUp

------------------------------------------------------------------------------
LEMMA Initially == Init => IInv
<1> SUFFICES ASSUME Init PROVE IInv
  OBVIOUS
<1> USE CallTypes DEF Init
<1>1. TypeOK
  BY DEF TypeOK, Curves, Zero, NoMiss, NoCeiling, Miss, Result
<1> QED
  BY <1>1 DEF IInv, Measuring, Judging, LeftBehind, FeasibleIsWithin,
              SimplestCurveThatFits, GateSeesTheWholeMiss

\* The gate's view depends on the miss and the call only.
LEMMA GateKeeps ==
  ASSUME GateSeesTheWholeMiss, call' = call, miss' = miss
  PROVE  GateSeesTheWholeMiss'
BY DEF GateSeesTheWholeMiss, GatedLine, GateAllows, ErrorAt, Places, Count

LEMMA SameMissed ==
  ASSUME TypeOK, miss' = miss, infeasible' = infeasible
  PROVE  Missed
BY DEF TypeOK, Missed, IsMiss

LEMMA BeginKeeps ==
  ASSUME IInv, Begin
  PROVE  IInv'
<1> USE CallTypes DEF IInv
<1>0. call \in Calls /\ call.samples \in Nat
  BY DEF TypeOK
<1> USE <1>0
<1>1. call' = call /\ miss' = miss /\ infeasible' = infeasible /\ pc = "start"
  BY DEF Begin
<1>2. Missed
  BY <1>1, SameMissed
<1>3. GateSeesTheWholeMiss'
  BY <1>1, GateKeeps
<1>4. CASE call.samples > 1 /\ call.hold
  <2>0. call.samples # 0 /\ call.samples # 1
    BY <1>4
  <2>1. Measure("hold")
    BY <1>4, <2>0 DEF Begin
  <2>2. Enters("hold")
    BY <2>1 DEF Measure, Enters
  <2> QED
    BY <1>1, <1>2, <1>3, <1>4, <2>2, EntersKeeps DEF Curves
<1>5. CASE call.samples > 1 /\ ~call.hold
  <2>0. call.samples # 0 /\ call.samples # 1
    BY <1>5
  <2>1. TryLinear
    BY <1>5, <2>0 DEF Begin
  <2>2. CASE ~call.linear /\ GivesUp
    BY <1>1, <1>2, <1>3, <1>5, <2>2, GivesUpKeeps
  <2>3. CASE call.linear /\ Enters("linear")
    BY <1>1, <1>2, <1>3, <1>5, <2>3, EntersKeeps DEF Curves
  <2>4. CASE ~call.linear /\ EntersSmooth
    BY <1>1, <1>2, <1>3, <1>5, <2>4, EntersSmoothKeeps
  <2> QED
    BY <1>2, <2>1, <2>2, <2>3, <2>4, LinearFollows
<1>6. CASE ~(call.samples > 1)
  <2>1. \/ Return(infeasible)
        \/ call.samples = 1 /\ Return(Result(TRUE, "hold", 0, "hold"))
    BY <1>6 DEF Begin
  <2>2. /\ pc' = "done" /\ UNCHANGED <<curve, slots, next, report>>
        /\ result' \in {infeasible, Result(TRUE, "hold", 0, "hold")}
    BY <2>1 DEF Return
  <2>3. result'.feasible \in BOOLEAN /\ result'.interp \in Curves /\ result'.err \in Nat
    <3>1. CASE result' = infeasible
      BY <3>1 DEF TypeOK
    <3>2. CASE result' = Result(TRUE, "hold", 0, "hold")
      BY <3>2 DEF Result, Curves
    <3> QED
      BY <2>2, <3>1, <3>2
  <2>4. TypeOK'
    BY <1>1, <2>2, <2>3 DEF TypeOK, Places, Count
  <2> QED
    BY <1>1, <1>3, <1>6, <2>2, <2>4
       DEF Measuring, Judging, LeftBehind, FeasibleIsWithin, SimplestCurveThatFits
<1> QED
  BY <1>4, <1>5, <1>6 DEF TypeOK

LEMMA ComputeKeeps ==
  ASSUME IInv, NEW k \in Places(curve), ComputeErrorUnit(k)
  PROVE  IInv'
<1> USE CallTypes DEF IInv
<1>1. /\ UNCHANGED <<call, pc, curve, next, report, miss, infeasible, result>>
      /\ slots' \subseteq Places(curve) /\ pc = "measure"
  BY DEF ComputeErrorUnit, TypeOK
<1>2. TypeOK'
  BY <1>1 DEF TypeOK, Places, Count
<1>3. Measuring'
  BY <1>1 DEF Measuring, Covers, ErrorAt, Places, Count
<1>4. LeftBehind'
  BY <1>1, WithinStays DEF LeftBehind
<1> QED
  BY <1>1, <1>2, <1>3, <1>4, GateKeeps
     DEF Judging, FeasibleIsWithin, SimplestCurveThatFits

\* One more place is covered.
LEMMA AccumulatedCovers ==
  ASSUME TypeOK, Covers(next - 1), next \in Places(curve), call' = call,
         curve' = curve, report' = Accumulated(report, curve, next)
  PROVE  /\ \A k \in 1 .. next : /\ ErrorAt(curve, k)'.prop <= report'.max
                                /\ ErrorAt(curve, k)'.screen <= report'.screen
         /\ report'.max = 0 \/ \E k \in 1 .. next : ErrorAt(curve, k)'.prop = report'.max
         /\ report'.screen = 0
            \/ \E k \in 1 .. next : ErrorAt(curve, k)'.screen = report'.screen
<1> USE CallTypes DEF TypeOK
<1> DEFINE e == ErrorAt(curve, next)
<1>1. /\ e.prop \in Nat /\ e.screen \in Nat
      /\ report.max \in Nat /\ report.screen \in Nat /\ next \in Nat
  BY DEF Places
<1>2. /\ report'.max = Larger(report.max, e.prop)
      /\ report'.screen = Larger(report.screen, e.screen)
  BY DEF Accumulated
<1>3. \A k : (ErrorAt(curve, k))' = ErrorAt(curve, k)
  BY DEF ErrorAt
<1>4. \A k \in 1 .. next : k = next \/ k \in 1 .. next - 1
  BY <1>1
<1>5. \A k \in 1 .. next - 1 : k \in Places(curve)
  BY <1>1 DEF Places
<1>6. ASSUME NEW k \in 1 .. next
      PROVE  ErrorAt(curve, k).prop <= report'.max /\ ErrorAt(curve, k).screen <= report'.screen
  <2>1. CASE k = next
    BY <1>1, <1>2, <2>1 DEF Larger
  <2>2. CASE k \in 1 .. next - 1
    <3>1. /\ ErrorAt(curve, k).prop <= report.max
          /\ ErrorAt(curve, k).screen <= report.screen
      BY <2>2 DEF Covers
    <3>2. ErrorAt(curve, k).prop \in Nat /\ ErrorAt(curve, k).screen \in Nat
      BY <1>5, <2>2
    <3> HIDE DEF TypeOK, e
    <3> QED
      BY <1>1, <1>2, <3>1, <3>2 DEF Larger
  <2> QED
    BY <1>4, <2>1, <2>2
<1>7. report'.max = 0 \/ \E k \in 1 .. next : ErrorAt(curve, k).prop = report'.max
  BY <1>1, <1>2, <1>4 DEF Covers, Larger
<1>8. report'.screen = 0 \/ \E k \in 1 .. next : ErrorAt(curve, k).screen = report'.screen
  BY <1>1, <1>2, <1>4 DEF Covers, Larger
<1> QED
  BY <1>3, <1>6, <1>7, <1>8 DEF Covers

LEMMA AccumulateKeeps ==
  ASSUME IInv, AccumulateErrorUnit
  PROVE  IInv'
<1> USE CallTypes DEF IInv
<1>0. call \in Calls /\ TypeOK /\ curve \in Curves
  BY DEF TypeOK
<1> USE <1>0
<1>1. /\ UNCHANGED <<call, curve, slots, miss, infeasible, result>>
      /\ next' = next + 1 /\ pc = "measure"
      /\ report' = Accumulated(report, curve, next)
  BY DEF AccumulateErrorUnit
<1>2. next \in Places(curve) /\ Covers(next - 1) /\ call.samples > 1
  BY <1>1 DEF Measuring
<1> DEFINE r == Accumulated(report, curve, next)
           stop == FailsFast(curve) /\ Exceeds(curve, report')
<1>3. pc' = IF stop \/ next = Count(call, curve) THEN "judge" ELSE "measure"
  BY DEF AccumulateErrorUnit
<1>4. Count(call, curve) \in Nat /\ next \in 1 .. Count(call, curve)
  BY <1>2 DEF Places
<1>5. Covers(next - 1)'
  <2>1. next' - 1 = next
    BY <1>1, <1>4
  <2> HIDE DEF IInv, r, stop
  <2>2. /\ \A k \in 1 .. next : /\ ErrorAt(curve, k)'.prop <= report'.max
                                /\ ErrorAt(curve, k)'.screen <= report'.screen
        /\ report'.max = 0 \/ \E k \in 1 .. next : ErrorAt(curve, k)'.prop = report'.max
        /\ report'.screen = 0
           \/ \E k \in 1 .. next : ErrorAt(curve, k)'.screen = report'.screen
    BY <1>1, <1>2, AccumulatedCovers
  <2> QED
    BY <2>1, <2>2 DEF Covers
<1>6. r \in [max : Nat, screen : Nat]
  <2> DEFINE e == ErrorAt(curve, next)
  <2>1. e.prop \in Nat /\ e.screen \in Nat
    BY <1>2 DEF TypeOK
  <2>2. report.max \in Nat /\ report.screen \in Nat
    BY DEF TypeOK
  <2>3. Larger(report.max, e.prop) \in Nat /\ Larger(report.screen, e.screen) \in Nat
    BY <2>1, <2>2 DEF Larger
  <2>4. r = [max |-> Larger(report.max, e.prop), screen |-> Larger(report.screen, e.screen)]
    BY DEF Accumulated
  <2> HIDE DEF r, e
  <2> QED
    BY <2>3, <2>4
<1>7. TypeOK'
  <2>1. report' \in [max : Nat, screen : Nat]
    BY <1>1, <1>6
  <2>2. pc' \in {"measure", "judge"} /\ next' \in 1 .. Count(call, curve) + 1
    BY <1>1, <1>3, <1>4
  <2> QED
    BY <1>1, <2>1, <2>2 DEF TypeOK, Places, Count
<1>8. Measuring'
  <2>1. pc' = "measure" => next' \in 1 .. Count(call, curve)
    BY <1>1, <1>3, <1>4
  <2> QED
    BY <1>1, <1>2, <1>5, <2>1 DEF Measuring, Places, Count
<1>9. Judging'
  <2>1. next' \in 2 .. Count(call, curve) + 1
    BY <1>1, <1>4
  <2>2. pc' = "judge" => next' = Count(call, curve) + 1 \/ stop
    BY <1>1, <1>3, <1>4
  <2>3. stop => FailsFast(curve)' /\ Exceeds(curve, report)'
    BY <1>1 DEF FailsFast, Exceeds, Beyond, PropertyCeiling, ScreenCeiling,
       LinearFailFastPropertyCeiling, AcceptancePropertyCeiling, GatedLine,
       AcceptanceScreenCeiling
  <2>4. Count(call, curve)' = Count(call, curve)
    BY <1>1 DEF Count
  <2> HIDE DEF stop, r
  <2> QED
    BY <1>1, <1>2, <1>5, <2>1, <2>2, <2>3, <2>4 DEF Judging
<1>10. LeftBehind'
  BY <1>1, WithinStays DEF LeftBehind
<1>11. pc' # "done"
  BY <1>3
<1> QED
  BY <1>1, <1>7, <1>8, <1>9, <1>10, <1>11, GateKeeps
     DEF FeasibleIsWithin, SimplestCurveThatFits

------------------------------------------------------------------------------
\* What a step away from a judged curve may count on.
LEMMA Judged ==
  ASSUME IInv, pc = "judge"
  PROVE  /\ TypeOK /\ call.samples > 1 /\ call \in Calls
         /\ Passes(report) => Within(curve) /\ Covers(Count(call, curve))
         /\ ~Passes(report) => ~Within(curve)
         /\ curve # "hold" /\ call.hold => ~Within("hold")
         /\ curve \notin {"hold", "linear"} /\ call.linear => ~Within("linear")
<1>1. TypeOK /\ Judging
  BY DEF IInv
<1>2. call \in Calls /\ Count(call, curve) \in Nat
  BY <1>1, CallTypes DEF TypeOK
<1>3. /\ Passes(report) => Within(curve) /\ next = Count(call, curve) + 1
      /\ ~Passes(report) => ~Within(curve)
  BY <1>1, VerdictIsTrue
<1>4. Covers(next - 1) /\ call.samples > 1
  BY <1>1 DEF Judging
<1>5. next = Count(call, curve) + 1 => next - 1 = Count(call, curve)
  BY <1>2
<1>6. next = Count(call, curve) + 1 => Covers(Count(call, curve))
  BY <1>4, <1>5
<1>7. LeftBehind
  BY DEF IInv
<1> QED
  BY <1>1, <1>2, <1>3, <1>4, <1>6, <1>7 DEF LeftBehind

LEMMA AcceptKeeps ==
  ASSUME IInv, Accept
  PROVE  IInv'
<1>1. /\ pc = "judge" /\ Passes(report) /\ pc' = "done"
      /\ UNCHANGED <<call, miss, infeasible, curve, slots, next, report>>
      /\ result' = Result(TRUE, curve, report.max, "ok")
  BY DEF Accept, Return
<1>2. TypeOK /\ Within(curve) /\ Covers(Count(call, curve))
  BY <1>1, Judged
<1>3. result'.feasible = TRUE /\ result'.interp = curve /\ result'.err = report.max
  BY <1>1 DEF Result
<1>4. TypeOK'
  BY <1>1, <1>2, <1>3 DEF TypeOK, Places, Count
<1>5. FeasibleIsWithin'
  <2>1. Within(curve)'
    BY <1>1, <1>2, WithinStays
  <2>2. \A k \in Places(curve) : ErrorAt(curve, k).prop <= report.max
    BY <1>2 DEF Covers, Places
  <2>3. /\ Within(result.interp)' <=> Within(curve)'
        /\ Places(result.interp)' = Places(curve)
        /\ \A k : ErrorAt(result.interp, k)' = ErrorAt(curve, k)
    BY <1>1, <1>3 DEF Within, WithinAt, Places, Count, ErrorAt
  <2> QED
    BY <1>3, <2>1, <2>2, <2>3 DEF FeasibleIsWithin
<1>6. SimplestCurveThatFits'
  <2> SUFFICES ASSUME NEW c \in {"hold", "linear"}, Tried(c)', Within(c)'
               PROVE  curve = c \/ curve = "hold"
    BY <1>1, <1>3 DEF SimplestCurveThatFits
  <2>1. Within(c) /\ Tried(c)
    BY <1>1, WithinStays DEF Tried
  <2>2. CASE c = "hold"
    BY <1>1, <2>1, <2>2, Judged DEF Tried
  <2>3. CASE c = "linear"
    BY <1>1, <2>1, <2>3, Judged DEF Tried
  <2> QED
    BY <2>2, <2>3
<1>7. GateSeesTheWholeMiss'
  BY <1>1, GateKeeps DEF IInv
<1> QED
  BY <1>1, <1>4, <1>5, <1>6, <1>7 DEF IInv, Measuring, Judging, LeftBehind

\* After hold has missed.
LEMMA MissHoldKeeps ==
  ASSUME IInv, MissHold
  PROVE  IInv'
<1>1. /\ pc = "judge" /\ curve = "hold" /\ ~Passes(report)
      /\ infeasible' = Miss("hold", report.max, "infeasible_hold")
      /\ UNCHANGED <<call, miss>> /\ TryLinear
  BY DEF MissHold
<1>2. TypeOK /\ call.samples > 1 /\ ~Within("hold")
  BY <1>1, Judged
<1>3. Missed
  BY <1>1, <1>2 DEF TypeOK, Missed, IsMiss, Miss, Result, Curves
<1>4. GateSeesTheWholeMiss'
  BY <1>1, GateKeeps DEF IInv
<1>5. CASE ~call.linear /\ GivesUp
  BY <1>1, <1>2, <1>3, <1>4, <1>5, GivesUpKeeps DEF IInv
<1>6. CASE call.linear /\ Enters("linear")
  BY <1>1, <1>2, <1>3, <1>4, <1>6, EntersKeeps DEF Curves, IInv
<1>7. CASE ~call.linear /\ EntersSmooth
  BY <1>1, <1>2, <1>3, <1>4, <1>7, EntersSmoothKeeps DEF IInv
<1> QED
  BY <1>1, <1>3, <1>5, <1>6, <1>7, LinearFollows

\* A line cut short at the raised ceiling is beyond the gate, and one that was
\* not cut short has been seen whole.
LEMMA MissSeen ==
  ASSUME IInv, pc = "judge", curve = "linear", GatedLine
  PROVE  report.max <= call.gate
           <=> \A k \in Places("linear") : ErrorAt("linear", k).prop <= call.gate
<1> USE CallTypes
<1>1. TypeOK /\ Judging /\ call \in Calls
  BY DEF IInv, TypeOK
<1>2. Count(call, "linear") \in Nat /\ call.gate \in Nat /\ report.max \in Nat
  BY <1>1 DEF GatedLine, NoGate, TypeOK, Curves
<1>3. next \in 2 .. Count(call, "linear") + 1 /\ Covers(next - 1)
  BY <1>1 DEF Judging
<1>4. \A k \in Places("linear") : ErrorAt("linear", k).prop \in Nat
  BY <1>1 DEF Curves
<1>5. \A k \in 1 .. next - 1 : k \in Places("linear")
  BY <1>2, <1>3 DEF Places
<1>6. ASSUME report.max > call.gate
      PROVE  \E k \in Places("linear") : ErrorAt("linear", k).prop > call.gate
  <2>1. PICK k \in 1 .. next - 1 : ErrorAt(curve, k).prop = report.max
    BY <1>2, <1>3, <1>6 DEF Covers
  <2> QED
    BY <1>5, <1>6, <2>1
<1>7. ASSUME report.max <= call.gate, NEW k \in Places("linear")
      PROVE  ErrorAt("linear", k).prop <= call.gate
  <2>1. ~Exceeds(curve, report)
    <3>1. PropertyCeiling("linear") >= call.gate /\ PropertyCeiling("linear") \in Nat
      BY <1>1, <1>2 DEF PropertyCeiling, LinearFailFastPropertyCeiling, Larger,
                        AcceptancePropertyCeiling
    <3>2. ScreenCeiling("linear") = NoCeiling
      BY DEF ScreenCeiling
    <3> QED
      BY <1>2, <1>7, <3>1, <3>2 DEF Exceeds, Beyond
  <2>2. next = Count(call, "linear") + 1
    BY <1>1, <2>1 DEF Judging
  <2>3. k \in 1 .. next - 1
    BY <1>2, <2>2 DEF Places
  <2>4. ErrorAt("linear", k).prop <= report.max
    BY <1>3, <2>3 DEF Covers
  <2> QED
    BY <1>2, <1>4, <1>7, <2>4
<1> QED
  BY <1>2, <1>4, <1>6, <1>7

LEMMA MissLinearKeeps ==
  ASSUME IInv, MissLinear
  PROVE  IInv'
<1>1. /\ pc = "judge" /\ curve = "linear" /\ ~Passes(report)
      /\ miss' = [max |-> report.max] /\ call' = call /\ TryBezier
      /\ infeasible' =
           Smaller(infeasible, Miss("linear", report.max, "infeasible_linear"))
  BY DEF MissLinear
<1>2. /\ TypeOK /\ call.samples > 1 /\ ~Within("linear")
      /\ call.hold => ~Within("hold")
  BY <1>1, Judged
<1>3. Missed
  <2>1. IsMiss(infeasible) /\ IsMiss(Miss("linear", report.max, "infeasible_linear"))
    BY <1>2 DEF TypeOK, IsMiss, Miss, Result, Curves
  <2>2. IsMiss(infeasible')
    BY <1>1, <2>1, SmallerIsMiss
  <2> QED
    BY <1>1, <1>2, <2>2 DEF TypeOK, Missed
<1>4. GateSeesTheWholeMiss'
  <2> SUFFICES ASSUME GatedLine'
               PROVE  GateAllows(miss)' <=>
                        \A k \in Places("linear")' :
                          ErrorAt("linear", k)'.prop <= call'.gate
    BY DEF GateSeesTheWholeMiss
  <2>1. GatedLine
    BY <1>1 DEF GatedLine
  <2>2. GateAllows(miss)' <=> report.max <= call.gate
    BY <1>1, <2>1 DEF GateAllows, GatedLine
  <2>3. /\ Places("linear")' = Places("linear")
        /\ \A k : ErrorAt("linear", k)' = ErrorAt("linear", k)
    BY <1>1 DEF Places, Count, ErrorAt
  <2> QED
    BY <1>1, <2>1, <2>2, <2>3, MissSeen
<1>5. CASE GivesUp
  BY <1>1, <1>2, <1>3, <1>4, <1>5, GivesUpKeeps DEF IInv
<1>6. CASE EntersSmooth
  BY <1>1, <1>2, <1>3, <1>4, <1>6, EntersSmoothKeeps DEF IInv
<1> QED
  BY <1>1, <1>3, <1>5, <1>6, BezierFollows

\* After a smooth curve has missed.
LEMMA SmoothMissKeeps ==
  ASSUME IInv, UNCHANGED <<call, miss>>, Missed, curve \notin {"hold", "linear"},
         pc = "judge", GivesUp \/ EntersSmooth
  PROVE  IInv'
<1>1. /\ TypeOK /\ call.samples > 1
      /\ call.hold => ~Within("hold")
      /\ call.linear => ~Within("linear")
  BY DEF IInv, LeftBehind, Judging
<1>2. GateSeesTheWholeMiss'
  BY GateKeeps DEF IInv
<1>3. CASE GivesUp
  BY <1>1, <1>2, <1>3, GivesUpKeeps DEF IInv
<1>4. CASE EntersSmooth
  BY <1>1, <1>2, <1>4, EntersSmoothKeeps DEF IInv
<1> QED
  BY <1>3, <1>4

LEMMA MissSmoothKeeps ==
  ASSUME IInv, MissShape \/ MissHermite \/ MissCeres
  PROVE  IInv'
<1>1. TypeOK /\ IsMiss(infeasible) /\ report.max \in Nat
  BY DEF IInv, TypeOK, IsMiss
<1>2. CASE MissShape
  <2> DEFINE new == Miss("shape", report.max, "infeasible_shape_temporal_bezier")
  <2>1. IsMiss(new)
    BY <1>1 DEF IsMiss, Miss, Result, Curves
  <2>2. infeasible' = Smaller(infeasible, new)
    BY <1>2 DEF MissShape
  <2>3. IsMiss(infeasible')
    BY <1>1, <2>1, <2>2, SmallerIsMiss
  <2>4. UNCHANGED <<call, miss>> /\ pc = "judge" /\ curve = "shape" /\ TrySmoothCurves
    BY <1>2 DEF MissShape
  <2>5. Missed
    BY <1>1, <2>3, <2>4 DEF Missed, TypeOK
  <2> QED
    BY <2>4, <2>5, SmoothFollows, SmoothMissKeeps DEF EntersSmooth
<1>3. CASE MissHermite
  <2>1. UNCHANGED <<call, miss, infeasible>> /\ pc = "judge" /\ curve = "hermite"
    BY <1>3 DEF MissHermite
  <2>2. Missed
    BY <1>1, <2>1, SameMissed
  <2>3. Return(Miss("hermite", report.max, "infeasible_unified_spatial_speed")) => GivesUp
    BY <1>1, <2>2, GiveUpGivesUp DEF Curves
  <2>4. TryCeres(report.max) => GivesUp \/ Enters("ceres")
    BY <1>1, <2>2, CeresFollows
  <2> QED
    BY <1>3, <2>1, <2>2, <2>3, <2>4, SmoothMissKeeps DEF MissHermite, EntersSmooth
<1>4. CASE MissCeres
  <2> DEFINE new == Miss("ceres", report.max, "infeasible_bezier_ceres")
  <2>1. IsMiss(new)
    BY <1>1 DEF IsMiss, Miss, Result, Curves
  <2>2. infeasible' = Smaller(infeasible, new)
    BY <1>4 DEF MissCeres
  <2>3. IsMiss(infeasible')
    BY <1>1, <2>1, <2>2, SmallerIsMiss
  <2>4. UNCHANGED <<call, miss>> /\ pc = "judge" /\ curve = "ceres" /\ Return(infeasible')
    BY <1>4 DEF MissCeres
  <2>5. Missed
    BY <1>1, <2>3, <2>4 DEF Missed, TypeOK
  <2> QED
    BY <2>4, <2>5, GiveUpGivesUp, SmoothMissKeeps
<1> QED
  BY <1>2, <1>3, <1>4

------------------------------------------------------------------------------
LEMMA NextKeeps ==
  ASSUME IInv, [Next]_vars
  PROVE  IInv'
<1>1. CASE Next
  BY <1>1, BeginKeeps, AccumulateKeeps, ComputeKeeps, AcceptKeeps,
     MissHoldKeeps, MissLinearKeeps, MissSmoothKeeps DEF Next
<1>2. CASE UNCHANGED vars
  BY <1>2, WithinStays, GateKeeps
     DEF vars, IInv, TypeOK, Measuring, Judging, LeftBehind, Covers, Places, Count, ErrorAt,
         FailsFast, Exceeds, Beyond, PropertyCeiling, ScreenCeiling,
         LinearFailFastPropertyCeiling, AcceptancePropertyCeiling, GatedLine,
         AcceptanceScreenCeiling, FeasibleIsWithin, SimplestCurveThatFits, Tried
<1> QED
  BY <1>1, <1>2

LEMMA Invariance == Spec => []IInv
BY Initially, NextKeeps, PTL DEF Spec

\* A segment FitSegment calls feasible is within tolerance wherever its curve is
\* measured (every subframe, but the eased outline's samples only) and no worse
\* there than it reports, for any number of samples and any workers.
THEOREM FitIsWithin == Spec => []FeasibleIsWithin
<1>1. IInv => FeasibleIsWithin
  BY DEF IInv
<1> QED
  BY <1>1, Invariance, PTL

\* FitSegment never passes by a hold or a straight line that fits.
THEOREM FitIsSimplest == Spec => []SimplestCurveThatFits
<1>1. IInv => SimplestCurveThatFits
  BY DEF IInv
<1> QED
  BY <1>1, Invariance, PTL

\* The outline gate judges a line measured in part as it would the whole line.
THEOREM GateIsSound == Spec => []GateSeesTheWholeMiss
<1>1. IInv => GateSeesTheWholeMiss
  BY DEF IInv
<1> QED
  BY <1>1, Invariance, PTL

------------------------------------------------------------------------------
(***************************************************************************)
(* KeyCleanup: any clips, and anything motion smoothing may return.        *)
(*                                                                         *)
(* Smallest elements, and the largest of some values.                      *)
(***************************************************************************)
\* A set of numbers that is not empty has a smallest.
LEMMA SmallestElement ==
  ASSUME NEW T, T \subseteq Nat, T # {}
  PROVE  \E x \in T : \A y \in T : x <= y
<1> DEFINE R == OpToRel(<, Nat)
<1>1. IsWellFoundedOn(R, Nat)
  BY NatLessThanWellFounded
<1>2. PICK x \in T : \A y \in T : ~(<<y, x>> \in R)
  <2> HIDE DEF R
  <2> QED
    BY <1>1, WFMin
<1>3. \A y \in T : y < x => <<y, x>> \in R
  BY DEF OpToRel
<1>4. \A y \in T : ~(y < x)
  <2> HIDE DEF R
  <2> QED
    BY <1>2, <1>3
<1>5. x \in Nat /\ \A y \in T : y \in Nat
  OBVIOUS
<1> HIDE DEF R
<1> QED
  BY <1>4, <1>5

\* Induction up to n, over the set of the numbers something holds of.
LEMMA IntervalInduction ==
  ASSUME NEW n \in Nat, NEW S, 0 \in S,
         \A i \in 0 .. n - 1 : i \in S => i + 1 \in S
  PROVE  0 .. n \subseteq S
<1> DEFINE T == {i \in 0 .. n : i \notin S}
<1> SUFFICES ASSUME T # {} PROVE FALSE
  OBVIOUS
<1>1. T \subseteq Nat
  OBVIOUS
<1>2. PICK x \in T : \A y \in T : x <= y
  <2> HIDE DEF T
  <2> QED
    BY <1>1, SmallestElement
<1>3. x # 0 /\ x - 1 \in 0 .. n - 1
  OBVIOUS
<1>4. x - 1 \in S
  BY <1>2, <1>3
<1> QED
  BY <1>3, <1>4

\* The first n values of a function.
Values(f, n) == {f[i] : i \in 1 .. n}

\* Of finitely many numbers one is the largest, and Largest finds it.
LEMMA LargestBounds ==
  ASSUME NEW n \in Nat, NEW f \in [1 .. n -> Nat]
  PROVE  /\ Largest(Values(f, n)) \in Nat
         /\ \A i \in 1 .. n : f[i] <= Largest(Values(f, n))
         /\ n > 0 => \E i \in 1 .. n : Largest(Values(f, n)) = f[i]
<1> DEFINE S == {f[i] : i \in 1 .. n}
           Topped == {m \in 0 .. n :
                        m > 0 => \E j \in 1 .. m : \A i \in 1 .. m : f[i] <= f[j]}
<1>1. 0 \in Topped
  OBVIOUS
<1>2. ASSUME NEW m \in 0 .. n - 1, m \in Topped PROVE m + 1 \in Topped
  <2>1. m + 1 \in 0 .. n /\ m + 1 \in 1 .. m + 1 /\ m \in Nat
        /\ \A i \in 1 .. m + 1 : i \in 1 .. m \/ i = m + 1
    OBVIOUS
  <2>2. \A i \in 1 .. m + 1 : f[i] \in Nat
    BY <2>1
  <2>3. CASE m = 0
    <3>1. \A i \in 1 .. m + 1 : f[i] <= f[m + 1]
      BY <2>1, <2>2, <2>3
    <3> QED
      BY <2>1, <3>1
  <2>4. CASE m > 0
    <3>1. PICK j \in 1 .. m : \A i \in 1 .. m : f[i] <= f[j]
      BY <1>2, <2>4
    <3>2. j \in 1 .. m + 1 /\ f[j] \in Nat /\ f[m + 1] \in Nat
      BY <2>1, <2>2
    <3>3. CASE f[m + 1] <= f[j]
      <4>1. \A i \in 1 .. m + 1 : f[i] <= f[j]
        BY <2>1, <3>1, <3>3
      <4> QED
        BY <2>1, <3>2, <4>1
    <3>4. CASE f[j] <= f[m + 1]
      <4>1. \A i \in 1 .. m + 1 : f[i] <= f[m + 1]
        BY <2>1, <2>2, <3>1, <3>2, <3>4
      <4> QED
        BY <2>1, <4>1
    <3> QED
      BY <3>2, <3>3, <3>4
  <2> QED
    BY <2>1, <2>3, <2>4
<1>3. n \in Topped
  <2>1. \A i \in 0 .. n - 1 : i \in Topped => i + 1 \in Topped
    BY <1>2
  <2> HIDE DEF Topped
  <2>2. 0 .. n \subseteq Topped
    BY <1>1, <2>1, IntervalInduction
  <2> QED
    BY <2>2
<1>6. S = Values(f, n)
  BY DEF Values
<1>4. CASE n = 0
  <2>1. S = {} /\ 1 .. n = {}
    BY <1>4
  <2>2. Largest(Values(f, n)) = 0
    BY <1>6, <2>1 DEF Largest
  <2>3. \A i \in 1 .. n : FALSE
    BY <1>4
  <2> QED
    BY <1>4, <2>2, <2>3
<1>5. CASE n > 0
  <2>1. PICK j \in 1 .. n : \A i \in 1 .. n : f[i] <= f[j]
    BY <1>3, <1>5
  <2>2. f[j] \in S /\ S # {} /\ \A x \in S : x \in Nat /\ f[j] >= x
    BY <2>1
  <2>3. Max(S) \in S /\ \A y \in S : Max(S) >= y
    <3> HIDE DEF S
    <3> QED
      BY <2>2 DEF Max
  <2>4. Largest(S) = Max(S)
    <3> HIDE DEF S
    <3> QED
      BY <2>2 DEF Largest
  <2>5. \A i \in 1 .. n : f[i] \in S /\ f[i] \in Nat
    OBVIOUS
  <2> HIDE DEF S
  <2>6. \A i \in 1 .. n : f[i] <= Largest(S)
    BY <2>2, <2>3, <2>4, <2>5
  <2>7. \E i \in 1 .. n : Largest(S) = f[i]
    BY <2>3, <2>4 DEF S
  <2> QED
    BY <2>2, <2>3, <2>4, <2>6, <2>7, <1>6
<1> QED
  BY <1>4, <1>5

\* What the error of keys on samples is: a bound of the distances, and one of them.
LEMMA ErrorOfKeys ==
  ASSUME NEW samples, NEW ks, Len(samples) \in Nat \ {0},
         \A i \in 1 .. Len(samples) :
           samples[i].v \in Int /\ EvalKeysAt(ks, samples[i].t) \in Int
  PROVE  /\ ValidateKeys(samples, ks) \in Nat
         /\ \A i \in 1 .. Len(samples) :
              Abs(samples[i].v - EvalKeysAt(ks, samples[i].t))
                <= ValidateKeys(samples, ks)
         /\ \E i \in 1 .. Len(samples) :
              ValidateKeys(samples, ks)
                = Abs(samples[i].v - EvalKeysAt(ks, samples[i].t))
<1> DEFINE n == Len(samples)
           f == [i \in 1 .. n |-> Abs(samples[i].v - EvalKeysAt(ks, samples[i].t))]
<1>1. f \in [1 .. n -> Nat]
  <2>1. \A i \in 1 .. n : Abs(samples[i].v - EvalKeysAt(ks, samples[i].t)) \in Nat
    BY DEF Abs
  <2> QED
    BY <2>1
<1>2. ValidateKeys(samples, ks) = Largest(Values(f, n))
  <2>1. {f[i] : i \in 1 .. n} =
        {Abs(samples[i].v - EvalKeysAt(ks, samples[i].t)) : i \in 1 .. n}
    OBVIOUS
  <2> QED
    BY <2>1 DEF ValidateKeys, Values
<1>3. \A i \in 1 .. n : f[i] = Abs(samples[i].v - EvalKeysAt(ks, samples[i].t))
  OBVIOUS
<1> HIDE DEF f
<1>4. /\ Largest(Values(f, n)) \in Nat
      /\ \A i \in 1 .. n : f[i] <= Largest(Values(f, n))
      /\ \E i \in 1 .. n : Largest(Values(f, n)) = f[i]
  <2>1. n \in Nat /\ n > 0
    OBVIOUS
  <2> HIDE DEF n
  <2> QED
    BY <1>1, <2>1, LargestBounds
<1> HIDE DEF f
<1> QED
  BY <1>2, <1>3, <1>4

\* Errors compare as the distances they are the largest of.
LEMMA ErrorWithin ==
  ASSUME NEW samples, NEW ks, Len(samples) \in Nat \ {0},
         \A i \in 1 .. Len(samples) :
           samples[i].v \in Int /\ EvalKeysAt(ks, samples[i].t) \in Int,
         NEW b \in Int,
         \A i \in 1 .. Len(samples) :
           Abs(samples[i].v - EvalKeysAt(ks, samples[i].t)) <= b
  PROVE  ValidateKeys(samples, ks) <= b
BY ErrorOfKeys

------------------------------------------------------------------------------
(***************************************************************************)
(* Keys in the order of time, and what they evaluate to.                   *)
(***************************************************************************)
\* Keys there are, in the order of time.
AreKeys(ks) == ks \in Seq(Key) /\ Len(ks) > 0 /\ MoveForward(ks)

\* A count that is not zero is one or more.
LEMMA OneOrMore ==
  ASSUME NEW n \in Nat, n > 0
  PROVE  n = 1 \/ n > 1
OBVIOUS

\* A key of a sequence of keys is a key.
LEMMA KeysAreKeys ==
  ASSUME NEW ks \in Seq(Key)
  PROVE  /\ Len(ks) \in Nat
         /\ \A i \in 1 .. Len(ks) :
              /\ ks[i] \in Key
              /\ ks[i].t \in Nat /\ ks[i].v \in Int /\ ks[i].n \in Nat
              /\ ks[i].arc \in Int
<1>1. Len(ks) \in Nat /\ \A i \in 1 .. Len(ks) : ks[i] \in Key
  OBVIOUS
<1>2. \A k \in Key : k.t \in Nat /\ k.v \in Int /\ k.n \in Nat /\ k.arc \in Int
  BY DEF Key
<1> QED
  BY <1>1, <1>2

\* Keys that follow one another are apart however many are between them.
LEMMA LaterKeysAreLater ==
  ASSUME NEW ks, NEW n \in Nat, \A i \in 1 .. n : ks[i].t \in Nat,
         \A i \in 2 .. n : ks[i - 1].t < ks[i].t
  PROVE  \A i \in 1 .. n, j \in 1 .. n : i < j => ks[i].t < ks[j].t
<1> SUFFICES ASSUME NEW i \in 1 .. n
             PROVE  \A j \in 1 .. n : i < j => ks[i].t < ks[j].t
  OBVIOUS
<1> DEFINE Later == {d \in 0 .. n - i : d > 0 => ks[i].t < ks[i + d].t}
<1>1. 0 \in Later
  OBVIOUS
<1>2. ASSUME NEW d \in 0 .. (n - i) - 1, d \in Later PROVE d + 1 \in Later
  <2>1. d + 1 \in 0 .. n - i /\ i + (d + 1) \in 2 .. n
        /\ (i + (d + 1)) - 1 = i + d /\ i + d \in 1 .. n /\ i + (d + 1) \in 1 .. n
    OBVIOUS
  <2>2. ks[i + d].t < ks[i + (d + 1)].t
    BY <2>1
  <2>3. d = 0 \/ ks[i].t < ks[i + d].t
    BY <1>2
  <2>4. ks[i].t \in Nat /\ ks[i + d].t \in Nat /\ ks[i + (d + 1)].t \in Nat
    BY <2>1
  <2>5. d = 0 => i + d = i
    OBVIOUS
  <2>6. ks[i].t < ks[i + (d + 1)].t
    BY <2>2, <2>3, <2>4, <2>5
  <2> QED
    BY <2>1, <2>6
<1>3. 0 .. n - i \subseteq Later
  <2>1. n - i \in Nat
    OBVIOUS
  <2>2. \A d \in 0 .. (n - i) - 1 : d \in Later => d + 1 \in Later
    BY <1>2
  <2> HIDE DEF Later
  <2> QED
    BY <1>1, <2>1, <2>2, IntervalInduction
<1> TAKE j \in 1 .. n
<1> HAVE i < j
<1>4. j - i \in 0 .. n - i /\ j - i > 0 /\ i + (j - i) = j
  OBVIOUS
<1> QED
  BY <1>3, <1>4

\* The segment of a time between two keys starts at a key before the last.
LEMMA SegmentIsThere ==
  ASSUME NEW ks, Len(ks) \in Nat, Len(ks) > 1, NEW t
  PROVE  FindSegment(ks, t) \in 1 .. Len(ks) - 1
<1> DEFINE later == {i \in 1 .. Len(ks) - 1 : t <= ks[i + 1].t}
<1>1. CASE later = {}
  BY <1>1 DEF FindSegment
<1>2. CASE later # {}
  <2>1. later \subseteq Nat /\ later \subseteq 1 .. Len(ks) - 1
    OBVIOUS
  <2>2. PICK x \in later : \A y \in later : x <= y
    <3> HIDE DEF later
    <3> QED
      BY <1>2, <2>1, SmallestElement
  <2>3. Min(later) \in later
    <3> HIDE DEF later
    <3> QED
      BY <2>2 DEF Min
  <2>4. FindSegment(ks, t) = Min(later)
    BY <1>2 DEF FindSegment
  <2> HIDE DEF later
  <2> QED
    BY <2>1, <2>3, <2>4
<1> QED
  BY <1>1, <1>2

\* Division by what is positive is a number.
LEMMA Quotient ==
  ASSUME NEW a \in Int, NEW b \in Int, b > 0
  PROVE  a \div b \in Int
OBVIOUS

\* A segment evaluates to a number.
LEMMA SegmentValue ==
  ASSUME NEW l \in Key, NEW r \in Key, l.t < r.t, NEW t \in Nat
  PROVE  EvalSegment(l, r, t) \in Int
<1>1. /\ l.t \in Nat /\ l.v \in Int /\ l.arc \in Int
      /\ r.t \in Nat /\ r.v \in Int
  BY DEF Key
<1> DEFINE u == t - l.t
           span == r.t - l.t
           rise == r.v - l.v
<1>2. u \in Int /\ span \in Int /\ span > 0 /\ rise \in Int
  BY <1>1
<1>3. (rise * u) \div span \in Int
  <2> HIDE DEF u, span, rise
  <2>1. rise * u \in Int
    BY <1>2
  <2> QED
    BY <1>2, <2>1, Quotient
<1>4. (rise * u * u * (3 * span - 2 * u)) \div (span * span * span) \in Int
  <2> HIDE DEF u, span, rise
  <2>1. rise * u \in Int /\ 3 * span - 2 * u \in Int
    BY <1>2
  <2>2. rise * u * u \in Int
    BY <1>2, <2>1
  <2>3. rise * u * u * (3 * span - 2 * u) \in Int
    BY <2>1, <2>2
  <2>4. span * span \in Int /\ span * span > 0
    BY <1>2
  <2>5. span * span * span \in Int /\ span * span * span > 0
    BY <1>2, <2>4
  <2> QED
    BY <2>3, <2>5, Quotient
<1>5. EvalLinear(l, r, t) \in Int
  BY <1>1, <1>3 DEF EvalLinear
<1>6. EvalTemporalBezier(l, r, t) \in Int
  BY <1>1, <1>4 DEF EvalTemporalBezier
<1>7. EvalUnifiedSpatialBezier(l, r, t) \in Int
  BY <1>1, <1>6 DEF EvalUnifiedSpatialBezier
<1> QED
  BY <1>1, <1>5, <1>6, <1>7 DEF EvalSegment

\* Keys evaluate to a number at any time.
LEMMA KeysEvaluate ==
  ASSUME NEW ks, AreKeys(ks), NEW t \in Nat
  PROVE  EvalKeysAt(ks, t) \in Int
<1>1. /\ Len(ks) \in Nat /\ Len(ks) > 0
      /\ \A i \in 1 .. Len(ks) : ks[i] \in Key /\ ks[i].v \in Int
  BY KeysAreKeys DEF AreKeys
<1>2. Front(ks).v \in Int /\ Back(ks).v \in Int
  <2>1. 1 \in 1 .. Len(ks) /\ Len(ks) \in 1 .. Len(ks)
    BY <1>1
  <2> QED
    BY <1>1, <2>1 DEF Front, Back
<1>3. CASE Len(ks) > 1
  <2> DEFINE i == FindSegment(ks, t)
  <2>1. i \in 1 .. Len(ks) - 1
    BY <1>1, <1>3, SegmentIsThere
  <2> HIDE DEF i
  <2>2. i \in 1 .. Len(ks) /\ i + 1 \in 1 .. Len(ks) /\ i + 1 \in 2 .. Len(ks)
        /\ (i + 1) - 1 = i
    BY <1>1, <2>1
  <2>3. ks[i].t < ks[i + 1].t
    BY <2>2 DEF AreKeys, MoveForward
  <2>4. EvalSegment(ks[i], ks[i + 1], t) \in Int
    BY <1>1, <2>2, <2>3, SegmentValue
  <2> QED
    BY <1>2, <2>4 DEF EvalKeysAt, i
<1>4. CASE Len(ks) = 1
  BY <1>2, <1>4 DEF EvalKeysAt
<1>5. Len(ks) = 1 \/ Len(ks) > 1
  BY <1>1, OneOrMore
<1> QED
  BY <1>3, <1>4, <1>5

\* Before its first and after its last key a property stays as it is there.
LEMMA AfterTheLastKey ==
  ASSUME NEW ks, AreKeys(ks), NEW t \in Nat, Back(ks).t <= t
  PROVE  EvalKeysAt(ks, t) = Back(ks).v
<1>1. /\ Len(ks) \in Nat /\ Len(ks) > 0
      /\ \A i \in 1 .. Len(ks) : ks[i].t \in Nat
  BY KeysAreKeys DEF AreKeys
<1>2. CASE Len(ks) = 1
  BY <1>2 DEF EvalKeysAt, Front, Back
<1>3. CASE Len(ks) > 1
  <2>1. 1 \in 1 .. Len(ks) /\ Len(ks) \in 1 .. Len(ks)
    BY <1>1
  <2>2. ks[1].t < ks[Len(ks)].t
    BY <1>1, <1>3, <2>1, LaterKeysAreLater DEF AreKeys, MoveForward
  <2>3. Front(ks).t < Back(ks).t /\ Front(ks).t \in Nat /\ Back(ks).t \in Nat
    BY <1>1, <2>1, <2>2 DEF Front, Back
  <2>4. Len(ks) # 1 /\ ~(t <= Front(ks).t) /\ t >= Back(ks).t
    BY <1>1, <1>3, <2>3
  <2> QED
    BY <2>4 DEF EvalKeysAt
<1>4. Len(ks) = 1 \/ Len(ks) > 1
  BY <1>1, OneOrMore
<1> QED
  BY <1>2, <1>3, <1>4

\* How the last key leaves is of no consequence: no segment starts at it.
LEMMA LastKeyMayHold ==
  ASSUME NEW ks, AreKeys(ks), NEW how \in Interps, NEW held,
         held = [ks EXCEPT ![Len(ks)].out = how]
  PROVE  /\ AreKeys(held) /\ Len(held) = Len(ks)
         /\ Back(held).t = Back(ks).t
         /\ \A t \in Nat : EvalKeysAt(held, t) = EvalKeysAt(ks, t)
<1>1. /\ Len(ks) \in Nat /\ Len(ks) > 0 /\ ks \in Seq(Key)
      /\ \A i \in 1 .. Len(ks) : ks[i] \in Key /\ ks[i].t \in Nat
  BY KeysAreKeys DEF AreKeys
<1>2. Len(ks) \in 1 .. Len(ks) /\ 1 \in 1 .. Len(ks)
  BY <1>1
<1> DEFINE n == Len(ks)
           last == [ks[n] EXCEPT !.out = how]
<1>3. held = [ks EXCEPT ![n] = last]
  OBVIOUS
<1>4. last \in Key /\ last.t = ks[n].t /\ last.v = ks[n].v /\ last.in = ks[n].in
  BY <1>1, <1>2 DEF Key
<1>5. held \in Seq(Key) /\ Len(held) = n
  <2> HIDE DEF last
  <2> QED
    BY <1>1, <1>2, <1>3, <1>4
<1>6. held[n] = last /\ \A i \in 1 .. n : i # n => held[i] = ks[i]
  <2>1. ks \in [1 .. n -> Key]
    BY <1>1
  <2> HIDE DEF last
  <2> QED
    BY <1>2, <1>3, <2>1
<1>7. \A i \in 1 .. n : held[i].t = ks[i].t /\ held[i].v = ks[i].v
                         /\ held[i].in = ks[i].in
  <2> HIDE DEF last
  <2> QED
    BY <1>4, <1>6
<1>8. \A i \in 1 .. n - 1 : held[i].out = ks[i].out /\ held[i].arc = ks[i].arc
  <2>1. \A i \in 1 .. n - 1 : i \in 1 .. n /\ i # n
    BY <1>1
  <2> QED
    BY <1>6, <2>1
<1> HIDE DEF last, n
<1>9. MoveForward(held)
  <2>1. \A i \in 2 .. n : i \in 1 .. n /\ i - 1 \in 1 .. n
    BY <1>1 DEF n
  <2>2. \A i \in 2 .. n : ks[i - 1].t < ks[i].t
    BY DEF AreKeys, MoveForward, n
  <2> QED
    BY <1>5, <1>7, <2>1, <2>2 DEF MoveForward
<1>10. Front(held).t = Front(ks).t /\ Front(held).v = Front(ks).v
       /\ Back(held).t = Back(ks).t /\ Back(held).v = Back(ks).v
  BY <1>2, <1>5, <1>7 DEF Front, Back, n
<1>11. ASSUME NEW t \in Nat PROVE FindSegment(held, t) = FindSegment(ks, t)
  <2>1. \A i \in 1 .. n - 1 : i + 1 \in 1 .. n
    BY <1>1 DEF n
  <2>2. {i \in 1 .. n - 1 : t <= held[i + 1].t} = {i \in 1 .. n - 1 : t <= ks[i + 1].t}
    BY <1>7, <2>1
  <2>3. Len(held) = n /\ Len(ks) = n
    BY <1>5 DEF n
  <2> QED
    BY <2>2, <2>3 DEF FindSegment
<1>12. ASSUME NEW t \in Nat PROVE EvalKeysAt(held, t) = EvalKeysAt(ks, t)
  <2>1. CASE n = 1
    BY <1>5, <1>10, <2>1 DEF EvalKeysAt, n
  <2>2. CASE n > 1
    <3> DEFINE i == FindSegment(ks, t)
    <3>1. i \in 1 .. n - 1
      BY <1>1, <2>2, SegmentIsThere DEF n
    <3>2. i \in 1 .. n /\ i + 1 \in 1 .. n
      BY <1>1, <3>1 DEF n
    <3> HIDE DEF i
    <3>3. EvalSegment(held[i], held[i + 1], t) = EvalSegment(ks[i], ks[i + 1], t)
      BY <1>7, <1>8, <3>1, <3>2, SMTT(30)
         DEF EvalSegment, EvalLinear, EvalUnifiedSpatialBezier, EvalTemporalBezier
    <3>4. FindSegment(held, t) = i
      BY <1>11 DEF i
    <3>5. Len(held) = Len(ks)
      BY <1>5 DEF n
    <3> QED
      BY <1>10, <3>3, <3>4, <3>5 DEF EvalKeysAt, i
  <2>3. n = 1 \/ n > 1
    BY <1>1, OneOrMore DEF n
  <2> QED
    BY <2>1, <2>2, <2>3
<1> QED
  BY <1>1, <1>5, <1>9, <1>10, <1>12 DEF AreKeys, n

\* The error of keys is that of keys that evaluate the same.
LEMMA SameMotionSameError ==
  ASSUME NEW samples, NEW ks, NEW others,
         \A i \in 1 .. Len(samples) :
           EvalKeysAt(others, samples[i].t) = EvalKeysAt(ks, samples[i].t)
  PROVE  ValidateKeys(samples, others) = ValidateKeys(samples, ks)
<1>1. {Abs(samples[i].v - EvalKeysAt(others, samples[i].t)) : i \in 1 .. Len(samples)}
      = {Abs(samples[i].v - EvalKeysAt(ks, samples[i].t)) : i \in 1 .. Len(samples)}
  OBVIOUS
<1> QED
  BY <1>1 DEF ValidateKeys

------------------------------------------------------------------------------
(***************************************************************************)
(* The keys a step keeps.                                                  *)
(***************************************************************************)
\* Every element of a set of indices has its turn, in their order.
LEMMA NthElement ==
  ASSUME NEW n \in Nat, NEW I, I \subseteq 1 .. n
  PROVE  /\ IsFiniteSet(I) /\ Cardinality(I) \in Nat /\ Cardinality(I) <= n
         /\ \A k \in 1 .. Cardinality(I) : Nth(I, k) \in I
         /\ \A k \in 1 .. Cardinality(I), l \in 1 .. Cardinality(I) :
              k < l => Nth(I, k) < Nth(I, l)
<1> DEFINE Below(i) == {j \in I : j < i}
           c == Cardinality(I)
           Ranks == {r \in Nat : \E i \in I : Cardinality(Below(i)) = r}
<1>1. IsFiniteSet(I) /\ c \in Nat /\ c <= n
  <2>1. IsFiniteSet(1 .. n) /\ Cardinality(1 .. n) = n
    BY FS_Interval
  <2> QED
    BY <2>1, FS_Subset, FS_CardinalityType
<1>2. \A T : T \subseteq I => IsFiniteSet(T)
  BY <1>1, FS_Subset
<1>8. I \subseteq Nat
  <2>1. 1 .. n \subseteq Nat
    OBVIOUS
  <2> QED
    BY <2>1
<1>3. ASSUME c > 0 PROVE 0 \in Ranks
  <2>1. I # {}
    BY <1>3, FS_EmptySet
  <2>2. PICK x \in I : \A y \in I : x <= y
    BY <1>8, <2>1, SmallestElement
  <2>3. Below(x) = {}
    <3> SUFFICES ASSUME NEW u \in Below(x) PROVE FALSE
      OBVIOUS
    <3>1. u \in I /\ u < x /\ x <= u /\ u \in Nat /\ x \in Nat
      BY <1>8, <2>2
    <3> QED
      BY <3>1
  <2> QED
    BY <2>3, FS_EmptySet
<1>4. ASSUME NEW r \in 0 .. c - 2, r \in Ranks PROVE r + 1 \in Ranks
  <2>1. PICK i \in I : Cardinality(Below(i)) = r
    BY <1>4
  <2> DEFINE Above == {u \in I : u > i}
             Upto == Below(i) \cup {i}
  <2>2. IsFiniteSet(Below(i)) /\ i \notin Below(i)
    BY <1>2
  <2>3. IsFiniteSet(Upto) /\ Cardinality(Upto) = r + 1
    <3> HIDE DEF Below
    <3> QED
      BY <2>1, <2>2, FS_AddElement
  <2>4. Above # {}
    <3> SUFFICES ASSUME Above = {} PROVE FALSE
      OBVIOUS
    <3>1. \A u \in I : u < i \/ u = i
      BY <1>8
    <3>2. I = Upto
      BY <3>1
    <3>3. c = r + 1
      BY <2>3, <3>2
    <3> QED
      BY <1>1, <1>4, <3>3
  <2>5. Above \subseteq Nat
    BY <1>8
  <2>6. PICK x \in Above : \A y \in Above : x <= y
    <3> HIDE DEF Above
    <3> QED
      BY <2>4, <2>5, SmallestElement
  <2>7. \A u \in I : u < x <=> (u < i \/ u = i)
    BY <1>8, <2>6
  <2>8. Below(x) = Upto
    BY <2>7
  <2>9. x \in I /\ Cardinality(Below(x)) = r + 1 /\ r + 1 \in Nat
    BY <1>4, <2>3, <2>6, <2>8
  <2> QED
    BY <2>9
<1>5. \A k \in 1 .. c : k - 1 \in Ranks
  <2> SUFFICES ASSUME c > 0 PROVE \A k \in 1 .. c : k - 1 \in Ranks
    BY <1>1
  <2>1. c - 1 \in Nat /\ 0 \in Ranks
    BY <1>1, <1>3
  <2>2. \A r \in 0 .. (c - 1) - 1 : r \in Ranks => r + 1 \in Ranks
    <3> HIDE DEF c, Ranks
    <3>1. \A r \in 0 .. (c - 1) - 1 : r \in 0 .. c - 2
      BY <1>1
    <3> QED
      BY <1>4, <3>1
  <2>3. 0 .. c - 1 \subseteq Ranks
    <3> HIDE DEF c, Ranks
    <3> QED
      BY <2>1, <2>2, IntervalInduction
  <2> HIDE DEF c, Ranks
  <2>4. \A k \in 1 .. c : k - 1 \in 0 .. c - 1
    BY <1>1
  <2> QED
    BY <2>3, <2>4
<1>6. \A k \in 1 .. c : Nth(I, k) \in I /\ Cardinality(Below(Nth(I, k))) = k - 1
  <2> TAKE k \in 1 .. c
  <2>1. \E i \in I : Cardinality({j \in I : j < i}) = k - 1
    BY <1>5
  <2> QED
    BY <2>1 DEF Nth
<1>7. ASSUME NEW k \in 1 .. c, NEW l \in 1 .. c, k < l
      PROVE  Nth(I, k) < Nth(I, l)
  <2> SUFFICES ASSUME ~(Nth(I, k) < Nth(I, l)) PROVE FALSE
    OBVIOUS
  <2>1. Nth(I, k) \in I /\ Nth(I, l) \in I
    BY <1>6
  <2>2. Below(Nth(I, l)) \subseteq Below(Nth(I, k))
    <3>1. Nth(I, k) \in Nat /\ Nth(I, l) \in Nat
      BY <1>8, <2>1
    <3>2. Nth(I, l) <= Nth(I, k)
      BY <3>1
    <3>3. \A j \in I : j < Nth(I, l) => j < Nth(I, k)
      BY <1>8, <3>1, <3>2
    <3> QED
      BY <3>3
  <2>3. Cardinality(Below(Nth(I, l))) <= Cardinality(Below(Nth(I, k)))
    <3>1. IsFiniteSet(Below(Nth(I, k)))
      BY <1>2
    <3> HIDE DEF Below
    <3> QED
      BY <2>2, <3>1, FS_Subset
  <2>4. Cardinality(Below(Nth(I, k))) = k - 1 /\ Cardinality(Below(Nth(I, l))) = l - 1
    BY <1>6
  <2> HIDE DEF Below
  <2>5. l - 1 <= k - 1
    BY <2>3, <2>4
  <2> QED
    BY <1>1, <1>7, <2>5
<1> QED
  BY <1>1, <1>6, <1>7

\* The elements at a set of indices, and what order they keep.
LEMMA ThoseElements ==
  ASSUME NEW S, NEW s \in Seq(S), NEW I, I \subseteq 1 .. Len(s)
  PROVE  /\ Those(s, I) \in Seq(S)
         /\ Len(Those(s, I)) = Cardinality(I) /\ Cardinality(I) <= Len(s)
         /\ Cardinality(I) \in Nat
         /\ \A k \in 1 .. Cardinality(I) :
              /\ Nth(I, k) \in I /\ Nth(I, k) \in 1 .. Len(s)
              /\ Those(s, I)[k] = s[Nth(I, k)]
<1>1. Len(s) \in Nat /\ \A i \in 1 .. Len(s) : s[i] \in S
  OBVIOUS
<1> DEFINE c == Cardinality(I)
<1>2. c \in Nat /\ c <= Len(s) /\ \A k \in 1 .. c : Nth(I, k) \in I
  BY <1>1, NthElement
<1>3. \A k \in 1 .. c : Nth(I, k) \in 1 .. Len(s)
  BY <1>2
<1>4. Those(s, I) = [k \in 1 .. c |-> s[Nth(I, k)]]
  BY DEF Those
<1> HIDE DEF c
<1>5. Those(s, I) \in [1 .. c -> S]
  BY <1>1, <1>3, <1>4
<1>6. Those(s, I) \in Seq(S) /\ Len(Those(s, I)) = c
  BY <1>2, <1>5
<1>7. \A k \in 1 .. c : Those(s, I)[k] = s[Nth(I, k)]
  BY <1>4
<1> QED
  BY <1>2, <1>3, <1>6, <1>7 DEF c

\* What is kept of a sequence in the order of time is in that order.
LEMMA ThoseMoveForward ==
  ASSUME NEW S, NEW s \in Seq(S), NEW I, I \subseteq 1 .. Len(s),
         \A i \in 1 .. Len(s) : s[i].t \in Nat, MoveForward(s)
  PROVE  MoveForward(Those(s, I))
<1> DEFINE c == Cardinality(I)
           kept == Those(s, I)
<1>1. /\ Len(kept) = c /\ c \in Nat
      /\ \A k \in 1 .. c : Nth(I, k) \in 1 .. Len(s) /\ kept[k] = s[Nth(I, k)]
  <2>1. /\ Those(s, I) \in Seq(S)
        /\ Len(Those(s, I)) = Cardinality(I) /\ Cardinality(I) <= Len(s)
        /\ Cardinality(I) \in Nat
        /\ \A k \in 1 .. Cardinality(I) :
             /\ Nth(I, k) \in I /\ Nth(I, k) \in 1 .. Len(s)
             /\ Those(s, I)[k] = s[Nth(I, k)]
    BY ThoseElements, ZenonT(60)
  <2> QED
    BY <2>1, Zenon
<1>2. \A k \in 1 .. c, l \in 1 .. c : k < l => Nth(I, k) < Nth(I, l)
  <2> DEFINE n == Len(s)
  <2>1. n \in Nat /\ I \subseteq 1 .. n
    OBVIOUS
  <2> HIDE DEF n
  <2> QED
    BY <2>1, NthElement, ZenonT(30)
<1>3. \A i \in 1 .. Len(s), j \in 1 .. Len(s) : i < j => s[i].t < s[j].t
  <2>1. Len(s) \in Nat
    OBVIOUS
  <2>2. \A i \in 2 .. Len(s) : s[i - 1].t < s[i].t
    BY DEF MoveForward
  <2> QED
    BY <2>1, <2>2, LaterKeysAreLater
<1> HIDE DEF c, kept
<1>4. ASSUME NEW k \in 2 .. c PROVE kept[k - 1].t < kept[k].t
  <2>1. k - 1 \in 1 .. c /\ k \in 1 .. c /\ k - 1 < k
    BY <1>1
  <2>2. Nth(I, k - 1) < Nth(I, k)
    BY <1>2, <2>1
  <2>3. s[Nth(I, k - 1)].t < s[Nth(I, k)].t
    BY <1>1, <1>3, <2>1, <2>2
  <2> QED
    BY <1>1, <2>1, <2>3
<1> QED
  BY <1>1, <1>4 DEF MoveForward, kept

\* The first run of equal keys starts at the first key.
LEMMA FirstRunStartsFirst ==
  ASSUME NEW ks
  PROVE  RunStart(ks, 1) = 1
<1>1. {j \in 1 .. 1 : j = 1 \/ ~Equal(ks[j - 1], ks[j])} = {1}
  OBVIOUS
<1>2. Max({1}) = 1
  BY DEF Max
<1> QED
  BY <1>1, <1>2 DEF RunStart

\* Collapsing leaves keys, in the order of time, the first among them.
LEMMA CollapsedAreKeys ==
  ASSUME NEW ks, AreKeys(ks)
  PROVE  AreKeys(CollapsedRuns(ks))
<1>1. /\ Len(ks) \in Nat /\ Len(ks) > 0 /\ ks \in Seq(Key)
      /\ \A i \in 1 .. Len(ks) : ks[i] \in Key /\ ks[i].t \in Nat
  BY KeysAreKeys DEF AreKeys
<1> DEFINE n == Len(ks)
           held == [i \in 1 .. n |-> HeldAcrossRun(ks, i)]
           I == {i \in 1 .. n : ~Spare(ks, i)}
<1>2. \A i \in 1 .. n : held[i] \in Key /\ held[i].t = ks[i].t
  <2> TAKE i \in 1 .. n
  <2>1. ks[i] \in Key
    BY <1>1
  <2>3. ks[i].out \in Interps /\ ks[i].in \in Interps /\ "hold" \in Interps
    BY <2>1 DEF Key, Interps
  <2> DEFINE out == IF Shortened(ks, i) /\ i = RunStart(ks, i) THEN "hold"
                    ELSE ks[i].out
             in == IF Shortened(ks, i) /\ i # RunStart(ks, i) THEN "hold"
                   ELSE ks[i].in
  <2>4. out \in Interps /\ in \in Interps
    BY <2>3
  <2>5. held[i] = [ks[i] EXCEPT !.out = out, !.in = in]
    BY DEF HeldAcrossRun
  <2> HIDE DEF out, in, held
  <2> QED
    BY <2>1, <2>4, <2>5 DEF Key
<1>3. held \in Seq(Key) /\ Len(held) = n
  <2>1. held \in [1 .. n -> Key]
    BY <1>2
  <2> QED
    BY <1>1, <2>1
<1>4. MoveForward(held)
  <2>1. \A i \in 2 .. n : i \in 1 .. n /\ i - 1 \in 1 .. n
    BY <1>1
  <2>2. \A i \in 2 .. n : ks[i - 1].t < ks[i].t
    BY DEF AreKeys, MoveForward
  <2> HIDE DEF held
  <2> QED
    BY <1>2, <1>3, <2>1, <2>2 DEF MoveForward
<1>5. CollapsedRuns(ks) = Those(held, I)
  BY DEF CollapsedRuns
<1>6. 1 \in I
  BY <1>1, FirstRunStartsFirst DEF Spare
<1>7. I \subseteq 1 .. Len(held) /\ \A i \in 1 .. Len(held) : held[i].t \in Nat
  BY <1>1, <1>2, <1>3
<1> HIDE DEF held, n, I
<1>8. Those(held, I) \in Seq(Key) /\ Len(Those(held, I)) = Cardinality(I)
      /\ MoveForward(Those(held, I)) /\ Cardinality(I) \in Nat
  BY <1>3, <1>4, <1>7, ThoseElements, ThoseMoveForward
<1>9. Cardinality(I) # 0
  <2>1. IsFiniteSet(I)
    <3>1. Len(held) \in Nat
      BY <1>3
    <3> QED
      BY <1>7, <3>1, NthElement
  <2> QED
    BY <1>6, <2>1, FS_EmptySet
<1> QED
  BY <1>5, <1>8, <1>9 DEF AreKeys

\* The anchored keys are keys in the order of time, the last at the boundary.
LEMMA AnchoredAreKeys ==
  ASSUME AreKeys(keys), NEW t \in Nat
  PROVE  AreKeys(AnchoredAt(t))
<1>1. /\ Len(keys) \in Nat /\ Len(keys) > 0 /\ keys \in Seq(Key)
      /\ \A i \in 1 .. Len(keys) : keys[i] \in Key /\ keys[i].t \in Nat
  BY KeysAreKeys DEF AreKeys
<1> DEFINE I == {i \in 1 .. Len(keys) : keys[i].t < t}
           kept == Those(keys, I)
           c == Cardinality(I)
           anchor == BoundaryAnchor(t)
<1>2. anchor \in Key /\ anchor.t = t
  <2>1. Back(keys) \in Key
    BY <1>1 DEF Back
  <2>2. anchor = [Back(keys) EXCEPT !.t = t, !.out = "hold", !.arc = 0]
    BY DEF BoundaryAnchor
  <2>3. "hold" \in Interps /\ 0 \in Int
    BY DEF Interps
  <2> HIDE DEF anchor
  <2> QED
    BY <2>1, <2>2, <2>3 DEF Key
<1>3. /\ kept \in Seq(Key) /\ Len(kept) = c /\ c \in Nat
      /\ \A k \in 1 .. c : Nth(I, k) \in I /\ kept[k] = keys[Nth(I, k)]
  BY <1>1, ThoseElements
<1>4. MoveForward(kept)
  BY <1>1, ThoseMoveForward DEF AreKeys
<1>5. \A k \in 1 .. c : kept[k].t < t
  BY <1>3
<1>6. AnchoredAt(t) = kept \o <<anchor>>
  BY DEF AnchoredAt
<1> HIDE DEF I, kept, c, anchor
<1>7. <<anchor>> \in Seq(Key) /\ Len(<<anchor>>) = 1
  BY <1>2
<1>8. /\ kept \o <<anchor>> \in Seq(Key)
      /\ Len(kept \o <<anchor>>) = c + 1
      /\ \A k \in 1 .. c : (kept \o <<anchor>>)[k] = kept[k]
      /\ (kept \o <<anchor>>)[c + 1] = anchor
  BY <1>3, <1>7
<1>9. MoveForward(kept \o <<anchor>>)
  <2> SUFFICES ASSUME NEW k \in 2 .. c + 1
               PROVE  (kept \o <<anchor>>)[k - 1].t < (kept \o <<anchor>>)[k].t
    BY <1>8 DEF MoveForward
  <2>1. CASE k = c + 1
    <3>1. k - 1 \in 1 .. c
      BY <1>3, <2>1
    <3> QED
      BY <1>2, <1>5, <1>8, <2>1, <3>1
  <2>2. CASE k # c + 1
    <3>1. k - 1 \in 1 .. c /\ k \in 1 .. c /\ k \in 2 .. c
      BY <1>3, <2>2
    <3>2. kept[k - 1].t < kept[k].t
      BY <1>3, <1>4, <3>1 DEF MoveForward
    <3> QED
      BY <1>8, <3>1, <3>2
  <2> QED
    BY <2>1, <2>2
<1>10. c + 1 > 0
  BY <1>3
<1> QED
  BY <1>6, <1>8, <1>9, <1>10 DEF AreKeys

------------------------------------------------------------------------------
(***************************************************************************)
(* Samples, the still end of a clip, and the keys a route makes.           *)
(***************************************************************************)
\* Samples there are, in the order of time.
AreSamples(s) == s \in Seq(Sample) /\ Len(s) > 0 /\ MoveForward(s)

\* What is known of each of them.
LEMMA SamplesAreSamples ==
  ASSUME NEW s \in Seq(Sample)
  PROVE  /\ Len(s) \in Nat
         /\ \A i \in 1 .. Len(s) :
              /\ s[i] \in Sample
              /\ s[i].t \in Nat /\ s[i].v \in Int /\ s[i].n \in Nat
<1>1. Len(s) \in Nat /\ \A i \in 1 .. Len(s) : s[i] \in Sample
  OBVIOUS
<1>2. \A k \in Sample : k.t \in Nat /\ k.v \in Int /\ k.n \in Nat
  BY DEF Sample
<1> QED
  BY <1>1, <1>2

\* Samples are apart however many are between them.
LEMMA LaterSamplesAreLater ==
  ASSUME NEW s, AreSamples(s)
  PROVE  \A i \in 1 .. Len(s), j \in 1 .. Len(s) : i < j => s[i].t < s[j].t
<1>1. Len(s) \in Nat /\ \A i \in 1 .. Len(s) : s[i].t \in Nat
  BY SamplesAreSamples DEF AreSamples
<1>2. \A i \in 2 .. Len(s) : s[i - 1].t < s[i].t
  BY DEF AreSamples, MoveForward
<1> QED
  BY <1>1, <1>2, LaterKeysAreLater

\* The boundary is a sample before the last, and the clip is still from there.
LEMMA StillEnd ==
  ASSUME NEW s, AreSamples(s), NEW b, b = FindFinalStaticSuffixStartSample(s),
         b # 0
  PROVE  /\ b \in 1 .. Len(s) - 1
         /\ \A k \in b .. Len(s) : s[k].v = Back(s).v
<1> DEFINE starts == {i \in 1 .. Len(s) - 1 :
                        \A k \in i .. Len(s) : s[k].v = Back(s).v
                                               /\ s[k].n = Back(s).n}
<1>1. b = IF starts = {} THEN 0 ELSE Min(starts)
  BY DEF FindFinalStaticSuffixStartSample
<1>2. starts # {} /\ b = Min(starts)
  BY <1>1
<1>3. starts \subseteq Nat
  OBVIOUS
<1>4. b \in starts
  <2> HIDE DEF starts
  <2>1. PICK x \in starts : \A y \in starts : x <= y
    BY <1>2, <1>3, SmallestElement
  <2>2. Min(starts) \in starts
    BY <2>1 DEF Min
  <2> QED
    BY <1>2, <2>2
<1> QED
  BY <1>4

\* Cutting a clip off after one of its samples leaves the samples up to it.
LEMMA TrimmedAt ==
  ASSUME NEW s, AreSamples(s), NEW b \in 1 .. Len(s)
  PROVE  TrimSamplesAfterTime(s, s[b].t) = SubSeq(s, 1, b)
<1> DEFINE kept == {i \in 1 .. Len(s) : s[i].t <= s[b].t}
<1>1. /\ Len(s) \in Nat
      /\ \A i \in 1 .. Len(s) : s[i].t \in Nat
      /\ \A i \in 1 .. Len(s), j \in 1 .. Len(s) : i < j => s[i].t < s[j].t
  BY SamplesAreSamples, LaterSamplesAreLater DEF AreSamples
<1>2. \A i \in 1 .. Len(s) : i \in kept <=> i <= b
  <2> TAKE i \in 1 .. Len(s)
  <2>1. i <= b => i = b \/ i < b
    OBVIOUS
  <2>2. ~(i <= b) => b < i
    OBVIOUS
  <2>3. s[i].t \in Nat /\ s[b].t \in Nat
    BY <1>1
  <2>4. i < b => s[i].t < s[b].t
    BY <1>1
  <2>5. b < i => s[b].t < s[i].t
    BY <1>1
  <2>6. (s[i].t <= s[b].t) <=> i <= b
    BY <2>1, <2>2, <2>3, <2>4, <2>5
  <2> QED
    BY <2>6
<1>3. {1} \cup kept = 1 .. b
  <2>1. \A x : x \in 1 .. b => x \in 1 .. Len(s) /\ x <= b
    BY <1>1
  <2>2. \A x \in 1 .. Len(s) : x <= b => x \in 1 .. b
    OBVIOUS
  <2>3. 1 \in 1 .. b /\ kept \subseteq 1 .. Len(s)
    OBVIOUS
  <2> HIDE DEF kept
  <2> QED
    BY <1>2, <2>1, <2>2, <2>3
<1>4. Largest(1 .. b) = b
  <2>1. b \in 1 .. b /\ b \in Nat
    OBVIOUS
  <2>2. Max(1 .. b) = b
    BY <2>1 DEF Max
  <2> QED
    BY <2>1, <2>2 DEF Largest
<1> QED
  BY <1>3, <1>4 DEF TrimSamplesAfterTime

\* Those are samples, the last the one they were cut off after.
LEMMA PrefixOfSamples ==
  ASSUME NEW s, AreSamples(s), NEW b \in 1 .. Len(s)
  PROVE  /\ AreSamples(SubSeq(s, 1, b)) /\ Len(SubSeq(s, 1, b)) = b
         /\ \A i \in 1 .. b : SubSeq(s, 1, b)[i] = s[i]
<1> DEFINE p == SubSeq(s, 1, b)
<1>1. /\ Len(s) \in Nat /\ \A i \in 1 .. Len(s) : s[i] \in Sample
  BY SamplesAreSamples DEF AreSamples
<1>2. Len(p) = b /\ \A i \in 1 .. b : p[i] = s[i]
  BY <1>1 DEF AreSamples
<1>3. p \in Seq(Sample)
  BY <1>1 DEF AreSamples
<1>4. MoveForward(p)
  <2>1. \A i \in 2 .. b : i \in 2 .. Len(s) /\ i \in 1 .. b /\ i - 1 \in 1 .. b
    BY <1>1
  <2>2. \A i \in 2 .. Len(s) : s[i - 1].t < s[i].t
    BY DEF AreSamples, MoveForward
  <2> HIDE DEF p
  <2> QED
    BY <1>2, <2>1, <2>2 DEF MoveForward
<1> HIDE DEF p
<1>5. b > 0
  OBVIOUS
<1> QED
  BY <1>2, <1>3, <1>4, <1>5 DEF AreSamples, p

\* The key of a frame.
LEMMA FrameKeyIsKey ==
  ASSUME NEW s \in Sample
  PROVE  /\ FrameKey(s) \in Key
         /\ FrameKey(s).t = s.t
<1>1. s.t \in Nat /\ s.v \in Int /\ s.n \in Nat /\ s.timing \in Interps \cup {"none"}
  BY DEF Sample
<1>2. ApplySampleKeyTiming(s) \in Interps
  BY <1>1 DEF ApplySampleKeyTiming, Interps
<1> HIDE DEF ApplySampleKeyTiming
<1> QED
  BY <1>1, <1>2 DEF FrameKey, Key

\* A key for each of some samples.
LEMMA FrameKeys ==
  ASSUME NEW s \in Seq(Sample), MoveForward(s), NEW ks,
         ks = [i \in 1 .. Len(s) |-> FrameKey(s[i])]
  PROVE  /\ ks \in Seq(Key) /\ MoveForward(ks) /\ Len(ks) = Len(s)
         /\ \A i \in 1 .. Len(s) : ks[i].t = s[i].t
<1>1. Len(s) \in Nat /\ \A i \in 1 .. Len(s) : s[i] \in Sample
  BY SamplesAreSamples
<1>2. \A i \in 1 .. Len(s) : ks[i] \in Key /\ ks[i].t = s[i].t
  BY <1>1, FrameKeyIsKey
<1>3. ks \in [1 .. Len(s) -> Key]
  BY <1>2
<1>4. ks \in Seq(Key) /\ Len(ks) = Len(s)
  BY <1>1, <1>3
<1>5. MoveForward(ks)
  <2>1. \A i \in 2 .. Len(s) : i \in 1 .. Len(s) /\ i - 1 \in 1 .. Len(s)
    BY <1>1
  <2> QED
    BY <1>2, <1>4, <2>1 DEF MoveForward
<1> QED
  BY <1>2, <1>4, <1>5

\* A key for each of the samples of a set, in their order.
LEMMA FrameKeysOfSome ==
  ASSUME NEW s, AreSamples(s), NEW I, I \subseteq 1 .. Len(s), NEW kept,
         kept = Those(s, I), NEW ks,
         ks = [i \in 1 .. Len(kept) |-> FrameKey(kept[i])]
  PROVE  /\ ks \in Seq(Key) /\ MoveForward(ks)
         /\ \A i \in 1 .. Len(ks) : ks[i].t <= Back(s).t
<1>1. Len(s) \in Nat /\ s \in Seq(Sample) /\ \A i \in 1 .. Len(s) : s[i].t \in Nat
  BY SamplesAreSamples DEF AreSamples
<1>2. /\ kept \in Seq(Sample)
      /\ Len(kept) = Cardinality(I)
      /\ \A k \in 1 .. Len(kept) : Nth(I, k) \in 1 .. Len(s) /\ kept[k] = s[Nth(I, k)]
  <2>1. /\ Those(s, I) \in Seq(Sample)
        /\ Len(Those(s, I)) = Cardinality(I)
        /\ \A k \in 1 .. Cardinality(I) :
             /\ Nth(I, k) \in I /\ Nth(I, k) \in 1 .. Len(s)
             /\ Those(s, I)[k] = s[Nth(I, k)]
    BY <1>1, ThoseElements
  <2> QED
    BY <2>1
<1>3. MoveForward(kept)
  BY <1>1, ThoseMoveForward DEF AreSamples
<1>4. /\ ks \in Seq(Key) /\ MoveForward(ks) /\ Len(ks) = Len(kept)
      /\ \A i \in 1 .. Len(kept) : ks[i].t = kept[i].t
  BY <1>2, <1>3, FrameKeys
<1>5. \A i \in 1 .. Len(s) : s[i].t <= Back(s).t
  <2> TAKE i \in 1 .. Len(s)
  <2>1. Len(s) \in 1 .. Len(s) /\ (i = Len(s) \/ i < Len(s))
    BY <1>1
  <2>2. i < Len(s) => s[i].t < s[Len(s)].t
    BY <2>1, LaterSamplesAreLater
  <2> QED
    BY <1>1, <2>1, <2>2 DEF Back
<1>6. ASSUME NEW i \in 1 .. Len(ks)
      PROVE  ks[i].t <= Back(s).t
  <2>1. i \in 1 .. Len(kept)
    BY <1>4
  <2>2. ks[i].t = s[Nth(I, i)].t
    BY <1>2, <1>4, <2>1
  <2> QED
    BY <1>2, <1>5, <2>1, <2>2
<1> QED
  BY <1>4, <1>6

\* The keys of a chain of samples.
LEMMA AssembledAreKeys ==
  ASSUME NEW s, AreSamples(s), NEW k \in Nat \ {0},
         NEW chain \in [1 .. k -> 1 .. Len(s)],
         \A i \in 2 .. k : chain[i - 1] < chain[i],
         NEW kinds \in [1 .. k - 1 -> Interps]
  PROVE  /\ AreKeys(AssembleKeys(s, chain, kinds))
         /\ Len(AssembleKeys(s, chain, kinds)) = k
         /\ Back(AssembleKeys(s, chain, kinds)).t = s[chain[k]].t
<1> DEFINE ks == AssembleKeys(s, chain, kinds)
<1>1. /\ Len(s) \in Nat
      /\ \A i \in 1 .. Len(s) : s[i].t \in Nat /\ s[i].v \in Int /\ s[i].n \in Nat
      /\ \A i \in 1 .. Len(s), j \in 1 .. Len(s) : i < j => s[i].t < s[j].t
  BY SamplesAreSamples, LaterSamplesAreLater DEF AreSamples
<1>2. Len(chain) = k
  OBVIOUS
<1>3. ks = [i \in 1 .. k |-> PlacedKey(s, chain, kinds, i)]
  BY <1>2 DEF AssembleKeys
<1>4. \A i \in 1 .. k : ks[i] \in Key /\ ks[i].t = s[chain[i]].t
  <2> TAKE i \in 1 .. k
  <2>1. chain[i] \in 1 .. Len(s)
    OBVIOUS
  <2> DEFINE in == IF i = 1 THEN "bezier" ELSE kinds[i - 1]
             out == IF i = Len(chain) THEN "bezier" ELSE kinds[i]
  <2>2. in \in Interps
    <3>1. i # 1 => i - 1 \in 1 .. k - 1
      OBVIOUS
    <3> QED
      BY <3>1 DEF Interps
  <2>3. out \in Interps
    <3>1. i # k => i \in 1 .. k - 1
      OBVIOUS
    <3> QED
      BY <1>2, <3>1 DEF Interps
  <2>4. ks[i] = [t |-> s[chain[i]].t, v |-> s[chain[i]].v, n |-> s[chain[i]].n,
                 arc |-> 0, in |-> in, out |-> out]
    BY <1>3 DEF PlacedKey
  <2> HIDE DEF in, out, ks
  <2> QED
    BY <1>1, <2>1, <2>2, <2>3, <2>4 DEF Key
<1>5. ks \in Seq(Key) /\ Len(ks) = k
  <2>1. ks \in [1 .. k -> Key]
    <3> HIDE DEF ks
    <3> QED
      BY <1>3, <1>4
  <2> HIDE DEF ks
  <2> QED
    BY <2>1
<1> HIDE DEF ks
<1>6. MoveForward(ks)
  <2> SUFFICES ASSUME NEW i \in 2 .. k PROVE ks[i - 1].t < ks[i].t
    BY <1>5 DEF MoveForward
  <2>1. i - 1 \in 1 .. k /\ i \in 1 .. k
    OBVIOUS
  <2>2. chain[i - 1] \in 1 .. Len(s) /\ chain[i] \in 1 .. Len(s)
        /\ chain[i - 1] < chain[i]
    BY <2>1
  <2>3. s[chain[i - 1]].t < s[chain[i]].t
    BY <1>1, <2>2
  <2> QED
    BY <1>4, <2>1, <2>3
<1>7. Back(ks).t = s[chain[k]].t
  BY <1>4, <1>5 DEF Back
<1> QED
  BY <1>5, <1>6, <1>7 DEF AreKeys, ks

\* One key for all the samples.
LEMMA ConstantIsKeys ==
  ASSUME NEW s, AreSamples(s)
  PROVE  /\ AreKeys(ConstantKey(s)) /\ Len(ConstantKey(s)) = 1
         /\ Back(ConstantKey(s)).t = s[1].t
<1>1. Len(s) \in Nat /\ Len(s) > 0
  BY SamplesAreSamples DEF AreSamples
<1> DEFINE chain == <<1>>
           kinds == <<>>
<1>2. /\ chain \in [1 .. 1 -> 1 .. Len(s)] /\ chain[1] = 1
      /\ \A i \in 2 .. 1 : chain[i - 1] < chain[i]
  <2>1. 1 \in 1 .. Len(s)
    BY <1>1
  <2>2. chain \in Seq(1 .. Len(s)) /\ Len(chain) = 1 /\ chain[1] = 1
    BY <2>1
  <2>3. \A S : \A q \in Seq(S) : q \in [1 .. Len(q) -> S]
    OBVIOUS
  <2>4. \A i \in 2 .. 1 : FALSE
    OBVIOUS
  <2> HIDE DEF chain
  <2> QED
    BY <2>2, <2>3, <2>4
<1>3. kinds \in [1 .. 1 - 1 -> Interps]
  <2>1. kinds \in Seq(Interps) /\ Len(kinds) = 0
    OBVIOUS
  <2>2. \A S : \A q \in Seq(S) : q \in [1 .. Len(q) -> S]
    OBVIOUS
  <2>3. kinds \in [1 .. Len(kinds) -> Interps]
    <3> HIDE DEF kinds
    <3> QED
      BY <2>1, <2>2
  <2>4. 1 .. Len(kinds) = 1 .. 1 - 1
    BY <2>1
  <2> HIDE DEF kinds
  <2> QED
    BY <2>3, <2>4
<1>4. ConstantKey(s) = AssembleKeys(s, chain, kinds)
  BY DEF ConstantKey
<1> HIDE DEF chain, kinds
<1>5. 1 \in Nat \ {0}
  OBVIOUS
<1>6. /\ AreKeys(AssembleKeys(s, chain, kinds))
      /\ Len(AssembleKeys(s, chain, kinds)) = 1
      /\ Back(AssembleKeys(s, chain, kinds)).t = s[chain[1]].t
  BY <1>2, <1>3, <1>5, AssembledAreKeys
<1> QED
  BY <1>2, <1>4, <1>6

\* What the solver places are keys up to the last sample at most; they are
\* within tolerance unless there is but one.
LEMMA PlacementsAreKeys ==
  ASSUME NEW s, AreSamples(s), NEW tolerance, NEW ks \in Placements(s, tolerance)
  PROVE  AreKeys(ks) /\ Back(ks).t <= Back(s).t
<1>1. /\ Len(s) \in Nat /\ Len(s) > 0
      /\ \A i \in 1 .. Len(s) : s[i].t \in Nat
      /\ \A i \in 1 .. Len(s), j \in 1 .. Len(s) : i < j => s[i].t < s[j].t
  BY SamplesAreSamples, LaterSamplesAreLater DEF AreSamples
<1>2. CASE ks = ConstantKey(s)
  <2>1. s[1].t <= Back(s).t
    <3>1. 1 \in 1 .. Len(s) /\ Len(s) \in 1 .. Len(s)
      BY <1>1
    <3>4. Len(s) = 1 \/ Len(s) > 1
      BY <1>1, OneOrMore
    <3>2. s[1].t \in Nat /\ s[Len(s)].t \in Nat
      BY <1>1, <3>1
    <3>3. Len(s) > 1 => s[1].t < s[Len(s)].t
      BY <1>1, <3>1
    <3> QED
      BY <3>2, <3>3, <3>4 DEF Back
  <2> QED
    BY <1>2, <2>1, ConstantIsKeys
<1>3. CASE ks # ConstantKey(s)
  <2>1. PICK chain \in Chains(Len(s)) :
          \E kinds \in [1 .. Len(chain) - 1 -> Interps] :
            ks = AssembleKeys(s, chain, kinds)
    BY <1>3 DEF Placements
  <2>2. PICK kinds \in [1 .. Len(chain) - 1 -> Interps] :
          ks = AssembleKeys(s, chain, kinds)
    BY <2>1
  <2>3. PICK k \in 2 .. Len(s) :
          /\ chain \in [1 .. k -> 1 .. Len(s)]
          /\ chain[1] = 1 /\ chain[k] = Len(s)
          /\ \A i \in 2 .. k : chain[i - 1] < chain[i]
    BY DEF Chains
  <2>4. k \in Nat \ {0} /\ Len(chain) = k
    BY <2>3
  <2>5. kinds \in [1 .. k - 1 -> Interps]
    BY <2>2, <2>4
  <2>6. /\ AreKeys(AssembleKeys(s, chain, kinds))
        /\ Back(AssembleKeys(s, chain, kinds)).t = s[chain[k]].t
    BY <2>3, <2>4, <2>5, AssembledAreKeys, ZenonT(30)
  <2>7. Back(s).t \in Nat /\ s[chain[k]].t = Back(s).t
    BY <1>1, <2>3 DEF Back
  <2> QED
    BY <2>2, <2>6, <2>7
<1> QED
  BY <1>2, <1>3

\* From two samples on, a key for the first and one for the last.
LEMMA EndpointsAreKeys ==
  ASSUME NEW s, AreSamples(s), Len(s) >= 2
  PROVE  AreKeys(TwoEndpointCandidate(s))
<1>1. Len(s) \in Nat
  BY SamplesAreSamples DEF AreSamples
<1> DEFINE chain == <<1, Len(s)>>
           kinds == <<"linear">>
<1>2. \A S : \A q \in Seq(S) : q \in [1 .. Len(q) -> S]
  OBVIOUS
<1>3. /\ chain \in [1 .. 2 -> 1 .. Len(s)]
      /\ \A i \in 2 .. 2 : chain[i - 1] < chain[i]
  <2>1. 1 \in 1 .. Len(s) /\ Len(s) \in 1 .. Len(s)
    BY <1>1
  <2>2. chain \in Seq(1 .. Len(s)) /\ Len(chain) = 2
        /\ chain[1] = 1 /\ chain[2] = Len(s)
    BY <2>1
  <2>3. \A i \in 2 .. 2 : i = 2 /\ i - 1 = 1
    OBVIOUS
  <2> HIDE DEF chain
  <2>4. chain \in [1 .. Len(chain) -> 1 .. Len(s)]
    BY <1>2, <2>2
  <2>5. chain[1] < chain[2]
    BY <1>1, <2>2
  <2> QED
    BY <2>2, <2>3, <2>4, <2>5
<1>4. kinds \in [1 .. 2 - 1 -> Interps]
  <2>1. kinds \in Seq(Interps) /\ Len(kinds) = 1
    BY DEF Interps
  <2> HIDE DEF kinds
  <2>2. kinds \in [1 .. Len(kinds) -> Interps]
    BY <1>2, <2>1
  <2> QED
    BY <2>1, <2>2
<1>5. TwoEndpointCandidate(s) = AssembleKeys(s, chain, kinds)
  BY DEF TwoEndpointCandidate
<1> HIDE DEF chain, kinds
<1>6. 2 \in Nat \ {0}
  OBVIOUS
<1>7. AreKeys(AssembleKeys(s, chain, kinds))
  BY <1>3, <1>4, <1>6, AssembledAreKeys
<1> QED
  BY <1>5, <1>7

\* A key of a sample at another time.
LEMMA FrameKeyMoved ==
  ASSUME NEW s \in Sample, NEW t \in Nat, NEW h, h = [FrameKey(s) EXCEPT !.t = t]
  PROVE  h \in Key /\ h.t = t
<1>1. FrameKey(s) \in Key
  BY FrameKeyIsKey
<1> QED
  BY <1>1 DEF Key

\* The source keys preserved are keys, if any are.
LEMMA PreservedAreKeys ==
  ASSUME NEW s, AreSamples(s), NEW times \in Seq(Nat),
         \A i \in 2 .. Len(times) : times[i - 1] < times[i],
         NEW ks, ks = BuildShapeFlatSourceKeyPreservationKeys(s, times),
         ks # <<>>
  PROVE  AreKeys(ks)
<1> DEFINE at(i) == FindSampleAtSourceKeyTime(s, times[i])
           n == Len(times)
<1>1. \A i \in 1 .. n : at(i) # 0
  BY DEF BuildShapeFlatSourceKeyPreservationKeys
<1>2. ks = [i \in 1 .. n |-> [FrameKey(s[at(i)]) EXCEPT !.t = times[i]]]
  BY <1>1 DEF BuildShapeFlatSourceKeyPreservationKeys
<1>3. n \in Nat /\ \A i \in 1 .. n : times[i] \in Nat
  OBVIOUS
<1>4. \A i \in 1 .. n : at(i) \in 1 .. Len(s)
  <2> TAKE i \in 1 .. n
  <2> DEFINE away(j) == Abs(s[j].t - times[i])
             best == {j \in 1 .. Len(s) :
                        \A k \in 1 .. Len(s) : away(j) <= away(k)}
  <2>1. at(i) # 0
    BY <1>1
  <2>2. best # {} /\ at(i) = Min(best)
    BY <2>1 DEF FindSampleAtSourceKeyTime
  <2>3. best \subseteq Nat /\ best \subseteq 1 .. Len(s)
    OBVIOUS
  <2> HIDE DEF best, at
  <2>4. PICK x \in best : \A y \in best : x <= y
    BY <2>2, <2>3, SmallestElement
  <2>5. Min(best) \in best
    BY <2>4 DEF Min
  <2> QED
    BY <2>2, <2>3, <2>5
<1>5. \A j \in 1 .. Len(s) : s[j] \in Sample
  BY SamplesAreSamples DEF AreSamples
<1> HIDE DEF at, n
<1>6. \A i \in 1 .. n : ks[i] \in Key /\ ks[i].t = times[i]
  <2> TAKE i \in 1 .. n
  <2>1. s[at(i)] \in Sample /\ times[i] \in Nat
    BY <1>3, <1>4, <1>5
  <2>2. ks[i] = [FrameKey(s[at(i)]) EXCEPT !.t = times[i]]
    BY <1>2
  <2> QED
    BY <2>1, <2>2, FrameKeyMoved
<1>7. ks \in Seq(Key) /\ Len(ks) = n
  <2>1. ks \in [1 .. n -> Key]
    BY <1>2, <1>6
  <2> QED
    BY <1>3, <2>1
<1>8. MoveForward(ks)
  <2> SUFFICES ASSUME NEW i \in 2 .. n PROVE ks[i - 1].t < ks[i].t
    BY <1>7 DEF MoveForward
  <2>1. i - 1 \in 1 .. n /\ i \in 1 .. n
    BY <1>3
  <2>2. times[i - 1] < times[i]
    BY DEF n
  <2> QED
    BY <1>6, <2>1, <2>2
<1>9. Len(ks) > 0
  <2>1. Len(ks) # 0
    BY <1>7
  <2> QED
    BY <1>3, <1>7, <2>1
<1> QED
  BY <1>7, <1>8, <1>9 DEF AreKeys

\* The motion of the keys, sampled at the samples, are samples.
LEMMA ResampledAreSamples ==
  ASSUME AreSamples(clip.samples), AreKeys(keys)
  PROVE  /\ AreSamples(ResampleAcceptedAtSourceTimes)
         /\ Len(ResampleAcceptedAtSourceTimes) = Len(clip.samples)
<1> DEFINE s == clip.samples
           r == ResampleAcceptedAtSourceTimes
<1>1. /\ Len(s) \in Nat /\ Len(s) > 0
      /\ \A i \in 1 .. Len(s) : s[i] \in Sample /\ s[i].t \in Nat
      /\ \A i \in 2 .. Len(s) : s[i - 1].t < s[i].t
  BY SamplesAreSamples DEF AreSamples, MoveForward
<1>2. keys[1].n \in Nat
  <2>1. 1 \in 1 .. Len(keys)
    BY KeysAreKeys DEF AreKeys
  <2> QED
    BY <2>1, KeysAreKeys DEF AreKeys
<1>3. r = [i \in 1 .. Len(s) |-> [s[i] EXCEPT !.v = EvalKeysAt(keys, s[i].t),
                                             !.n = keys[1].n]]
  BY DEF ResampleAcceptedAtSourceTimes
<1> HIDE DEF s, r
<1>4. \A i \in 1 .. Len(s) : r[i] \in Sample /\ r[i].t = s[i].t
  <2> TAKE i \in 1 .. Len(s)
  <2>1. EvalKeysAt(keys, s[i].t) \in Int
    BY <1>1, KeysEvaluate
  <2>2. r[i] = [s[i] EXCEPT !.v = EvalKeysAt(keys, s[i].t), !.n = keys[1].n]
    BY <1>3
  <2>3. s[i] \in Sample
    BY <1>1
  <2> QED
    BY <1>2, <2>1, <2>2, <2>3 DEF Sample
<1>5. r \in Seq(Sample) /\ Len(r) = Len(s)
  <2>1. r \in [1 .. Len(s) -> Sample]
    BY <1>3, <1>4
  <2> QED
    BY <1>1, <2>1
<1>6. MoveForward(r)
  <2>1. \A i \in 2 .. Len(s) : i - 1 \in 1 .. Len(s) /\ i \in 1 .. Len(s)
    BY <1>1
  <2> QED
    BY <1>1, <1>4, <1>5, <2>1 DEF MoveForward
<1> QED
  BY <1>1, <1>5, <1>6 DEF AreSamples, r, s

------------------------------------------------------------------------------
(***************************************************************************)
(* The invariant.                                                          *)
(***************************************************************************)
Pending == step \in {"trim", "route"}
Steps == {"trim", "route", "mark", "collapse", "anchor", "refit", "solve",
          "validate", "done", "cancelled"}

\* The samples the route is to be given.
CutSamples ==
  IF Trims THEN TrimSamplesAfterTime(clip.samples, clip.samples[Boundary].t)
  ELSE clip.samples

\* Keys in the order of time, none perhaps.
InOrder(ks) == ks \in Seq(Key) /\ MoveForward(ks)

CleanupTyped ==
  /\ clip \in Clips /\ step \in Steps /\ AreSamples(solved)
  /\ InOrder(keys) /\ InOrder(candidate) /\ InOrder(routed.keys)
  /\ reported \in Nat /\ routed.reported \in Nat /\ converged \in BOOLEAN

\* What each step finds.
Stages ==
  /\ step = "trim" => solved = clip.samples
  /\ step = "route" => solved = CutSamples
  /\ ~Pending => (keys = <<>> <=> routed.keys = <<>>)
  /\ step \in {"mark", "collapse"} => reported = routed.reported
  /\ step \in {"solve", "validate"} => Len(keys) >= 3 /\ Len(clip.samples) >= 2
  /\ step = "validate" => Len(candidate) > 0

\* The error of the keys never was above one of the three.
Budget ==
  ~Pending /\ converged /\ keys # <<>> =>
    \/ Error <= clip.tolerance \/ Error <= routed.reported
    \/ Error <= ValidateKeys(clip.samples, routed.keys)

\* The report of the keys, from a report of the route that was true.
Report ==
  ~Pending /\ keys # <<>> /\ ValidateKeys(solved, routed.keys) <= routed.reported
    => Error <= reported

CleanupInv == CleanupTyped /\ Stages /\ Budget /\ Report

\* What the assumption says of the clip at hand.
LEMMA ClipFacts ==
  ASSUME clip \in Clips
  PROVE  /\ AreSamples(clip.samples) /\ clip.tolerance \in Nat /\ clip.pixels \in Nat
         /\ clip.screen \in Nat
         /\ clip.sourceTimes \in Seq(Nat)
         /\ \A i \in 2 .. Len(clip.sourceTimes) :
              clip.sourceTimes[i - 1] < clip.sourceTimes[i]
BY ClipsAssumption DEF IsClip, AreSamples

\* Keys that are some are keys.
LEMMA SomeInOrder ==
  ASSUME NEW ks, InOrder(ks)
  PROVE  /\ ks # <<>> <=> AreKeys(ks)
         /\ ks # <<>> <=> Len(ks) > 0
<1>1. Len(ks) \in Nat
  BY DEF InOrder
<1>2. ks # <<>> <=> Len(ks) > 0
  BY <1>1 DEF InOrder
<1> QED
  BY <1>2 DEF InOrder, AreKeys

\* The error of keys on samples is a number.
LEMMA ErrorIsNat ==
  ASSUME NEW s, AreSamples(s), NEW ks, AreKeys(ks)
  PROVE  ValidateKeys(s, ks) \in Nat
<1>1. /\ Len(s) \in Nat \ {0}
      /\ \A i \in 1 .. Len(s) : s[i].v \in Int /\ s[i].t \in Nat
  BY SamplesAreSamples DEF AreSamples
<1>2. \A i \in 1 .. Len(s) : s[i].v \in Int /\ EvalKeysAt(ks, s[i].t) \in Int
  BY <1>1, KeysEvaluate
<1> QED
  BY <1>1, <1>2, ErrorOfKeys

\* Keys that end no later than a still end begins are as far from the whole
\* clip as from the clip up to there.
LEMMA StillEndAddsNoError ==
  ASSUME NEW s, AreSamples(s), NEW b \in 1 .. Len(s),
         \A k \in b .. Len(s) : s[k].v = Back(s).v,
         NEW ks, AreKeys(ks), Back(ks).t <= s[b].t
  PROVE  ValidateKeys(s, ks) <= ValidateKeys(SubSeq(s, 1, b), ks)
<1> DEFINE p == SubSeq(s, 1, b)
           e == ValidateKeys(p, ks)
<1>1. /\ Len(s) \in Nat \ {0}
      /\ \A i \in 1 .. Len(s) : s[i].v \in Int /\ s[i].t \in Nat
      /\ \A i \in 1 .. Len(s), j \in 1 .. Len(s) : i < j => s[i].t < s[j].t
  BY SamplesAreSamples, LaterSamplesAreLater DEF AreSamples
<1>2. AreSamples(p) /\ Len(p) = b /\ \A i \in 1 .. b : p[i] = s[i]
  BY PrefixOfSamples
<1>3. \A i \in 1 .. Len(s) : s[i].v \in Int /\ EvalKeysAt(ks, s[i].t) \in Int
  BY <1>1, KeysEvaluate
<1>4. \A i \in 1 .. b : i \in 1 .. Len(s)
  BY <1>1
<1>5. /\ e \in Nat
      /\ \A i \in 1 .. b : Abs(p[i].v - EvalKeysAt(ks, p[i].t)) <= e
  <2>1. \A i \in 1 .. Len(p) : p[i].v \in Int /\ EvalKeysAt(ks, p[i].t) \in Int
    BY <1>2, <1>3, <1>4
  <2>2. Len(p) \in Nat \ {0}
    BY <1>2
  <2> HIDE DEF p
  <2> QED
    BY <1>2, <2>1, <2>2, ErrorOfKeys
<1> HIDE DEF p, e
<1>6. \A i \in 1 .. Len(s) : Abs(s[i].v - EvalKeysAt(ks, s[i].t)) <= e
  <2> TAKE i \in 1 .. Len(s)
  <2>1. CASE i <= b
    <3>1. i \in 1 .. b
      BY <2>1
    <3> QED
      BY <1>2, <1>5, <3>1
  <2>2. CASE b < i
    <3>1. b \in 1 .. b /\ b \in b .. Len(s) /\ i \in b .. Len(s)
      BY <1>1, <2>2
    <3>2. s[i].v = s[b].v
      BY <3>1
    <3>3. s[b].t \in Nat /\ s[i].t \in Nat /\ s[b].t < s[i].t
      BY <1>1, <2>2
    <3>4. Back(ks).t \in Nat
      <4>1. Len(ks) \in 1 .. Len(ks)
        BY KeysAreKeys DEF AreKeys
      <4> QED
        BY <4>1, KeysAreKeys DEF AreKeys, Back
    <3>5. Back(ks).t <= s[i].t
      BY <3>3, <3>4
    <3>6. EvalKeysAt(ks, s[i].t) = Back(ks).v /\ EvalKeysAt(ks, s[b].t) = Back(ks).v
      BY <3>3, <3>5, AfterTheLastKey
    <3>7. Abs(s[b].v - EvalKeysAt(ks, s[b].t)) <= e
      BY <1>2, <1>5, <3>1
    <3> QED
      BY <3>2, <3>6, <3>7
  <2> QED
    BY <2>1, <2>2
<1>7. e \in Int
  BY <1>5
<1>8. ValidateKeys(s, ks) <= e
  BY <1>1, <1>3, <1>6, <1>7, ErrorWithin
<1> QED
  BY <1>8 DEF e, p

\* The route is given samples, and its keys are no further from the whole clip.
LEMMA WholeClipNoWorse ==
  ASSUME clip \in Clips
  PROVE  /\ AreSamples(CutSamples)
         /\ \A ks : AreKeys(ks) /\ (Trims => Back(ks).t <= Back(CutSamples).t)
              => ValidateKeys(clip.samples, ks) <= ValidateKeys(CutSamples, ks)
<1>1. AreSamples(clip.samples)
  BY ClipFacts
<1>2. CASE ~Trims
  <2>1. CutSamples = clip.samples
    BY <1>2 DEF CutSamples
  <2>2. \A ks : AreKeys(ks) => ValidateKeys(clip.samples, ks) \in Nat
    BY <1>1, ErrorIsNat
  <2>3. \A x \in Nat : x <= x
    OBVIOUS
  <2> QED
    BY <1>1, <2>1, <2>2, <2>3
<1>3. CASE Trims
  <2> DEFINE s == clip.samples
             b == Boundary
  <2>1. b # 0 /\ b = FindFinalStaticSuffixStartSample(s)
    BY <1>3 DEF Trims, Boundary
  <2> HIDE DEF s, b
  <2>2. b \in 1 .. Len(s) - 1 /\ \A k \in b .. Len(s) : s[k].v = Back(s).v
    BY <1>1, <2>1, StillEnd DEF s
  <2>3. Len(s) \in Nat
    BY <1>1, SamplesAreSamples DEF AreSamples, s
  <2>4. b \in 1 .. Len(s) /\ b \in 1 .. b
    BY <2>2, <2>3
  <2>5. CutSamples = SubSeq(s, 1, b)
    BY <1>1, <1>3, <2>4, TrimmedAt DEF CutSamples, s, b
  <2>6. AreSamples(SubSeq(s, 1, b)) /\ Back(SubSeq(s, 1, b)).t = s[b].t
    BY <1>1, <2>4, PrefixOfSamples DEF s, Back
  <2>7. ASSUME NEW ks, AreKeys(ks), Back(ks).t <= s[b].t
        PROVE  ValidateKeys(s, ks) <= ValidateKeys(SubSeq(s, 1, b), ks)
    BY <1>1, <2>2, <2>4, <2>7, StillEndAddsNoError DEF s
  <2> QED
    BY <1>3, <2>5, <2>6, <2>7 DEF s
<1> QED
  BY <1>2, <1>3

------------------------------------------------------------------------------
(***************************************************************************)
(* What the route leaves.                                                  *)
(***************************************************************************)
\* Keys in order, with a report that is as true of the clip as of the samples.
Leaves(ks, err) ==
  /\ InOrder(ks) /\ err \in Nat
  /\ ks # <<>> /\ ValidateKeys(solved, ks) <= err
       => ValidateKeys(clip.samples, ks) <= err

\* Keys that end with the samples the route is given are enough for that.
LEMMA KeysOfSolved ==
  ASSUME clip \in Clips, solved = CutSamples, NEW ks, InOrder(ks), NEW err \in Nat,
         AreKeys(ks) => Back(ks).t <= Back(solved).t
  PROVE  Leaves(ks, err)
<1>1. ASSUME ks # <<>>, ValidateKeys(solved, ks) <= err
      PROVE  ValidateKeys(clip.samples, ks) <= err
  <2>1. AreKeys(ks)
    BY <1>1, SomeInOrder
  <2>2. ValidateKeys(clip.samples, ks) <= ValidateKeys(solved, ks)
    BY <2>1, WholeClipNoWorse
  <2>3. ValidateKeys(clip.samples, ks) \in Nat /\ ValidateKeys(solved, ks) \in Nat
    BY <2>1, ErrorIsNat, ClipFacts, WholeClipNoWorse
  <2> QED
    BY <1>1, <2>2, <2>3
<1> QED
  BY <1>1 DEF Leaves

\* The plain temporal solve.
LEMMA PlainLeaves ==
  ASSUME CleanupInv, step = "route", PlainTemporal
  PROVE  Leaves(keys', reported') /\ converged' \in BOOLEAN
<1>1. clip \in Clips /\ solved = CutSamples /\ AreSamples(solved)
  BY DEF CleanupInv, CleanupTyped, Stages
<1>2. PICK ks \in Placements(solved, clip.tolerance) :
        Routed(ks, PlacementError(solved, ks),
               ScreenErr(PlacementError(solved, ks)), TRUE)
  BY DEF PlainTemporal
<1>3. keys' = ks /\ reported' = PlacementError(solved, ks) /\ converged' = TRUE
  BY <1>2 DEF Routed
<1>4. AreKeys(ks) /\ Back(ks).t <= Back(solved).t
  BY <1>1, PlacementsAreKeys
<1>5. PlacementError(solved, ks) \in Nat
  BY <1>1, <1>4, ErrorIsNat DEF PlacementError
<1>6. InOrder(ks)
  BY <1>4 DEF AreKeys, InOrder
<1>7. Leaves(ks, PlacementError(solved, ks))
  BY <1>1, <1>4, <1>5, <1>6, KeysOfSolved
<1> QED
  BY <1>3, <1>7

\* A key for every frame.
LEMMA FramesLeave ==
  ASSUME CleanupInv, step = "route", FrameKeyFallback
  PROVE  Leaves(keys', reported') /\ converged' \in BOOLEAN
<1>1. clip \in Clips /\ solved = CutSamples /\ AreSamples(solved)
  BY DEF CleanupInv, CleanupTyped, Stages
<1>2. CASE clip.shape
  <2> DEFINE I == {i \in 1 .. Len(solved) : WellFormed(solved[i])}
             kept == Those(solved, I)
             ks == [i \in 1 .. Len(kept) |-> FrameKey(kept[i])]
  <2>1. ShapeFlatFrameKeyFallback(solved)
        = [keys |-> ks, reported |-> 0, converged |-> Len(kept) = Len(solved)]
    BY DEF ShapeFlatFrameKeyFallback
  <2>2. keys' = ks /\ reported' = 0 /\ converged' = (Len(kept) = Len(solved))
    BY <1>2, <2>1 DEF FrameKeyFallback, Routed
  <2>3. I \subseteq 1 .. Len(solved)
    OBVIOUS
  <2> HIDE DEF I
  <2>4. InOrder(ks) /\ \A i \in 1 .. Len(ks) : ks[i].t <= Back(solved).t
    BY <1>1, <2>3, FrameKeysOfSome DEF InOrder
  <2> HIDE DEF ks, kept
  <2>5. AreKeys(ks) => Back(ks).t <= Back(solved).t
    <3>1. AreKeys(ks) => Len(ks) \in 1 .. Len(ks)
      BY KeysAreKeys DEF AreKeys
    <3> QED
      BY <2>4, <3>1 DEF Back
  <2>6. Leaves(ks, 0)
    BY <1>1, <2>4, <2>5, KeysOfSolved
  <2>7. converged' \in BOOLEAN
    BY <2>2
  <2> QED
    BY <2>2, <2>6, <2>7
<1>3. CASE ~clip.shape
  <2> DEFINE ks == [i \in 1 .. Len(solved) |-> FrameKey(solved[i])]
  <2>1. keys' = ks /\ reported' = 0 /\ converged' = TRUE
    BY <1>3 DEF FrameKeyFallback, Routed, RawFrameKeyFallback
  <2>2. /\ InOrder(ks) /\ Len(ks) = Len(solved)
        /\ \A i \in 1 .. Len(solved) : ks[i].t = solved[i].t
    BY <1>1, FrameKeys DEF AreSamples, InOrder
  <2>3. Back(ks).t <= Back(solved).t
    <3>1. Len(solved) \in 1 .. Len(solved) /\ solved[Len(solved)].t \in Nat
      BY <1>1, SamplesAreSamples DEF AreSamples
    <3> HIDE DEF ks
    <3> QED
      BY <2>2, <3>1 DEF Back
  <2> HIDE DEF ks
  <2>4. Leaves(ks, 0)
    BY <1>1, <2>2, <2>3, KeysOfSolved
  <2> QED
    BY <2>1, <2>4
<1> QED
  BY <1>2, <1>3

\* The source keys, measured on the whole clip.
LEMMA PreservedLeaves ==
  ASSUME CleanupInv, step = "route", PreserveSourceKeys
  PROVE  Leaves(keys', reported') /\ converged' \in BOOLEAN
<1>1. clip \in Clips /\ AreSamples(clip.samples)
  BY ClipFacts DEF CleanupInv, CleanupTyped
<1> DEFINE ks == BuildShapeFlatSourceKeyPreservationKeys(clip.samples,
                                                        clip.sourceTimes)
           err == ValidateKeys(clip.samples, ks)
<1>2. /\ Len(ks) >= 2
      /\ keys' = ks /\ reported' = err /\ converged' = TRUE
  BY DEF PreserveSourceKeys, Routed
<1>3. ks # <<>>
  BY <1>2
<1>4. AreKeys(ks)
  <2> HIDE DEF ks
  <2> QED
    BY <1>1, <1>3, ClipFacts, PreservedAreKeys DEF ks
<1> HIDE DEF ks
<1>5. err \in Nat
  BY <1>1, <1>4, ErrorIsNat
<1> HIDE DEF err
<1>6. Leaves(ks, err)
  BY <1>4, <1>5 DEF Leaves, AreKeys, InOrder, err
<1> QED
  BY <1>2, <1>6

\* Motion smoothing, whose clips are never cut.
LEMMA SmoothedLeaves ==
  ASSUME CleanupInv, step = "route", MotionSmooth
  PROVE  Leaves(keys', reported') /\ converged' \in BOOLEAN
<1>1. clip \in Clips /\ solved = CutSamples
  BY DEF CleanupInv, CleanupTyped, Stages
<1>2. clip.route = "smooth"
  BY DEF MotionSmooth
<1>3. PICK s \in Smoothed[clip] : Routed(s.keys, s.moved, s.moved, s.converged)
  BY DEF MotionSmooth
<1>4. IsSmoothing(s)
  BY <1>1, <1>2, SmoothedAssumption
<1>5. solved = clip.samples
  BY <1>1, <1>2 DEF CutSamples, Trims, UsesMotionSmoothing
<1>6. keys' = s.keys /\ reported' = s.moved /\ converged' = s.converged
  BY <1>3 DEF Routed
<1>7. Leaves(s.keys, s.moved)
  BY <1>4, <1>5 DEF Leaves, IsSmoothing, InOrder
<1>8. converged' \in BOOLEAN
  BY <1>4, <1>6 DEF IsSmoothing
<1> QED
  BY <1>6, <1>7, <1>8

------------------------------------------------------------------------------
(***************************************************************************)
(* One step at a time.                                                     *)
(***************************************************************************)
\* A step that leaves the keys as they are keeps what is known of their error.
LEMMA SameKeysSameError ==
  ASSUME CleanupInv, ~Pending, UNCHANGED <<clip, state>>, ~Pending'
  PROVE  Budget' /\ Report'
<1>1. Budget /\ Report
  BY DEF CleanupInv
<1>2. Error' = Error
  BY DEF Error, state
<1>3. /\ clip' = clip /\ keys' = keys /\ reported' = reported /\ routed' = routed
      /\ converged' = converged /\ solved' = solved
  BY DEF state
<1>4. Budget'
  BY <1>1, <1>2, <1>3 DEF Budget
<1>5. Report'
  BY <1>1, <1>2, <1>3 DEF Report
<1> QED
  BY <1>4, <1>5

\* A step that replaces the keys measures the new ones on the whole clip.
LEMMA ReplacedKeysAreMeasured ==
  ASSUME CleanupInv, ~Pending, NEW ks, AreKeys(ks), Replaced(ks),
         UNCHANGED <<clip, solved, converged, routed>>,
         \/ ValidateKeys(clip.samples, ks) <= clip.tolerance
         \/ ValidateKeys(clip.samples, ks) <= routed.reported
  PROVE  /\ Budget' /\ Report' /\ keys' = ks /\ InOrder(keys')
         /\ reported' \in Nat /\ keys' # <<>>
<1>1. clip \in Clips
  BY DEF CleanupInv, CleanupTyped
<1>2. keys' = ks /\ reported' = ValidateKeys(clip.samples, ks)
  BY DEF Replaced
<1>3. Error' = ValidateKeys(clip.samples, ks)
  BY <1>2 DEF Error
<1>4. ValidateKeys(clip.samples, ks) \in Nat
  BY <1>1, ClipFacts, ErrorIsNat
<1>5. Budget'
  BY <1>3 DEF Budget
<1>6. Report'
  BY <1>2, <1>3, <1>4 DEF Report
<1>7. InOrder(ks) /\ ks # <<>>
  <2>1. InOrder(ks)
    BY DEF AreKeys, InOrder
  <2> QED
    BY <2>1, SomeInOrder
<1> QED
  BY <1>2, <1>4, <1>5, <1>6, <1>7

\* Cutting the still end off.
LEMMA TrimStep ==
  ASSUME CleanupInv, Trim
  PROVE  CleanupInv'
<1>1. /\ step = "trim" /\ step' = "route"
      /\ UNCHANGED <<clip, keys, reported, screened, converged, routed, candidate, cancelFile>>
  BY DEF Trim
<1>2. solved' = CutSamples
  BY DEF Trim, CutSamples
<1>3. CutSamples' = CutSamples
  BY <1>1 DEF CutSamples, Trims, UsesMotionSmoothing, Boundary
<1>4. AreSamples(CutSamples)
  BY WholeClipNoWorse DEF CleanupInv, CleanupTyped
<1>5. CleanupTyped'
  BY <1>1, <1>2, <1>4 DEF CleanupInv, CleanupTyped, Steps, AreSamples, InOrder
<1>6. Stages'
  BY <1>1, <1>2, <1>3 DEF CleanupInv, Stages, Pending
<1>7. Budget' /\ Report'
  BY <1>1 DEF Budget, Report, Pending
<1> QED
  BY <1>5, <1>6, <1>7 DEF CleanupInv

\* The route.
LEMMA RouteStep ==
  ASSUME CleanupInv, Route
  PROVE  CleanupInv'
<1>1. /\ step = "route" /\ step' = "mark" /\ UNCHANGED <<clip, solved, candidate, cancelFile>>
      /\ PlainTemporal \/ FrameKeyFallback \/ PreserveSourceKeys \/ MotionSmooth
  BY DEF Route
<1>2. Leaves(keys', reported') /\ converged' \in BOOLEAN
  BY <1>1, PlainLeaves, FramesLeave, PreservedLeaves, SmoothedLeaves
<1>3. routed' = [keys |-> keys', reported |-> reported']
  BY <1>1 DEF PlainTemporal, FrameKeyFallback, PreserveSourceKeys, MotionSmooth, Routed
<1>4. InOrder(keys') /\ reported' \in Nat
  BY <1>2 DEF Leaves
<1>5. CleanupTyped'
  <2>1. InOrder(routed.keys)' /\ routed.reported' \in Nat
    BY <1>3, <1>4 DEF InOrder
  <2> QED
    BY <1>1, <1>2, <1>4, <2>1 DEF CleanupInv, CleanupTyped, Steps, AreSamples, InOrder
<1>6. Stages'
  BY <1>1, <1>3 DEF Stages, Pending
<1>7. Error' = ValidateKeys(clip.samples, keys')
  BY <1>1 DEF Error
<1>8. routed'.keys = keys' /\ routed'.reported = reported'
  BY <1>3
<1>9. Budget'
  <2> SUFFICES ASSUME keys' # <<>>
               PROVE  Error' <= ValidateKeys(clip.samples, routed.keys)'
    BY DEF Budget
  <2>1. AreKeys(keys')
    BY <1>4, SomeInOrder
  <2>2. ValidateKeys(clip.samples, keys') \in Nat
    BY <2>1, ErrorIsNat, ClipFacts DEF CleanupInv, CleanupTyped
  <2>3. ValidateKeys(clip.samples, routed.keys)' = ValidateKeys(clip.samples, keys')
    BY <1>1, <1>8
  <2> QED
    BY <1>7, <2>2, <2>3
<1>10. Report'
  <2>1. ValidateKeys(solved, routed.keys)' = ValidateKeys(solved, keys')
    BY <1>1, <1>8
  <2> QED
    BY <1>2, <1>7, <1>8, <2>1 DEF Report, Leaves
<1> QED
  BY <1>5, <1>6, <1>9, <1>10 DEF CleanupInv

\* The note that a clip was cut.
LEMMA NoteStep ==
  ASSUME CleanupInv, ApplyFinalStaticTrimNote
  PROVE  CleanupInv'
<1>1. /\ step = "mark" /\ step' = "collapse"
      /\ UNCHANGED <<clip, solved, reported, screened, converged, routed, candidate, cancelFile>>
  BY DEF ApplyFinalStaticTrimNote
<1>2. clip \in Clips /\ InOrder(keys) /\ Budget /\ Report /\ Stages /\ CleanupTyped
  BY DEF CleanupInv, CleanupTyped
<1>3. /\ InOrder(keys') /\ (keys' = <<>> <=> keys = <<>>)
      /\ keys # <<>> => Error' = Error
  <2>1. CASE keys' = keys
    BY <1>1, <1>2, <2>1 DEF Error
  <2>2. CASE keys' # keys
    <3>1. keys # <<>> /\ keys' = [keys EXCEPT ![Len(keys)].out = "hold"]
      BY <2>2 DEF ApplyFinalStaticTrimNote
    <3>2. AreKeys(keys)
      BY <1>2, <3>1, SomeInOrder
    <3>3. "hold" \in Interps
      BY DEF Interps
    <3>4. /\ AreKeys(keys')
          /\ \A t \in Nat : EvalKeysAt(keys', t) = EvalKeysAt(keys, t)
      BY <3>1, <3>2, <3>3, LastKeyMayHold, ZenonT(30)
    <3>5. \A i \in 1 .. Len(clip.samples) : clip.samples[i].t \in Nat
      BY <1>2, ClipFacts, SamplesAreSamples DEF AreSamples
    <3>6. ValidateKeys(clip.samples, keys') = ValidateKeys(clip.samples, keys)
      BY <3>4, <3>5, SameMotionSameError
    <3>7. Error' = Error
      BY <1>1, <3>6 DEF Error
    <3>8. InOrder(keys')
      BY <3>4 DEF AreKeys, InOrder
    <3>9. keys' # <<>>
      BY <3>4, <3>8, SomeInOrder
    <3> QED
      BY <3>1, <3>7, <3>8, <3>9
  <2> QED
    BY <2>1, <2>2
<1>4. CleanupTyped'
  BY <1>1, <1>2, <1>3 DEF CleanupTyped, Steps, AreSamples, InOrder
<1>5. Stages'
  BY <1>1, <1>2, <1>3 DEF Stages, Pending
<1>6. Budget'
  BY <1>1, <1>2, <1>3 DEF Budget, Pending
<1>7. Report'
  BY <1>1, <1>2, <1>3 DEF Report, Pending
<1> QED
  BY <1>4, <1>5, <1>6, <1>7 DEF CleanupInv

\* A step of the cleanup proper: the keys replaced, or left.
LEMMA CleanupStep ==
  ASSUME CleanupInv, ~Pending, step \notin {"mark"},
         UNCHANGED <<clip, solved, converged, routed>>,
         step' \in Steps \ {"trim", "route", "mark", "collapse"},
         InOrder(candidate'), step' = "validate" => Len(candidate') > 0,
         step' \in {"solve", "validate"} => /\ keys' = keys
                                          /\ Len(keys) >= 3
                                          /\ Len(clip.samples) >= 2,
         \/ keys' = keys /\ reported' = reported /\ screened' = screened
         \/ \E ks : /\ AreKeys(ks) /\ Replaced(ks) /\ keys # <<>>
                    /\ \/ ValidateKeys(clip.samples, ks) <= clip.tolerance
                       \/ ValidateKeys(clip.samples, ks) <= routed.reported
  PROVE  CleanupInv'
<1>1. /\ clip \in Clips /\ InOrder(keys) /\ Stages /\ CleanupTyped
      /\ reported \in Nat
  BY DEF CleanupInv, CleanupTyped
<1>2. ~Pending'
  BY DEF Pending
<1>3. /\ Budget' /\ Report' /\ InOrder(keys') /\ reported' \in Nat
      /\ keys' = <<>> <=> keys = <<>>
  <2>1. CASE keys' = keys /\ reported' = reported /\ screened' = screened
    <3>1. Budget' /\ Report'
      BY <1>2, <2>1, SameKeysSameError DEF state
    <3> QED
      BY <1>1, <2>1, <3>1 DEF InOrder
  <2>2. CASE \E ks : /\ AreKeys(ks) /\ Replaced(ks) /\ keys # <<>>
                     /\ \/ ValidateKeys(clip.samples, ks) <= clip.tolerance
                        \/ ValidateKeys(clip.samples, ks) <= routed.reported
    <3>1. PICK ks : /\ AreKeys(ks) /\ Replaced(ks) /\ keys # <<>>
                    /\ \/ ValidateKeys(clip.samples, ks) <= clip.tolerance
                       \/ ValidateKeys(clip.samples, ks) <= routed.reported
      BY <2>2
    <3> QED
      BY <3>1, ReplacedKeysAreMeasured
  <2> QED
    BY <2>1, <2>2
<1>4. CleanupTyped'
  BY <1>1, <1>3 DEF CleanupTyped, Steps, AreSamples, InOrder
<1>5. Stages'
  BY <1>1, <1>2, <1>3 DEF Stages, Pending
<1> QED
  BY <1>3, <1>4, <1>5 DEF CleanupInv

\* Collapsing runs of equal keys.
LEMMA CollapseStep ==
  ASSUME CleanupInv, CollapseRedundantStaticKeyRuns
  PROVE  CleanupInv'
<1>1. /\ step = "collapse" /\ step' = "anchor"
      /\ UNCHANGED <<clip, solved, converged, routed, candidate, cancelFile>>
  BY DEF CollapseRedundantStaticKeyRuns
<1>2. /\ InOrder(keys) /\ InOrder(candidate) /\ reported = routed.reported
  BY <1>1 DEF CleanupInv, CleanupTyped, Stages
<1> DEFINE ks == CollapsedRuns(keys)
<1>3. ASSUME ~(keys' = keys /\ reported' = reported /\ screened' = screened)
      PROVE  \E ks1 : /\ AreKeys(ks1) /\ Replaced(ks1) /\ keys # <<>>
                    /\ \/ ValidateKeys(clip.samples, ks1) <= clip.tolerance
                       \/ ValidateKeys(clip.samples, ks1) <= routed.reported
  <2>1. Len(ks) < Len(keys) /\ NoWorseThanReported(ks) /\ Replaced(ks)
    BY <1>3 DEF CollapseRedundantStaticKeyRuns
  <2>2. keys # <<>>
    <3> SUFFICES ASSUME keys = <<>> PROVE FALSE
      OBVIOUS
    <3>1. Len(keys) = 0
      OBVIOUS
    <3>2. {i \in 1 .. Len(keys) : ~Spare(keys, i)} = {}
      BY <3>1
    <3>3. Len(ks) = 0
      <4> DEFINE held == [i \in 1 .. Len(keys) |-> HeldAcrossRun(keys, i)]
      <4>1. ks = Those(held, {})
        BY <3>2 DEF CollapsedRuns
      <4>2. Cardinality({}) = 0
        BY FS_EmptySet
      <4> HIDE DEF held, ks
      <4>3. ks = [k \in 1 .. 0 |-> held[Nth({}, k)]]
        BY <4>1, <4>2 DEF Those
      <4> QED
        BY <4>3
    <3> HIDE DEF ks
    <3> QED
      BY <2>1, <3>1, <3>3
  <2>3. AreKeys(keys)
    BY <1>2, <2>2, SomeInOrder
  <2>4. AreKeys(ks)
    BY <2>3, CollapsedAreKeys
  <2>5. ValidateKeys(clip.samples, ks) <= routed.reported
    BY <1>2, <2>1 DEF NoWorseThanReported
  <2> HIDE DEF ks
  <2> QED
    BY <2>1, <2>2, <2>4, <2>5
<1>4. InOrder(candidate')
  BY <1>1, <1>2 DEF InOrder
<1> HIDE DEF ks
<1> QED
  BY <1>1, <1>3, <1>4, CleanupStep DEF Pending, Steps

\* Moving the last key to the boundary.
LEMMA AnchorStep ==
  ASSUME CleanupInv, AnchorFinalStaticBoundary
  PROVE  CleanupInv'
<1>1. /\ step = "anchor" /\ step' = "refit"
      /\ UNCHANGED <<clip, solved, converged, routed, candidate, cancelFile>>
  BY DEF AnchorFinalStaticBoundary
<1>2. clip \in Clips /\ InOrder(keys) /\ InOrder(candidate)
  BY DEF CleanupInv, CleanupTyped
<1> DEFINE t == clip.samples[Boundary].t
           ks == AnchoredAt(t)
<1>3. ASSUME ~(keys' = keys /\ reported' = reported /\ screened' = screened)
      PROVE  \E ks1 : /\ AreKeys(ks1) /\ Replaced(ks1) /\ keys # <<>>
                    /\ \/ ValidateKeys(clip.samples, ks1) <= clip.tolerance
                       \/ ValidateKeys(clip.samples, ks1) <= routed.reported
  <2>1. /\ Len(keys) >= 2 /\ Boundary # 0
        /\ WithinBudget(ValidateKeys(clip.samples, ks)) /\ Replaced(ks)
    BY <1>3 DEF AnchorFinalStaticBoundary
  <2>2. keys # <<>>
    BY <2>1
  <2>3. AreKeys(keys)
    BY <1>2, <2>2, SomeInOrder
  <2>4. t \in Nat
    <3>1. AreSamples(clip.samples)
      BY <1>2, ClipFacts
    <3>2. Boundary \in 1 .. Len(clip.samples) - 1
      BY <2>1, <3>1, StillEnd DEF Boundary
    <3>3. Len(clip.samples) \in Nat
      BY <3>1, SamplesAreSamples DEF AreSamples
    <3>4. Boundary \in 1 .. Len(clip.samples)
      BY <3>2, <3>3
    <3> QED
      BY <3>1, <3>4, SamplesAreSamples DEF AreSamples
  <2> HIDE DEF t
  <2>5. AreKeys(ks)
    BY <2>3, <2>4, AnchoredAreKeys
  <2>6. ValidateKeys(clip.samples, ks) <= clip.tolerance
    BY <2>1 DEF WithinBudget
  <2> HIDE DEF ks
  <2> QED
    BY <2>1, <2>2, <2>5, <2>6
<1>4. InOrder(candidate')
  BY <1>1, <1>2 DEF InOrder
<1> HIDE DEF ks, t
<1> QED
  BY <1>1, <1>3, <1>4, CleanupStep DEF Pending, Steps

\* The steps of the refit that leave the keys alone.
LEMMA RefitIdleSteps ==
  ASSUME CleanupInv, SkipRefit \/ BeginRefit \/ CancelRefit
  PROVE  CleanupInv'
<1>1. InOrder(candidate)
  BY DEF CleanupInv, CleanupTyped
<1>2. ASSUME UNCHANGED <<clip, state, candidate, cancelFile>>,
             ~Pending, step # "mark",
             step' \in {"done", "solve", "cancelled"},
             step' = "solve" => Len(keys) >= 3 /\ Len(clip.samples) >= 2
      PROVE  CleanupInv'
  <2>1. InOrder(candidate')
    BY <1>1, <1>2 DEF InOrder
  <2>2. keys' = keys /\ reported' = reported /\ screened' = screened
        /\ UNCHANGED <<clip, solved, converged, routed>>
    BY <1>2 DEF state
  <2>3. step' \in Steps \ {"trim", "route", "mark", "collapse"} /\ step' # "validate"
    BY <1>2 DEF Steps
  <2> QED
    BY <1>2, <2>1, <2>2, <2>3, CleanupStep
<1>3. CASE SkipRefit
  BY <1>2, <1>3 DEF SkipRefit, Pending
<1>4. CASE BeginRefit
  BY <1>2, <1>4 DEF BeginRefit, Pending, PipelineAllowsTemporalRefit, Eligible
<1>5. CASE CancelRefit
  BY <1>2, <1>5 DEF CancelRefit, Pending
<1> QED
  BY <1>3, <1>4, <1>5

\* The motion of the keys solved again.
LEMMA SolveStep ==
  ASSUME CleanupInv, SolveRefit
  PROVE  CleanupInv'
<1>1. /\ step = "solve" /\ step' = "validate" /\ UNCHANGED <<clip, state, cancelFile>>
      /\ \E ks \in Placements(ResampleAcceptedAtSourceTimes, clip.tolerance) :
           candidate' = Spanning(ResampleAcceptedAtSourceTimes, ks)
  BY DEF SolveRefit
<1>2. /\ clip \in Clips /\ InOrder(keys)
      /\ Len(keys) >= 3 /\ Len(clip.samples) >= 2
  BY <1>1 DEF CleanupInv, CleanupTyped, Stages
<1>3. keys # <<>>
  BY <1>2
<1>4. AreKeys(keys) /\ AreSamples(clip.samples)
  BY <1>2, <1>3, SomeInOrder, ClipFacts
<1> DEFINE r == ResampleAcceptedAtSourceTimes
<1>5. AreSamples(r) /\ Len(r) >= 2
  BY <1>2, <1>4, ResampledAreSamples
<1>6. PICK ks \in Placements(r, clip.tolerance) : candidate' = Spanning(r, ks)
  BY <1>1
<1> HIDE DEF r
<1>7. AreKeys(candidate')
  <2>1. AreKeys(ks)
    BY <1>5, PlacementsAreKeys
  <2>2. AreKeys(TwoEndpointCandidate(r))
    BY <1>5, EndpointsAreKeys
  <2> QED
    BY <1>6, <2>1, <2>2 DEF Spanning
<1>8. InOrder(candidate') /\ Len(candidate') > 0
  BY <1>7 DEF AreKeys, InOrder
<1>9. keys' = keys /\ reported' = reported /\ screened' = screened
      /\ UNCHANGED <<clip, solved, converged, routed>>
  BY <1>1 DEF state
<1>10. step' \in Steps \ {"trim", "route", "mark", "collapse"} /\ ~Pending /\ step # "mark"
  BY <1>1 DEF Steps, Pending
<1> QED
  BY <1>2, <1>8, <1>9, <1>10, CleanupStep

\* The refit taken, or not.
LEMMA ValidateStep ==
  ASSUME CleanupInv, ValidateRefit
  PROVE  CleanupInv'
<1>1. /\ step = "validate" /\ step' = "done"
      /\ UNCHANGED <<clip, solved, converged, routed, candidate, cancelFile>>
  BY DEF ValidateRefit
<1>2. /\ clip \in Clips /\ InOrder(keys) /\ InOrder(candidate)
      /\ Len(keys) >= 3 /\ Len(candidate) > 0
  BY <1>1 DEF CleanupInv, CleanupTyped, Stages
<1>3. keys # <<>>
  BY <1>2
<1>4. AreKeys(candidate)
  BY <1>2 DEF AreKeys, InOrder
<1>5. ASSUME ~(keys' = keys /\ reported' = reported /\ screened' = screened)
      PROVE  /\ Replaced(candidate)
             /\ ValidateKeys(clip.samples, candidate) <= clip.tolerance
  BY <1>5 DEF ValidateRefit, RefitWithinBudget, RefitError
<1>6. InOrder(candidate')
  BY <1>1, <1>2 DEF InOrder
<1> QED
  BY <1>1, <1>3, <1>4, <1>5, <1>6, CleanupStep DEF Pending, Steps

\* The host asks to stop.
LEMMA HostStep ==
  ASSUME CleanupInv, HostCancels
  PROVE  CleanupInv'
<1>1. UNCHANGED <<clip, step, state, candidate>>
  BY DEF HostCancels
<1> QED
  BY <1>1 DEF state, CleanupInv, CleanupTyped, Stages, Budget, Report, Pending, Error,
              AreSamples, InOrder, CutSamples, Trims, UsesMotionSmoothing, Boundary

------------------------------------------------------------------------------
(***************************************************************************)
(* The invariant, and what it says of the steps.                           *)
(***************************************************************************)
\* A property that has just come in.
LEMMA CleanupStarts == CleanupInit => CleanupInv
<1> SUFFICES ASSUME CleanupInit PROVE CleanupInv
  OBVIOUS
<1>1. /\ clip \in Clips /\ step = "trim" /\ solved = clip.samples
      /\ keys = <<>> /\ reported = 0 /\ converged = FALSE
      /\ routed = NoKeys /\ candidate = <<>>
  BY DEF CleanupInit
<1>2. routed.keys = <<>> /\ routed.reported = 0
  BY <1>1 DEF NoKeys
<1>3. InOrder(<<>>)
  BY DEF InOrder, MoveForward
<1>4. CleanupTyped
  <2>1. InOrder(keys) /\ InOrder(candidate) /\ InOrder(routed.keys)
    BY <1>1, <1>2, <1>3
  <2>2. AreSamples(solved) /\ step \in Steps
    BY <1>1, ClipFacts DEF Steps
  <2>3. reported \in Nat /\ routed.reported \in Nat
    BY <1>1, <1>2
  <2>4. converged \in BOOLEAN
    BY <1>1
  <2> QED
    BY <1>1, <2>1, <2>2, <2>3, <2>4, Zenon DEF CleanupTyped
<1>5. Stages
  BY <1>1 DEF Stages, Pending
<1>6. Budget /\ Report
  BY <1>1 DEF Budget, Report
<1> QED
  BY <1>4, <1>5, <1>6 DEF CleanupInv

\* Every step keeps the invariant.
LEMMA CleanupGoesOn == CleanupInv /\ [CleanupNext]_cleanupVars => CleanupInv'
<1> SUFFICES ASSUME CleanupInv, [CleanupNext]_cleanupVars PROVE CleanupInv'
  OBVIOUS
<1>1. CASE UNCHANGED cleanupVars
  BY <1>1 DEF cleanupVars, state, CleanupInv, CleanupTyped, Stages, Budget, Report, Pending,
              Error, AreSamples, InOrder, CutSamples, Trims, UsesMotionSmoothing,
              Boundary
<1>2. CASE Trim \/ Route \/ ApplyFinalStaticTrimNote
  BY <1>2, TrimStep, RouteStep, NoteStep
<1>3. CASE CollapseRedundantStaticKeyRuns \/ AnchorFinalStaticBoundary
  BY <1>3, CollapseStep, AnchorStep
<1>4. CASE SkipRefit \/ BeginRefit \/ SolveRefit \/ ValidateRefit \/ CancelRefit
  BY <1>4, RefitIdleSteps, SolveStep, ValidateStep
<1>5. CASE HostCancels
  BY <1>5, HostStep
<1> QED
  BY <1>1, <1>2, <1>3, <1>4, <1>5 DEF CleanupNext

\* Keys in order at every step, their error within one of three bounds and told
\* truly where the route's was.
THEOREM CleanupInvariance == CleanupSpec => []CleanupInv
BY CleanupStarts, CleanupGoesOn, PTL DEF CleanupSpec

\* The keys move forward in time whatever is collapsed, anchored or solved again:
\* BuildReducedKeys, the anchor and the refit never leave two keys at one time.
THEOREM KeysStayInOrder == CleanupSpec => []KeysMoveForward
<1>1. CleanupInv => KeysMoveForward
  BY DEF CleanupInv, CleanupTyped, InOrder, KeysMoveForward
<1> QED
  BY <1>1, CleanupInvariance, PTL

\* One of three numbers is no more than the largest.
LEMMA LargestOfThree ==
  ASSUME NEW a \in Nat, NEW b \in Nat, NEW c \in Nat, NEW x \in Nat,
         x <= a \/ x <= b \/ x <= c
  PROVE  x <= Max({a, b, c})
<1>1. \E m \in {a, b, c} : \A y \in {a, b, c} : m >= y
  OBVIOUS
<1>2. /\ Max({a, b, c}) \in {a, b, c}
      /\ \A y \in {a, b, c} : Max({a, b, c}) >= y
  BY <1>1 DEF Max
<1> QED
  BY <1>2

\* Static-run collapse, the anchor and the refit keep a converged property within
\* the tolerance, or within what the route had left: each compares the error of
\* its keys over the whole clip with one of the two.
THEOREM CleanupKeepsTheError == CleanupSpec => []CleanupStaysWithin
<1>1. CleanupInv => CleanupStaysWithin
  <2> SUFFICES ASSUME CleanupInv, step = "done", converged, routed.keys # <<>>
               PROVE  Error <= Max({clip.tolerance, routed.reported,
                                    ValidateKeys(clip.samples, routed.keys)})
    BY DEF CleanupStaysWithin
  <2>1. /\ InOrder(keys) /\ InOrder(routed.keys) /\ clip \in Clips
        /\ routed.reported \in Nat
    BY DEF CleanupInv, CleanupTyped
  <2>2. keys # <<>>
    BY DEF CleanupInv, Stages, Pending
  <2>3. AreKeys(keys) /\ AreKeys(routed.keys)
    BY <2>1, <2>2, SomeInOrder
  <2>4. AreSamples(clip.samples) /\ clip.tolerance \in Nat
    BY <2>1, ClipFacts
  <2>5. Error \in Nat /\ ValidateKeys(clip.samples, routed.keys) \in Nat
    BY <2>3, <2>4, ErrorIsNat DEF Error
  <2>6. \/ Error <= clip.tolerance \/ Error <= routed.reported
        \/ Error <= ValidateKeys(clip.samples, routed.keys)
    BY <2>2 DEF CleanupInv, Budget, Pending
  <2> QED
    BY <2>1, <2>4, <2>5, <2>6, LargestOfThree
<1> QED
  BY <1>1, CleanupInvariance, PTL

\* A max_err that was true of the samples the route was given is true of the final
\* keys on the whole clip: keys end no later than the cut, and every step that
\* replaces them measures them again.
THEOREM ReportStaysTrueToTheEnd == CleanupSpec => []ReportStaysTrue
<1>1. CleanupInv => ReportStaysTrue
  BY DEF CleanupInv, Stages, Report, Pending, ReportStaysTrue
<1> QED
  BY <1>1, CleanupInvariance, PTL
==============================================================================
