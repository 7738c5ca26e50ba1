------------------------- MODULE SolveCommand_proofs -------------------------
(***************************************************************************)
(* Theorems about SolveCommand, for every number of properties, every set  *)
(* of configurations and every combination of faults.                      *)
(***************************************************************************)
EXTENDS SolveCommand, TLAPS

(***************************************************************************)
(* The progress field.                                                     *)
(***************************************************************************)

\* A stage fraction, whatever it is, becomes a value between 0 and 0.98.
LEMMA StageBounded ==
  ASSUME NEW i \in Nat, NEW n \in Nat, NEW stage \in Int
  PROVE  SolveProgressForPropertyStage(i, n, stage) \in 0..DoneProgress(n)
<1>1. Clamped(0, stage, Unit) \in Int
  BY DEF Clamped, Unit
<1>2. 20 * Unit * n + (Unit * i + Clamped(0, stage, Unit)) * 960 \in Int
  BY <1>1 DEF Unit
<1>3. \A v \in Int, high \in Nat : Clamped(0, v, high) \in 0..high
  BY DEF Clamped
<1>4. 980 * Unit * n \in Nat /\ 980 * Unit * n <= Unit * Unit * n
  BY DEF Unit
<1>5. SolveProgressForPropertyStage(i, n, stage) \in 0..(980 * Unit * n)
  BY <1>2, <1>3, <1>4 DEF SolveProgressForPropertyStage
<1> QED
  BY <1>4, <1>5 DEF DoneProgress, Unit

\* A step that writes values of the unit interval keeps the trail well-typed.
LEMMA EmitsType ==
  /\ \A a \in 0..DoneProgress(N) :
       TrailOK /\ Emits(<<a>>) => TrailOK'
  /\ \A a, b \in 0..DoneProgress(N) :
       TrailOK /\ Emits(<<a, b>>) => TrailOK'
<1> DEFINE Interval == 0..DoneProgress(N)
<1>1. ASSUME TrailOK PROVE LastProgress \in Interval
  <2>1. trail \in Seq(Interval) /\ Len(trail) > 0
    BY <1>1 DEF TrailOK
  <2> HIDE DEF Interval
  <2> QED
    BY <2>1 DEF LastProgress
<1>2. ASSUME NEW a \in Interval, TrailOK, Emits(<<a>>) PROVE TrailOK'
  <2>1. <<LastProgress>> \o <<a>> \in Seq(Interval)
        /\ Len(<<LastProgress>> \o <<a>>) > 0
    <3> HIDE DEF Interval
    <3> QED BY <1>1, <1>2
  <2> QED
    BY <1>2, <2>1 DEF Emits, TrailOK
<1>3. ASSUME NEW a \in Interval, NEW b \in Interval, TrailOK, Emits(<<a, b>>)
      PROVE  TrailOK'
  <2>1. <<LastProgress>> \o <<a, b>> \in Seq(Interval)
        /\ Len(<<LastProgress>> \o <<a, b>>) > 0
    <3> HIDE DEF Interval
    <3> QED BY <1>1, <1>3
  <2> QED
    BY <1>3, <2>1 DEF Emits, TrailOK
<1> QED
  BY <1>2, <1>3

\* What a stage writes: its events, after the last one of the step before.
TrailAfter(stages) == <<LastProgress>> \o At(stages)
StageLists == Seq(Int)

\* Whatever list of stage fractions a stage writes, the trail stays well-typed.
LEMMA StagesAppended ==
  ASSUME TrailOK, idx \in 0..N
  PROVE  \A stages \in StageLists :
           TrailAfter(stages) \in Seq(0..DoneProgress(N))
           /\ Len(TrailAfter(stages)) > 0
<1> DEFINE Interval == 0..DoneProgress(N)
<1>0. N \in Nat \ {0} /\ idx \in Nat
  BY ConstantsAssumption
<1> USE DEF StageLists
<1> TAKE stages \in Seq(Int)
<1>1. \A k \in 1..Len(stages) :
        SolveProgressForPropertyStage(idx, N, stages[k]) \in Interval
  <2> TAKE k \in 1..Len(stages)
  <2>1. stages[k] \in Int
    OBVIOUS
  <2> QED
    BY <1>0, <2>1, StageBounded
<1>2. At(stages) \in Seq(Interval)
  <2>1. At(stages) = [k \in 1..Len(stages) |->
                        SolveProgressForPropertyStage(idx, N, stages[k])]
    BY DEF At
  <2> HIDE DEF Interval
  <2> QED BY <1>1, <2>1
<1>3. LastProgress \in Interval
  <2>1. trail \in Seq(Interval) /\ Len(trail) > 0
    BY DEF TrailOK
  <2> HIDE DEF Interval
  <2> QED
    BY <2>1 DEF LastProgress
<1>4. <<LastProgress>> \o At(stages) \in Seq(Interval)
  <2> HIDE DEF Interval
  <2> QED BY <1>2, <1>3
<1>5. Len(<<LastProgress>> \o At(stages)) = 1 + Len(At(stages))
  <2> HIDE DEF Interval
  <2> QED BY <1>2, <1>3
<1> QED
  BY <1>2, <1>4, <1>5 DEF TrailAfter

(***************************************************************************)
(* Type correctness, one part of TypeOK at a time.  Every proof splits     *)
(* Next into the phases of the run.                                        *)
(***************************************************************************)

\* The stage, the loop index and the exit code keep their types: only a
\* property below N is worked on, so the index never passes N.
LEMMA ControlStep ==
  ASSUME ControlOK, LoopInv, [Next]_vars
  PROVE  ControlOK'
<1> USE ConstantsAssumption
<1> USE DEF LoopInv, ControlOK, Polls, CancelFileExists, hostVars, Stages,
              PropertyStages, ExitCodes, Running, AfterWrite, Goto, Exit,
              jobVars
<1>1. CASE Startup
  BY <1>1 DEF Startup, AcceptArguments, ParseSolveCommandConfig,
              EmitSolveStartLifecycle
<1>2. CASE SolveTemporal
  BY <1>2 DEF SolveTemporal, LoopTop, LoopEnds, PreparePathSolveInputs,
              PreparePropertyTemporalPrelude, RouteCancelled, RouteSolved,
              GateShapeMotionQualityRegression,
              ReportPropertyTemporalSolveResult
<1>3. CASE ProcessPostTemporalReplacement
  BY <1>3 DEF ProcessPostTemporalReplacement, AcceptFastVertexPreference,
              BaselineCancelled, SolveReplacementBaseline, RetryFails,
              RetryCancelled, RetryAccepted, RetryLadderEnds,
              ApplyReplacementInitialOrFallbackDecision
<1>4. CASE CompleteSolvedProperty
  <2>1. CASE SkipPostSolveVertexReduction
    BY <2>1 DEF SkipPostSolveVertexReduction
  <2>2. CASE PostSolveVertexReductionCancelled
    BY <2>2 DEF PostSolveVertexReductionCancelled
  <2>3. CASE TryPostSolvePathVertexReduction
    BY <2>3 DEF TryPostSolvePathVertexReduction
  <2>4. CASE CleanUpStaticKeys
    BY <2>4 DEF CleanUpStaticKeys
  <2>5. CASE SkipTemporalRefit
    BY <2>5 DEF SkipTemporalRefit
  <2>6. CASE TemporalRefitCancelled
    BY <2>6 DEF TemporalRefitCancelled
  <2>7. CASE TryTemporalRefitKeyReduction
    BY <2>7 DEF TryTemporalRefitKeyReduction
  <2>8. CASE AccuracyGateOptimizationNote
    BY <2>8 DEF AccuracyGateOptimizationNote
  <2>9. CASE AppendWithoutLandmarks
    BY <2>9 DEF AppendWithoutLandmarks, AppendGroup
  <2>10. CASE AppendWithLandmarks
    BY <2>10 DEF AppendWithLandmarks, AppendGroup
  <2> QED
    BY <1>4, <2>1, <2>2, <2>3, <2>4, <2>5, <2>6, <2>7, <2>8, <2>9, <2>10 DEF
       CompleteSolvedProperty
<1>5. CASE Ending
  BY <1>5 DEF Ending, EmitSolveCancelledLifecycle, WriteCancelledPartial,
              WriteCompletedOutput, EmitDoneProgress, EmitDoneDiagnostics
<1>6. CASE Failure
  BY <1>6 DEF Failure, RejectUsage, InputThrows, ProgressThrows,
              DiagnosticsThrows, OpenOutputThrows, Throws
<1>7. CASE Host
  <2>1. CASE HostCreatesCancelFile
    BY <2>1 DEF HostCreatesCancelFile
  <2>2. CASE HostWithdrawsCancelFile
    BY <2>2 DEF HostWithdrawsCancelFile
  <2> QED
    BY <1>7, <2>1, <2>2 DEF Host
<1>8. CASE UNCHANGED vars
  BY <1>8 DEF vars
<1> QED
  BY <1>1, <1>2, <1>3, <1>4, <1>5, <1>6, <1>7, <1>8 DEF Next, RunSolve

\* Only a property below N is worked on; the loop ends at N.
LEMMA LoopStep ==
  ASSUME ControlOK, LoopInv, [Next]_vars
  PROVE  LoopInv'
<1> USE ConstantsAssumption
<1> USE DEF LoopInv, ControlOK, Stages, PropertyStages, ExitCodes, Running,
              AfterWrite, Goto, Exit, jobVars
<1>1. CASE Startup
  BY <1>1 DEF Startup, AcceptArguments, ParseSolveCommandConfig,
              EmitSolveStartLifecycle
<1>2. CASE SolveTemporal
  BY <1>2 DEF SolveTemporal, LoopTop, LoopEnds, PreparePathSolveInputs,
              PreparePropertyTemporalPrelude, RouteCancelled, RouteSolved,
              GateShapeMotionQualityRegression,
              ReportPropertyTemporalSolveResult
<1>3. CASE ProcessPostTemporalReplacement
  BY <1>3 DEF ProcessPostTemporalReplacement, AcceptFastVertexPreference,
              BaselineCancelled, SolveReplacementBaseline, RetryFails,
              RetryCancelled, RetryAccepted, RetryLadderEnds,
              ApplyReplacementInitialOrFallbackDecision
<1>4. CASE CompleteSolvedProperty
  <2>1. CASE SkipPostSolveVertexReduction
    BY <2>1 DEF SkipPostSolveVertexReduction
  <2>2. CASE PostSolveVertexReductionCancelled
    BY <2>2 DEF PostSolveVertexReductionCancelled
  <2>3. CASE TryPostSolvePathVertexReduction
    BY <2>3 DEF TryPostSolvePathVertexReduction
  <2>4. CASE CleanUpStaticKeys
    BY <2>4 DEF CleanUpStaticKeys
  <2>5. CASE SkipTemporalRefit
    BY <2>5 DEF SkipTemporalRefit
  <2>6. CASE TemporalRefitCancelled
    BY <2>6 DEF TemporalRefitCancelled
  <2>7. CASE TryTemporalRefitKeyReduction
    BY <2>7 DEF TryTemporalRefitKeyReduction
  <2>8. CASE AccuracyGateOptimizationNote
    BY <2>8 DEF AccuracyGateOptimizationNote
  <2>9. CASE AppendWithoutLandmarks
    BY <2>9 DEF AppendWithoutLandmarks, AppendGroup
  <2>10. CASE AppendWithLandmarks
    BY <2>10 DEF AppendWithLandmarks, AppendGroup
  <2> QED
    BY <1>4, <2>1, <2>2, <2>3, <2>4, <2>5, <2>6, <2>7, <2>8, <2>9, <2>10 DEF
       CompleteSolvedProperty
<1>5. CASE Ending
  BY <1>5 DEF Ending, EmitSolveCancelledLifecycle, WriteCancelledPartial,
              WriteCompletedOutput, EmitDoneProgress, EmitDoneDiagnostics
<1>6. CASE Failure
  BY <1>6 DEF Failure, RejectUsage, InputThrows, ProgressThrows,
              DiagnosticsThrows, OpenOutputThrows, Throws
<1>7. CASE Host
  <2>1. CASE HostCreatesCancelFile
    BY <2>1 DEF HostCreatesCancelFile
  <2>2. CASE HostWithdrawsCancelFile
    BY <2>2 DEF HostWithdrawsCancelFile
  <2> QED
    BY <1>7, <2>1, <2>2 DEF Host
<1>8. CASE UNCHANGED vars
  BY <1>8 DEF vars
<1> QED
  BY <1>1, <1>2, <1>3, <1>4, <1>5, <1>6, <1>7, <1>8 DEF Next, RunSolve

\* The progress field stays in [0, 1], whatever a step writes.
LEMMA TrailStep ==
  ASSUME ControlOK, TrailOK, [Next]_vars
  PROVE  TrailOK'
<1>0. idx \in 0..N
  BY DEF ControlOK
<1> DEFINE Good(t) == t \in Seq(0..DoneProgress(N)) /\ Len(t) > 0
<1>9. \A stages \in StageLists : Good(TrailAfter(stages))
  BY <1>0, StagesAppended
<1>10. Good(trail)
  BY DEF TrailOK
<1>11. ASSUME Good(trail') PROVE TrailOK'
  BY <1>11 DEF TrailOK, DoneProgress
<1> HIDE DEF Good
<1>1. CASE Startup
  <2>1. CASE AcceptArguments
    BY <2>1 DEF AcceptArguments, TrailOK
  <2>2. CASE ParseSolveCommandConfig
    BY <2>2 DEF ParseSolveCommandConfig, TrailOK
  <2>3. CASE EmitSolveStartLifecycle
    <3>1. SolveStartProgress(N) \in 0..DoneProgress(N)
          /\ ParallelConfigProgress(N) \in 0..DoneProgress(N)
      BY ConstantsAssumption
         DEF SolveStartProgress, ParallelConfigProgress, DoneProgress, Unit
    <3> QED
      BY <2>3, <3>1, EmitsType DEF EmitSolveStartLifecycle
  <2> QED
    BY <1>1, <2>1, <2>2, <2>3
       DEF Startup
<1>2. CASE SolveTemporal
  <2>1. CASE LoopTop
    BY <2>1 DEF LoopTop, TrailOK
  <2>2. CASE LoopEnds
    BY <2>2 DEF LoopEnds, TrailOK
  <2>3. CASE PreparePathSolveInputs
    <3>1. trail' = TrailAfter(PreparationEvents(prep'))
      BY <2>3 DEF PreparePathSolveInputs, EmitsStages, Emits, TrailAfter
    <3>2. PICK p : p = prep'
      OBVIOUS
    <3>3. /\ TriesOutline(cfg, p) \in BOOLEAN
          /\ TriesReplacement(cfg, p) \in BOOLEAN
          /\ TriesCanonical(cfg, p) \in BOOLEAN
      BY DEF TriesOutline, TriesReplacement, TriesCanonical
    <3>4. PreparationEvents(p) \in StageLists
      BY <3>3 DEF PreparationEvents, If, StageLists
    <3> QED
      BY <3>1, <3>2, <3>4, <1>9, <1>11
  <2>4. CASE PreparePropertyTemporalPrelude
    <3>1. trail' \in {TrailAfter(<<400>>)}
      BY <2>4 DEF PreparePropertyTemporalPrelude, EmitsStages, Emits,
         TrailAfter
    <3>2. <<400>> \in StageLists
      BY DEF StageLists
    <3> QED
      BY <3>1, <3>2, <1>9, <1>11
  <2>5. CASE RouteCancelled
    <3>1. trail' \in {TrailAfter(<<400>>)}
      BY <2>5 DEF RouteCancelled, EmitsStages, Emits, TrailAfter
    <3>2. <<400>> \in StageLists
      BY DEF StageLists
    <3> QED
      BY <3>1, <3>2, <1>9, <1>11
  <2>6. CASE RouteSolved
    <3>1. \E stage \in {400, 550, 700} :
            trail' = TrailAfter(CASE Route = "PreserveSourceKeys" -> <<420>>
                          [] PollsWhileSolving(Route) -> <<stage>>
                          [] OTHER -> <<>>)
      BY <2>6 DEF RouteSolved, EmitsStages, Emits, TrailAfter
    <3>2. trail' \in {TrailAfter(<<>>), TrailAfter(<<400>>), TrailAfter(<<420>>),
                     TrailAfter(<<550>>), TrailAfter(<<700>>)}
      BY <3>1
    <3>3. <<>> \in StageLists
      BY DEF StageLists
    <3>4. <<400>> \in StageLists
      BY DEF StageLists
    <3>5. <<420>> \in StageLists
      BY DEF StageLists
    <3>6. <<550>> \in StageLists
      BY DEF StageLists
    <3>7. <<700>> \in StageLists
      BY DEF StageLists
    <3> QED
      BY <3>2, <3>3, <3>4, <3>5, <3>6, <3>7, <1>9, <1>11
  <2>7. CASE GateShapeMotionQualityRegression
    BY <2>7 DEF GateShapeMotionQualityRegression, TrailOK
  <2>8. CASE ReportPropertyTemporalSolveResult
    <3>1. trail' \in {TrailAfter(<<700>>)}
      BY <2>8 DEF ReportPropertyTemporalSolveResult, EmitsStages, Emits,
         TrailAfter
    <3>2. <<700>> \in StageLists
      BY DEF StageLists
    <3> QED
      BY <3>1, <3>2, <1>9, <1>11
  <2> QED
    BY <1>2, <2>1, <2>2, <2>3, <2>4, <2>5, <2>6, <2>7, <2>8
       DEF SolveTemporal
<1>3. CASE ProcessPostTemporalReplacement
  <2>1. CASE AcceptFastVertexPreference
    <3>1. trail' \in {TrailAfter(<<800>>)}
      BY <2>1 DEF AcceptFastVertexPreference, EmitsStages, Emits, TrailAfter
    <3>2. <<800>> \in StageLists
      BY DEF StageLists
    <3> QED
      BY <3>1, <3>2, <1>9, <1>11
  <2>2. CASE BaselineCancelled
    <3>1. trail' \in {TrailAfter(<<710>>)}
      BY <2>2 DEF BaselineCancelled, EmitsStages, Emits, TrailAfter
    <3>2. <<710>> \in StageLists
      BY DEF StageLists
    <3> QED
      BY <3>1, <3>2, <1>9, <1>11
  <2>3. CASE SolveReplacementBaseline
    <3>1. trail' \in {TrailAfter(<<710, 730, 740, 800>>)}
      BY <2>3 DEF SolveReplacementBaseline, EmitsStages, Emits, TrailAfter
    <3>2. <<710, 730, 740, 800>> \in StageLists
      BY DEF StageLists
    <3> QED
      BY <3>1, <3>2, <1>9, <1>11
  <2>4. CASE RetryFails
    <3>1. trail' \in {TrailAfter(<<820, 100, 200>>),
                     TrailAfter(<<820, 100, 200, 860>>)}
      BY <2>4 DEF RetryFails, EmitsStages, Emits, TrailAfter
    <3>2. <<820, 100, 200>> \in StageLists
      BY DEF StageLists
    <3>3. <<820, 100, 200, 860>> \in StageLists
      BY DEF StageLists
    <3> QED
      BY <3>1, <3>2, <3>3, <1>9, <1>11
  <2>5. CASE RetryCancelled
    <3>1. trail' \in {TrailAfter(<<820, 100, 200>>)}
      BY <2>5 DEF RetryCancelled, EmitsStages, Emits, TrailAfter
    <3>2. <<820, 100, 200>> \in StageLists
      BY DEF StageLists
    <3> QED
      BY <3>1, <3>2, <1>9, <1>11
  <2>6. CASE RetryAccepted
    <3>1. trail' \in {TrailAfter(<<820, 100, 200, 860>>)}
      BY <2>6 DEF RetryAccepted, EmitsStages, Emits, TrailAfter
    <3>2. <<820, 100, 200, 860>> \in StageLists
      BY DEF StageLists
    <3> QED
      BY <3>1, <3>2, <1>9, <1>11
  <2>7. CASE RetryLadderEnds
    BY <2>7 DEF RetryLadderEnds, TrailOK
  <2>8. CASE ApplyReplacementInitialOrFallbackDecision
    BY <2>8 DEF ApplyReplacementInitialOrFallbackDecision, TrailOK
  <2> QED
    BY <1>3, <2>1, <2>2, <2>3, <2>4, <2>5, <2>6, <2>7, <2>8
       DEF ProcessPostTemporalReplacement
<1>4. CASE CompleteSolvedProperty
  <2>1. CASE SkipPostSolveVertexReduction
    BY <2>1 DEF SkipPostSolveVertexReduction, TrailOK
  <2>2. CASE PostSolveVertexReductionCancelled
    <3>1. trail' \in {TrailAfter(<<810>>)}
      BY <2>2 DEF PostSolveVertexReductionCancelled, EmitsStages, Emits,
         TrailAfter
    <3>2. <<810>> \in StageLists
      BY DEF StageLists
    <3> QED
      BY <3>1, <3>2, <1>9, <1>11
  <2>3. CASE TryPostSolvePathVertexReduction
    <3>1. trail' \in {TrailAfter(<<810, 900>>)}
      BY <2>3 DEF TryPostSolvePathVertexReduction, EmitsStages, Emits,
         TrailAfter
    <3>2. <<810, 900>> \in StageLists
      BY DEF StageLists
    <3> QED
      BY <3>1, <3>2, <1>9, <1>11
  <2>4. CASE CleanUpStaticKeys
    <3>1. PICK collapse \in BOOLEAN, anchor \in BOOLEAN :
            trail' = TrailAfter(If(collapse, <<910>>) \o If(anchor, <<915>>))
      BY <2>4 DEF CleanUpStaticKeys, EmitsStages, Emits, TrailAfter
    <3>2. If(collapse, <<910>>) \o If(anchor, <<915>>) \in StageLists
      BY DEF If, StageLists
    <3> QED
      BY <3>1, <3>2, <1>9, <1>11
  <2>5. CASE SkipTemporalRefit
    BY <2>5 DEF SkipTemporalRefit, TrailOK
  <2>6. CASE TemporalRefitCancelled
    BY <2>6 DEF TemporalRefitCancelled, TrailOK
  <2>7. CASE TryTemporalRefitKeyReduction
    <3>1. trail' \in {TrailAfter(<<>>),
                     TrailAfter(<<916, 951, 933, 951, 952>>)}
      BY <2>7 DEF TryTemporalRefitKeyReduction, EmitsStages, Emits, TrailAfter
    <3>2. <<>> \in StageLists
      BY DEF StageLists
    <3>3. <<916, 951, 933, 951, 952>> \in StageLists
      BY DEF StageLists
    <3> QED
      BY <3>1, <3>2, <3>3, <1>9, <1>11
  <2>8. CASE AccuracyGateOptimizationNote
    <3>1. trail' \in {TrailAfter(<<>>),
                     TrailAfter(<<720>>)}
      BY <2>8 DEF AccuracyGateOptimizationNote, EmitsStages, Emits, TrailAfter
    <3>2. <<>> \in StageLists
      BY DEF StageLists
    <3>3. <<720>> \in StageLists
      BY DEF StageLists
    <3> QED
      BY <3>1, <3>2, <3>3, <1>9, <1>11
  <2>9. CASE AppendWithoutLandmarks
    <3>1. trail' \in {TrailAfter(<<980>>)}
      BY <2>9 DEF AppendWithoutLandmarks, EmitsStages, Emits, TrailAfter
    <3>2. <<980>> \in StageLists
      BY DEF StageLists
    <3> QED
      BY <3>1, <3>2, <1>9, <1>11
  <2>10. CASE AppendWithLandmarks
    <3>1. PICK subpaths :
            trail' = TrailAfter(<<880>> \o If(subpaths > 0, <<940>>) \o <<980>>)
      BY <2>10 DEF AppendWithLandmarks, EmitsStages, Emits, TrailAfter
    <3>2. <<880>> \o If(subpaths > 0, <<940>>) \o <<980>> \in StageLists
      BY DEF If, StageLists
    <3> QED
      BY <3>1, <3>2, <1>9, <1>11
  <2> QED
    BY <1>4, <2>1, <2>2, <2>3, <2>4, <2>5, <2>6, <2>7, <2>8, <2>9, <2>10
       DEF CompleteSolvedProperty
<1>5. CASE Ending
  <2>1. CASE EmitSolveCancelledLifecycle
    BY <2>1 DEF EmitSolveCancelledLifecycle, TrailOK
  <2>2. CASE WriteCancelledPartial
    BY <2>2 DEF WriteCancelledPartial, TrailOK
  <2>3. CASE WriteCompletedOutput
    BY <2>3 DEF WriteCompletedOutput, TrailOK
  <2>4. CASE EmitDoneProgress
    <3>1. DoneProgress(N) \in 0..DoneProgress(N)
      BY ConstantsAssumption DEF DoneProgress, Unit
    <3> QED
      BY <2>4, <3>1, EmitsType DEF EmitDoneProgress
  <2>5. CASE EmitDoneDiagnostics
    BY <2>5 DEF EmitDoneDiagnostics, TrailOK
  <2> QED
    BY <1>5, <2>1, <2>2, <2>3, <2>4, <2>5
       DEF Ending
<1>6. CASE Failure
  BY <1>6 DEF TrailOK, Failure, RejectUsage, InputThrows, ProgressThrows,
     DiagnosticsThrows, OpenOutputThrows, Throws
<1>7. CASE Host
  BY <1>7 DEF TrailOK, Host, HostCreatesCancelFile, HostWithdrawsCancelFile
<1>8. CASE UNCHANGED vars
  BY <1>8 DEF vars, TrailOK
<1> QED
  BY <1>1, <1>2, <1>3, <1>4, <1>5, <1>6, <1>7, <1>8 DEF Next, RunSolve

\* A key list with a further note is a key list, and nothing else changes.
LEMMA NotedType ==
  ASSUME NEW k \in KeyList, NEW word \in NoteWords
  PROVE  /\ Noted(k, word) \in KeyList
         /\ Noted(k, word).notes = k.notes \cup {word}
         /\ Noted(k, word).converged = k.converged
         /\ Noted(k, word).count = k.count
  BY DEF Noted, KeyList

\* The values a property starts from.
LEMMA EmptyProperty ==
  /\ NoPreparation \in PreparationSpace
  /\ NoKeys \in KeyList /\ CancelledKeys \in KeyList
  /\ NoBaseline \in [use : BOOLEAN, keys : KeyList]
  /\ 0 \in 0..MaxRetries
  BY ConstantsAssumption DEF NoPreparation, PreparationSpace, NoKeys,
     CancelledKeys, NoBaseline, KeyList, NoteWords

\* What appending a group does to the data of the property: it is cleared.
LEMMA AppendGroupClears ==
  ASSUME NEW group, AppendGroup(group)
  PROVE  /\ prep' = NoPreparation /\ keys' = NoKeys
         /\ accepted' = FALSE /\ fast' = FALSE
         /\ baseline' = NoBaseline /\ retries' = 0
BY DEF AppendGroup

LEMMA AppendsClear ==
  ASSUME AppendWithoutLandmarks \/ AppendWithLandmarks
  PROVE  /\ prep' = NoPreparation /\ keys' = NoKeys
         /\ accepted' = FALSE /\ fast' = FALSE
         /\ baseline' = NoBaseline /\ retries' = 0
<1>1. \E group : AppendGroup(group)
  <2>1. CASE AppendWithoutLandmarks
    BY <2>1, ZenonT(60) DEF AppendWithoutLandmarks
  <2>2. CASE AppendWithLandmarks
    BY <2>2, ZenonT(60) DEF AppendWithLandmarks
  <2> QED
    BY <2>1, <2>2
<1> QED
  BY <1>1, AppendGroupClears, Zenon

\* The baseline of the replacement is the only thing its solve writes.
LEMMA BaselineStep ==
  ASSUME SolveReplacementBaseline
  PROVE  /\ UNCHANGED <<prep, keys, accepted, fast, retries>>
         /\ \E converged \in BOOLEAN, count \in KeyCounts, use \in BOOLEAN :
              /\ baseline' = [use |-> use,
                              keys |-> [notes |-> {}, converged |-> converged,
                                        count |-> count]]
              /\ use => UseCandidate(keys, baseline'.keys)
              /\ pc' = "decide" \/ (pc' = "retry" /\ ~use)
<1>1. UNCHANGED <<prep, keys, accepted, fast, retries>>
  BY ZenonT(60) DEF SolveReplacementBaseline
<1>2. PICK converged \in BOOLEAN, count \in KeyCounts, use \in BOOLEAN :
        /\ baseline' = [use |-> use,
                        keys |-> [notes |-> {}, converged |-> converged,
                                  count |-> count]]
        /\ use => UseCandidate(keys, baseline'.keys)
        /\ \/ Goto("decide")
           \/ ~use /\ keys.count <= count /\ Goto("retry")
  BY ZenonT(60) DEF SolveReplacementBaseline
<1>3. pc' = "decide" \/ (pc' = "retry" /\ ~use)
  BY <1>2, Zenon DEF Goto
<1> QED
  BY <1>1, <1>2, <1>3, Zenon

\* The data of the property that is being solved keeps its types.
LEMMA PropertyStep ==
  ASSUME ControlOK, PropertyOK, [Next]_vars
  PROVE  PropertyOK'
<1>9. \A k \in KeyList : Noted(k, "other") \in KeyList
  BY NotedType DEF NoteWords
<1>10. NoKeys \in KeyList /\ CancelledKeys \in KeyList
  BY EmptyProperty
<1> USE <1>9, <1>10 DEF PropertyOK, propertyVars
<1>1. CASE Startup
  BY <1>1 DEF Startup, AcceptArguments, ParseSolveCommandConfig,
     EmitSolveStartLifecycle
<1>2. CASE SolveTemporal
  <2>1. CASE LoopTop
    BY <2>1 DEF LoopTop
  <2>2. CASE LoopEnds
    BY <2>2 DEF LoopEnds
  <2>3. CASE PreparePathSolveInputs
    <3>1. prep' \in PreparationSpace
      BY <2>3 DEF PreparePathSolveInputs, Preparations
    <3> QED
      BY <2>3, <3>1 DEF PreparePathSolveInputs
  <2>4. CASE PreparePropertyTemporalPrelude
    BY <2>4 DEF PreparePropertyTemporalPrelude
  <2>5. CASE RouteCancelled
    <3>1. PICK k \in CancelledOutcomes(Route) :
            keys' = ApplyFinalStaticTrimNote(k)
      BY <2>5 DEF RouteCancelled
    <3>2. Noted(CancelledKeys, "other") \in KeyList
      OBVIOUS
    <3>3. [notes : {{"other"}}, converged : {TRUE}, count : KeyCounts]
             \subseteq KeyList
      BY ConstantsAssumption DEF KeyList, NoteWords
    <3>4. [notes : {{}, {"other"}}, converged : BOOLEAN, count : KeyCounts]
             \subseteq KeyList
      BY ConstantsAssumption DEF KeyList, NoteWords
    <3>5. k \in KeyList
      BY <3>1, <3>2, <3>3, <3>4 DEF CancelledOutcomes
    <3>6. keys' \in KeyList
      BY <3>1, <3>5 DEF ApplyFinalStaticTrimNote
    <3> QED
      BY <2>5, <3>6 DEF RouteCancelled
  <2>6. CASE RouteSolved
    <3>1. PICK k \in [notes : {{}, {"other"}}, converged : BOOLEAN,
                      count : KeyCounts] :
            keys' = ApplyFinalStaticTrimNote(k)
      BY <2>6 DEF RouteSolved
    <3>2. k \in KeyList
      BY ConstantsAssumption DEF KeyList, NoteWords
    <3>3. keys' \in KeyList
      BY <3>1, <3>2 DEF ApplyFinalStaticTrimNote
    <3> QED
      BY <2>6, <3>3 DEF RouteSolved
  <2>7. CASE GateShapeMotionQualityRegression
    <3>1. CASE UNCHANGED keys
      BY <2>7, <3>1 DEF GateShapeMotionQualityRegression
    <3>2. CASE ~UNCHANGED keys
      <4>1. PICK sourceKeys \in KeyCounts :
              keys' \in {Noted(keys, "other"),
                        [Noted(keys, "other") EXCEPT !.count = sourceKeys]}
        BY <2>7, <3>2 DEF GateShapeMotionQualityRegression
      <4>2. [Noted(keys, "other") EXCEPT !.count = sourceKeys] \in KeyList
        BY ConstantsAssumption, Noted(keys, "other") \in KeyList DEF KeyList
      <4> QED
        BY <2>7, <4>1, <4>2 DEF GateShapeMotionQualityRegression
    <3> QED
      BY <3>1, <3>2
  <2>8. CASE ReportPropertyTemporalSolveResult
    BY <2>8 DEF ReportPropertyTemporalSolveResult
  <2> QED
    BY <1>2, <2>1, <2>2, <2>3, <2>4, <2>5, <2>6, <2>7, <2>8
       DEF SolveTemporal
<1>3. CASE ProcessPostTemporalReplacement
  <2>1. CASE AcceptFastVertexPreference
    <3>1. [Noted(keys, "other") EXCEPT !.converged = TRUE] \in KeyList
      BY Noted(keys, "other") \in KeyList DEF KeyList
    <3> QED
      BY <2>1, <3>1 DEF AcceptFastVertexPreference
  <2>2. CASE BaselineCancelled
    BY <2>2 DEF BaselineCancelled
  <2>3. CASE SolveReplacementBaseline
    <3>1. PICK converged \in BOOLEAN, count \in KeyCounts, use \in BOOLEAN :
            baseline' = [use |-> use,
                         keys |-> [notes |-> {}, converged |-> converged,
                                   count |-> count]]
      BY <2>3, BaselineStep, Zenon
    <3>2. [notes |-> {}, converged |-> converged, count |-> count] \in KeyList
      BY ConstantsAssumption DEF KeyList
    <3>3. UNCHANGED <<prep, keys, accepted, fast, retries>>
      BY <2>3, BaselineStep, Zenon
    <3> QED
      BY <3>1, <3>2, <3>3
  <2>4. CASE RetryFails
    BY <2>4, ConstantsAssumption DEF RetryFails
  <2>5. CASE RetryCancelled
    BY <2>5 DEF RetryCancelled
  <2>6. CASE RetryAccepted
    <3>1. keys' \in KeyList
      BY <2>6, ConstantsAssumption DEF RetryAccepted, KeyList, NoteWords
    <3> QED
      BY <2>6, <3>1 DEF RetryAccepted
  <2>7. CASE RetryLadderEnds
    BY <2>7 DEF RetryLadderEnds
  <2>8. CASE ApplyReplacementInitialOrFallbackDecision
    <3>1. [keys EXCEPT !.converged = TRUE, !.notes = @ \cup {"other"}] \in KeyList
      BY DEF KeyList, NoteWords
    <3>2. Noted(baseline.keys, "other") \in KeyList
      OBVIOUS
    <3> QED
      BY <2>8, <3>1, <3>2 DEF ApplyReplacementInitialOrFallbackDecision
  <2> QED
    BY <1>3, <2>1, <2>2, <2>3, <2>4, <2>5, <2>6, <2>7, <2>8
       DEF ProcessPostTemporalReplacement
<1>4. CASE CompleteSolvedProperty
  <2>1. CASE SkipPostSolveVertexReduction
    BY <2>1 DEF SkipPostSolveVertexReduction
  <2>2. CASE PostSolveVertexReductionCancelled
    BY <2>2 DEF PostSolveVertexReductionCancelled
  <2>3. CASE TryPostSolvePathVertexReduction
    BY <2>3 DEF TryPostSolvePathVertexReduction
  <2>4. CASE CleanUpStaticKeys
    <3>1. PICK c \in KeyCounts \cup {keys.count} :
            keys' \in {[keys EXCEPT !.count = c],
                      Noted([keys EXCEPT !.count = c], "other")}
      BY <2>4 DEF CleanUpStaticKeys
    <3>2. [keys EXCEPT !.count = c] \in KeyList
      BY ConstantsAssumption DEF KeyList
    <3> QED
      BY <2>4, <3>1, <3>2 DEF CleanUpStaticKeys
  <2>5. CASE SkipTemporalRefit
    BY <2>5 DEF SkipTemporalRefit
  <2>6. CASE TemporalRefitCancelled
    BY <2>6 DEF TemporalRefitCancelled
  <2>7. CASE TryTemporalRefitKeyReduction
    <3>1. \A c \in KeyCounts :
            [notes |-> {"other"}, converged |-> TRUE, count |-> c] \in KeyList
      BY ConstantsAssumption DEF KeyList, NoteWords
    <3> QED
      BY <2>7, <3>1 DEF TryTemporalRefitKeyReduction
  <2>8. CASE AccuracyGateOptimizationNote
    BY <2>8 DEF AccuracyGateOptimizationNote
  <2>9. CASE AppendWithoutLandmarks
    BY <2>9, EmptyProperty, AppendsClear
  <2>10. CASE AppendWithLandmarks
    BY <2>10, EmptyProperty, AppendsClear
  <2> QED
    BY <1>4, <2>1, <2>2, <2>3, <2>4, <2>5, <2>6, <2>7, <2>8, <2>9, <2>10
       DEF CompleteSolvedProperty
<1>5. CASE Ending
  BY <1>5 DEF Ending, EmitSolveCancelledLifecycle, WriteCancelledPartial,
     WriteCompletedOutput, EmitDoneProgress, EmitDoneDiagnostics
<1>6. CASE Failure
  BY <1>6 DEF Failure, RejectUsage, InputThrows, ProgressThrows,
     DiagnosticsThrows, OpenOutputThrows, Throws
<1>7. CASE Host
  BY <1>7 DEF Host, HostCreatesCancelFile, HostWithdrawsCancelFile
<1>8. CASE UNCHANGED vars
  BY <1>8 DEF vars
<1> QED
  BY <1>1, <1>2, <1>3, <1>4, <1>5, <1>6, <1>7, <1>8 DEF Next, RunSolve

(***************************************************************************)
(* The bundle and the output file.                                         *)
(***************************************************************************)

\* Appending the group of property idx keeps the results in order.
LEMMA AppendGroupStep ==
  ASSUME NEW group \in ResultGroup, group.property = idx,
         ControlOK, LoopInv, BundleOK, OutputInv,
         pc = "append", AppendGroup(group)
  PROVE  BundleOK' /\ OutputInv'
<1>1. /\ results' = Append(results, group) /\ idx' = idx + 1
      /\ totalKeys' = totalKeys + TotalWithSubpaths(group)
      /\ pc' = "loop" /\ UNCHANGED <<exit, file, diag>>
  BY DEF AppendGroup
<1>2. TotalWithSubpaths(group) \in Nat
  BY DEF TotalWithSubpaths, ResultGroup, KeyList
<1>3. BundleOK'
  BY <1>1, <1>2 DEF BundleOK
<1>4. ResultsInOrder'
  <2>1. results \in Seq(ResultGroup) /\ Len(results) = idx
    BY DEF BundleOK, OutputInv, ResultsInOrder
  <2>2. Len(results') = idx' /\ results'[Len(results')] = group
        /\ \A j \in 1..Len(results) : results'[j] = results[j]
    BY <1>1, <2>1
  <2> QED
    BY <1>1, <2>1, <2>2 DEF OutputInv, ResultsInOrder
<1>5. exit = Running /\ file = NoFile
  BY DEF LoopInv, OutputInv, AfterWrite
<1> QED
  BY <1>1, <1>3, <1>4, <1>5 DEF OutputInv, AfterWrite, Running

\* Marking a bundle as cancelled marks every result and moves none.
LEMMA MarkingKeepsOrder ==
  ASSUME BundleOK, MarkCancelledPartial
  PROVE  /\ results' \in Seq(ResultGroup) /\ Len(results') = Len(results)
         /\ \A j \in 1..Len(results) :
              results'[j].property = results[j].property
              /\ MarkedCancelled(results'[j])
<1> DEFINE Mark(group) == [group EXCEPT !.keys = Marked(@)]
<1>1. results \in Seq(ResultGroup)
  BY DEF BundleOK
<1>2. results' = [j \in 1..Len(results) |-> Mark(results[j])]
  BY <1>1 DEF MarkCancelledPartial
<1>3. ASSUME NEW k \in KeyList
      PROVE  Marked(k) \in KeyList /\ "cancelled" \in Marked(k).notes
             /\ ~Marked(k).converged
  <2>1. Noted(k, "cancelled") \in KeyList
        /\ Noted(k, "cancelled").notes = k.notes \cup {"cancelled"}
    BY NotedType DEF NoteWords
  <2> QED
    BY <2>1 DEF Marked, KeyList
<1>4. ASSUME NEW group \in ResultGroup
      PROVE  /\ Mark(group) \in ResultGroup
             /\ Mark(group).property = group.property
             /\ MarkedCancelled(Mark(group))
  <2>1. group.keys \in KeyList
    BY DEF ResultGroup
  <2>2. Mark(group).keys = Marked(group.keys)
    BY DEF ResultGroup
  <2>3. Mark(group) \in ResultGroup /\ Mark(group).property = group.property
    BY <2>1, <1>3 DEF ResultGroup
  <2> QED
    BY <2>1, <2>2, <2>3, <1>3 DEF MarkedCancelled
<1> HIDE DEF Mark
<1>5. \A j \in 1..Len(results) : results[j] \in ResultGroup
  BY <1>1
<1>6. results' \in Seq(ResultGroup) /\ Len(results') = Len(results)
      /\ \A j \in 1..Len(results) : results'[j] = Mark(results[j])
  BY <1>1, <1>2, <1>4, <1>5
<1> QED
  BY <1>4, <1>5, <1>6

\* What the exit code says about the output, and the results' order, survive
\* every step.
LEMMA OutputStep ==
  ASSUME ControlOK, LoopInv, PropertyOK, BundleOK, OutputInv, [Next]_vars
  PROVE  BundleOK' /\ OutputInv'
<1>9. ASSUME UNCHANGED <<results, idx>> PROVE ResultsInOrder'
  BY <1>9 DEF OutputInv, ResultsInOrder
<1>10. ASSUME UNCHANGED <<results, idx, totalKeys, file, exit>>,
              pc' # "exited", pc' \notin AfterWrite, pc \notin AfterWrite,
              pc # "exited", "solve_done" \in diag' => "solve_done" \in diag
       PROVE  BundleOK' /\ OutputInv'
  <2>1. exit = Running
    BY <1>10 DEF LoopInv
  <2> QED
    BY <1>9, <1>10, <2>1 DEF BundleOK, OutputInv, Running
<1>11. ASSUME UNCHANGED <<results, idx, totalKeys, file, diag>>,
              pc # "exited", pc' = "exited", exit' = 1
       PROVE  BundleOK' /\ OutputInv'
  BY <1>9, <1>11 DEF BundleOK, OutputInv, AfterWrite
<1>1. CASE Startup
  <2>1. CASE AcceptArguments
    BY <2>1, <1>10 DEF AcceptArguments, Goto, AfterWrite, bundleVars,
       propertyVars
  <2>2. CASE ParseSolveCommandConfig
    BY <2>2, <1>10 DEF ParseSolveCommandConfig, Goto, AfterWrite, bundleVars,
       propertyVars
  <2>3. CASE EmitSolveStartLifecycle
    BY <2>3, <1>10 DEF EmitSolveStartLifecycle, Goto, AfterWrite, bundleVars,
       propertyVars
  <2> QED
    BY <1>1, <2>1, <2>2, <2>3
       DEF Startup
<1>2. CASE SolveTemporal
  <2>1. CASE LoopTop
    BY <2>1, <1>10 DEF LoopTop, Goto, AfterWrite, bundleVars,
       propertyVars
  <2>2. CASE LoopEnds
    BY <2>2, <1>10 DEF LoopEnds, Goto, AfterWrite, bundleVars,
       propertyVars
  <2>3. CASE PreparePathSolveInputs
    BY <2>3, <1>10 DEF PreparePathSolveInputs, Goto, AfterWrite, bundleVars,
       propertyVars
  <2>4. CASE PreparePropertyTemporalPrelude
    BY <2>4, <1>10 DEF PreparePropertyTemporalPrelude, Goto, AfterWrite,
       bundleVars,
       propertyVars
  <2>5. CASE RouteCancelled
    BY <2>5, <1>10 DEF RouteCancelled, Goto, AfterWrite, bundleVars,
       propertyVars
  <2>6. CASE RouteSolved
    BY <2>6, <1>10 DEF RouteSolved, Goto, AfterWrite, bundleVars,
       propertyVars
  <2>7. CASE GateShapeMotionQualityRegression
    BY <2>7, <1>10 DEF GateShapeMotionQualityRegression, Goto, AfterWrite,
       bundleVars,
       propertyVars
  <2>8. CASE ReportPropertyTemporalSolveResult
    BY <2>8, <1>10 DEF ReportPropertyTemporalSolveResult, Goto, AfterWrite,
       bundleVars,
       propertyVars
  <2> QED
    BY <1>2, <2>1, <2>2, <2>3, <2>4, <2>5, <2>6, <2>7, <2>8
       DEF SolveTemporal
<1>3. CASE ProcessPostTemporalReplacement
  <2>1. CASE AcceptFastVertexPreference
    BY <2>1, <1>10 DEF AcceptFastVertexPreference, Goto, AfterWrite,
       bundleVars,
       propertyVars
  <2>2. CASE BaselineCancelled
    BY <2>2, <1>10 DEF BaselineCancelled, Goto, AfterWrite, bundleVars,
       propertyVars
  <2>3. CASE SolveReplacementBaseline
    BY <2>3, <1>10 DEF SolveReplacementBaseline, Goto, AfterWrite, bundleVars,
       propertyVars
  <2>4. CASE RetryFails
    BY <2>4, <1>10 DEF RetryFails, Goto, AfterWrite, bundleVars,
       propertyVars
  <2>5. CASE RetryCancelled
    BY <2>5, <1>10 DEF RetryCancelled, Goto, AfterWrite, bundleVars,
       propertyVars
  <2>6. CASE RetryAccepted
    BY <2>6, <1>10 DEF RetryAccepted, Goto, AfterWrite, bundleVars,
       propertyVars
  <2>7. CASE RetryLadderEnds
    BY <2>7, <1>10 DEF RetryLadderEnds, Goto, AfterWrite, bundleVars,
       propertyVars
  <2>8. CASE ApplyReplacementInitialOrFallbackDecision
    BY <2>8, <1>10 DEF ApplyReplacementInitialOrFallbackDecision, Goto,
       AfterWrite, bundleVars,
       propertyVars
  <2> QED
    BY <1>3, <2>1, <2>2, <2>3, <2>4, <2>5, <2>6, <2>7, <2>8
       DEF ProcessPostTemporalReplacement
<1>4. CASE CompleteSolvedProperty
  <2>1. CASE SkipPostSolveVertexReduction
    BY <2>1, <1>10 DEF SkipPostSolveVertexReduction, Goto, AfterWrite,
       bundleVars,
       propertyVars
  <2>2. CASE PostSolveVertexReductionCancelled
    BY <2>2, <1>10 DEF PostSolveVertexReductionCancelled, Goto, AfterWrite,
       bundleVars,
       propertyVars
  <2>3. CASE TryPostSolvePathVertexReduction
    BY <2>3, <1>10 DEF TryPostSolvePathVertexReduction, Goto, AfterWrite,
       bundleVars,
       propertyVars
  <2>4. CASE CleanUpStaticKeys
    BY <2>4, <1>10 DEF CleanUpStaticKeys, Goto, AfterWrite, bundleVars,
       propertyVars
  <2>5. CASE SkipTemporalRefit
    BY <2>5, <1>10 DEF SkipTemporalRefit, Goto, AfterWrite, bundleVars,
       propertyVars
  <2>6. CASE TemporalRefitCancelled
    BY <2>6, <1>10 DEF TemporalRefitCancelled, Goto, AfterWrite, bundleVars,
       propertyVars
  <2>7. CASE TryTemporalRefitKeyReduction
    BY <2>7, <1>10 DEF TryTemporalRefitKeyReduction, Goto, AfterWrite,
       bundleVars,
       propertyVars
  <2>8. CASE AccuracyGateOptimizationNote
    BY <2>8, <1>10 DEF AccuracyGateOptimizationNote, Goto, AfterWrite,
       bundleVars,
       propertyVars
  <2>9. CASE AppendWithoutLandmarks
    <3>1. Group(0, 0) \in ResultGroup /\ Group(0, 0).property = idx
      BY DEF Group, ResultGroup, ControlOK, PropertyOK
    <3>2. AppendGroup(Group(0, 0)) /\ pc = "append"
      BY <2>9 DEF AppendWithoutLandmarks
    <3> QED
      BY <3>1, <3>2, AppendGroupStep
  <2>10. CASE AppendWithLandmarks
    <3>1. PICK subpaths \in SubpathCounts \cup {0}, each \in KeyCounts :
            AppendGroup(Group(subpaths, subpaths * each))
      BY <2>10 DEF AppendWithLandmarks
    <3>2. subpaths \in Nat /\ subpaths * each \in Nat
      BY ConstantsAssumption
    <3>3. Noted(keys, "other") \in KeyList
      BY NotedType DEF NoteWords, PropertyOK
    <3>4. Group(subpaths, subpaths * each) \in ResultGroup
          /\ Group(subpaths, subpaths * each).property = idx
      BY <3>2, <3>3 DEF Group, ResultGroup, ControlOK, PropertyOK
    <3>5. pc = "append"
      BY <2>10 DEF AppendWithLandmarks
    <3> QED
      BY <3>1, <3>4, <3>5, AppendGroupStep
  <2> QED
    BY <1>4, <2>1, <2>2, <2>3, <2>4, <2>5, <2>6, <2>7, <2>8, <2>9, <2>10
       DEF CompleteSolvedProperty
<1>5. CASE Ending
  <2>1. CASE EmitSolveCancelledLifecycle
    BY <2>1, <1>10 DEF EmitSolveCancelledLifecycle, Goto, AfterWrite,
       bundleVars,
       propertyVars
  <2>2. CASE WriteCancelledPartial
    <3>1. results' \in Seq(ResultGroup) /\ Len(results') = Len(results)
          /\ \A j \in 1..Len(results) :
               results'[j].property = results[j].property
               /\ MarkedCancelled(results'[j])
      BY <2>2, MarkingKeepsOrder DEF WriteCancelledPartial
    <3>2. ResultsInOrder'
      BY <2>2, <3>1 DEF WriteCancelledPartial, OutputInv, ResultsInOrder,
         Exit
    <3>3. PICK whole \in BOOLEAN :
            /\ file' = [kind |-> "partial", whole |-> whole,
                        results |-> results', totalKeys |-> totalKeys]
            /\ "write" \notin Faults => whole
      BY <2>2 DEF WriteCancelledPartial, WriteKeyBundleJson
    <3>4. BundleOK' /\ totalKeys' = totalKeys
      BY <2>2, <3>1, <3>3 DEF WriteCancelledPartial, BundleOK
    <3>5. PartialOutput'
      BY <3>1, <3>3 DEF PartialOutput
    <3> QED
      BY <2>2, <3>2, <3>4, <3>5
         DEF WriteCancelledPartial, OutputInv, Exit, AfterWrite
  <2>3. CASE WriteCompletedOutput
    <3>1. PICK whole \in BOOLEAN :
            /\ file' = [kind |-> "complete", whole |-> whole,
                        results |-> results, totalKeys |-> totalKeys]
            /\ "write" \notin Faults => whole
      BY <2>3 DEF WriteCompletedOutput, WriteKeyBundleJson
    <3>2. /\ UNCHANGED <<results, totalKeys, idx, exit, diag>>
          /\ pc = "write" /\ pc' = "doneProgress"
      BY <2>3 DEF WriteCompletedOutput, Goto, bundleVars
    <3>3. BundleOK'
      BY <3>1, <3>2 DEF BundleOK
    <3>4. idx = N /\ exit = Running
      BY <2>3 DEF WriteCompletedOutput, LoopInv
    <3>5. CompleteOutput'
      BY <3>1, <3>2, <3>4 DEF CompleteOutput
    <3> QED
      BY <3>2, <3>3, <3>4, <3>5, <1>9
         DEF OutputInv, AfterWrite, Running
  <2>4. CASE EmitDoneProgress
    BY <2>4, <1>9 DEF EmitDoneProgress, Goto, bundleVars, BundleOK, OutputInv,
       CompleteOutput, AfterWrite, LoopInv, Running
  <2>5. CASE EmitDoneDiagnostics
    BY <2>5, <1>9 DEF EmitDoneDiagnostics, Exit, bundleVars, BundleOK,
       OutputInv,
       CompleteOutput, AfterWrite
  <2> QED
    BY <1>5, <2>1, <2>2, <2>3, <2>4, <2>5
       DEF Ending
<1>6. CASE Failure
  <2>1. CASE RejectUsage
    BY <2>1, <1>9 DEF RejectUsage, Exit, bundleVars, BundleOK,
       OutputInv, AfterWrite
  <2>2. CASE InputThrows
    BY <2>2, <1>11 DEF InputThrows, Throws, Exit, bundleVars
  <2>3. CASE ProgressThrows
    BY <2>3, <1>11 DEF ProgressThrows, Throws, Exit, bundleVars
  <2>4. CASE DiagnosticsThrows
    BY <2>4, <1>11 DEF DiagnosticsThrows, Throws, Exit, bundleVars
  <2>5. CASE OpenOutputThrows
    BY <2>5, <1>11 DEF OpenOutputThrows, Throws, Exit, bundleVars
  <2> QED
    BY <1>6, <2>1, <2>2, <2>3, <2>4, <2>5
       DEF Failure
<1>7. CASE Host
  <2>1. CASE HostCreatesCancelFile
    BY <2>1, <1>9 DEF HostCreatesCancelFile, jobVars, bundleVars, BundleOK,
       OutputInv, CompleteOutput, Running
  <2>2. CASE HostWithdrawsCancelFile
    BY <2>2, <1>9 DEF HostWithdrawsCancelFile, jobVars, bundleVars, BundleOK,
       OutputInv, CompleteOutput, Running
  <2> QED
    BY <1>7, <2>1, <2>2
       DEF Host
<1>8. CASE UNCHANGED vars
  BY <1>8 DEF vars, BundleOK, OutputInv, ResultsInOrder, CompleteOutput,
     PartialOutput
<1> QED
  BY <1>1, <1>2, <1>3, <1>4, <1>5, <1>6, <1>7, <1>8 DEF Next, RunSolve

(***************************************************************************)
(* The replacement decision.                                               *)
(***************************************************************************)

\* A candidate is accepted by comparison, or the baseline itself is used; the
\* stages that follow only remove keys.
LEMMA DecisionStep ==
  ASSUME PropertyOK, DecisionInv, [Next]_vars
  PROVE  DecisionInv'
<1>9. \A k \in KeyList : Noted(k, "other").count = k.count
  BY NotedType DEF NoteWords
<1>10. keys \in KeyList /\ baseline.keys \in KeyList
       /\ keys.count \in Nat /\ baseline.keys.count \in Nat
  BY DEF PropertyOK, KeyList
<1> USE <1>9, <1>10 DEF DecisionInv, ReplacementNeverAddsKeys, Goto, Exit,
        propertyVars, jobVars
<1>1. CASE Startup
  BY <1>1 DEF Startup, AcceptArguments, ParseSolveCommandConfig,
     EmitSolveStartLifecycle
<1>2. CASE SolveTemporal
  <2>1. CASE LoopTop
    BY <2>1 DEF LoopTop
  <2>2. CASE LoopEnds
    BY <2>2 DEF LoopEnds
  <2>3. CASE PreparePathSolveInputs
    BY <2>3 DEF PreparePathSolveInputs
  <2>4. CASE PreparePropertyTemporalPrelude
    BY <2>4 DEF PreparePropertyTemporalPrelude
  <2>5. CASE RouteCancelled
    BY <2>5 DEF RouteCancelled
  <2>6. CASE RouteSolved
    BY <2>6 DEF RouteSolved
  <2>7. CASE GateShapeMotionQualityRegression
    BY <2>7 DEF GateShapeMotionQualityRegression
  <2>8. CASE ReportPropertyTemporalSolveResult
    BY <2>8 DEF ReportPropertyTemporalSolveResult
  <2> QED
    BY <1>2, <2>1, <2>2, <2>3, <2>4, <2>5, <2>6, <2>7, <2>8
       DEF SolveTemporal
<1>3. CASE ProcessPostTemporalReplacement
  <2>1. CASE AcceptFastVertexPreference
    BY <2>1 DEF AcceptFastVertexPreference
  <2>2. CASE BaselineCancelled
    BY <2>2 DEF BaselineCancelled
  <2>3. CASE SolveReplacementBaseline
    <3>1. PICK converged \in BOOLEAN, count \in KeyCounts, use \in BOOLEAN :
            /\ baseline' = [use |-> use,
                            keys |-> [notes |-> {}, converged |-> converged,
                                      count |-> count]]
            /\ use => UseCandidate(keys, baseline'.keys)
            /\ pc' = "decide" \/ (pc' = "retry" /\ ~use)
      BY <2>3, BaselineStep, Zenon
    <3>2. UNCHANGED <<keys, prep, fast>>
      BY <2>3, BaselineStep, Zenon
    <3> QED
      BY <3>1, <3>2 DEF UseCandidate
  <2>4. CASE RetryFails
    BY <2>4 DEF RetryFails
  <2>5. CASE RetryCancelled
    BY <2>5 DEF RetryCancelled
  <2>6. CASE RetryAccepted
    BY <2>6 DEF RetryAccepted, UseCandidate
  <2>7. CASE RetryLadderEnds
    BY <2>7 DEF RetryLadderEnds
  <2>8. CASE ApplyReplacementInitialOrFallbackDecision
    <3>1. keys'.count <= baseline.keys.count
      <4>1. CASE baseline.use
        BY <2>8, <4>1 DEF ApplyReplacementInitialOrFallbackDecision, KeyList
      <4>2. CASE ~baseline.use
        BY <2>8, <4>2 DEF ApplyReplacementInitialOrFallbackDecision
      <4> QED
        BY <4>1, <4>2
    <3> QED
      BY <2>8, <3>1 DEF ApplyReplacementInitialOrFallbackDecision
  <2> QED
    BY <1>3, <2>1, <2>2, <2>3, <2>4, <2>5, <2>6, <2>7, <2>8
       DEF ProcessPostTemporalReplacement
<1>4. CASE CompleteSolvedProperty
  <2>1. CASE SkipPostSolveVertexReduction
    BY <2>1 DEF SkipPostSolveVertexReduction
  <2>2. CASE PostSolveVertexReductionCancelled
    BY <2>2 DEF PostSolveVertexReductionCancelled
  <2>3. CASE TryPostSolvePathVertexReduction
    BY <2>3 DEF TryPostSolvePathVertexReduction
  <2>4. CASE CleanUpStaticKeys
    <3>1. PICK c \in KeyCounts \cup {keys.count} :
            /\ keys' \in {[keys EXCEPT !.count = c],
                         Noted([keys EXCEPT !.count = c], "other")}
            /\ c <= keys.count
      BY <2>4 DEF CleanUpStaticKeys
    <3>2. c \in Nat
      BY ConstantsAssumption
    <3>3. [keys EXCEPT !.count = c] \in KeyList
          /\ [keys EXCEPT !.count = c].count = c
      BY <3>2 DEF KeyList
    <3>4. keys'.count = c
      BY <3>1, <3>3
    <3> QED
      BY <2>4, <3>1, <3>2, <3>4 DEF CleanUpStaticKeys
  <2>5. CASE SkipTemporalRefit
    BY <2>5 DEF SkipTemporalRefit
  <2>6. CASE TemporalRefitCancelled
    BY <2>6 DEF TemporalRefitCancelled
  <2>7. CASE TryTemporalRefitKeyReduction
    <3>1. keys'.count \in Nat /\ keys'.count <= keys.count
      BY <2>7, ConstantsAssumption DEF TryTemporalRefitKeyReduction
    <3> QED
      BY <2>7, <3>1 DEF TryTemporalRefitKeyReduction
  <2>8. CASE AccuracyGateOptimizationNote
    BY <2>8 DEF AccuracyGateOptimizationNote
  <2>9. CASE AppendWithoutLandmarks
    BY <2>9 DEF AppendWithoutLandmarks, AppendGroup
  <2>10. CASE AppendWithLandmarks
    BY <2>10 DEF AppendWithLandmarks, AppendGroup
  <2> QED
    BY <1>4, <2>1, <2>2, <2>3, <2>4, <2>5, <2>6, <2>7, <2>8, <2>9, <2>10
       DEF CompleteSolvedProperty
<1>5. CASE Ending
  BY <1>5 DEF Ending, EmitSolveCancelledLifecycle, WriteCancelledPartial,
     WriteCompletedOutput, EmitDoneProgress, EmitDoneDiagnostics
<1>6. CASE Failure
  BY <1>6 DEF Failure, RejectUsage, InputThrows, ProgressThrows,
     DiagnosticsThrows, OpenOutputThrows, Throws
<1>7. CASE Host
  BY <1>7 DEF Host, HostCreatesCancelFile, HostWithdrawsCancelFile
<1>8. CASE UNCHANGED vars
  BY <1>8 DEF vars
<1> QED
  BY <1>1, <1>2, <1>3, <1>4, <1>5, <1>6, <1>7, <1>8 DEF Next, RunSolve

(***************************************************************************)
(* Cancellation.                                                           *)
(***************************************************************************)

\* No step begins a property while the cancel file is there, even when the
\* host may withdraw the file and create it again.
LEMMA BegunStep ==
  ASSUME ControlOK, NoPropertyBegunAfterCancel, [Next]_vars
  PROVE  NoPropertyBegunAfterCancel'
<1> USE DEF NoPropertyBegunAfterCancel, PropertyStages, ControlOK, Goto, Exit,
        hostVars, jobVars, CancelFileExists
<1>1. CASE Startup
  BY <1>1 DEF Startup, AcceptArguments, ParseSolveCommandConfig,
     EmitSolveStartLifecycle
<1>2. CASE SolveTemporal
  <2>1. CASE LoopTop
    BY <2>1 DEF LoopTop
  <2>2. CASE LoopEnds
    BY <2>2 DEF LoopEnds
  <2>3. CASE PreparePathSolveInputs
    BY <2>3 DEF PreparePathSolveInputs
  <2>4. CASE PreparePropertyTemporalPrelude
    BY <2>4 DEF PreparePropertyTemporalPrelude
  <2>5. CASE RouteCancelled
    BY <2>5 DEF RouteCancelled
  <2>6. CASE RouteSolved
    BY <2>6 DEF RouteSolved
  <2>7. CASE GateShapeMotionQualityRegression
    BY <2>7 DEF GateShapeMotionQualityRegression
  <2>8. CASE ReportPropertyTemporalSolveResult
    BY <2>8 DEF ReportPropertyTemporalSolveResult
  <2> QED
    BY <1>2, <2>1, <2>2, <2>3, <2>4, <2>5, <2>6, <2>7, <2>8
       DEF SolveTemporal
<1>3. CASE ProcessPostTemporalReplacement
  <2>1. CASE AcceptFastVertexPreference
    BY <2>1 DEF AcceptFastVertexPreference
  <2>2. CASE BaselineCancelled
    BY <2>2 DEF BaselineCancelled
  <2>3. CASE SolveReplacementBaseline
    BY <2>3 DEF SolveReplacementBaseline
  <2>4. CASE RetryFails
    BY <2>4 DEF RetryFails
  <2>5. CASE RetryCancelled
    BY <2>5 DEF RetryCancelled
  <2>6. CASE RetryAccepted
    BY <2>6 DEF RetryAccepted
  <2>7. CASE RetryLadderEnds
    BY <2>7 DEF RetryLadderEnds
  <2>8. CASE ApplyReplacementInitialOrFallbackDecision
    BY <2>8 DEF ApplyReplacementInitialOrFallbackDecision
  <2> QED
    BY <1>3, <2>1, <2>2, <2>3, <2>4, <2>5, <2>6, <2>7, <2>8
       DEF ProcessPostTemporalReplacement
<1>4. CASE CompleteSolvedProperty
  <2>1. CASE SkipPostSolveVertexReduction
    BY <2>1 DEF SkipPostSolveVertexReduction
  <2>2. CASE PostSolveVertexReductionCancelled
    BY <2>2 DEF PostSolveVertexReductionCancelled
  <2>3. CASE TryPostSolvePathVertexReduction
    BY <2>3 DEF TryPostSolvePathVertexReduction
  <2>4. CASE CleanUpStaticKeys
    BY <2>4 DEF CleanUpStaticKeys
  <2>5. CASE SkipTemporalRefit
    BY <2>5 DEF SkipTemporalRefit
  <2>6. CASE TemporalRefitCancelled
    BY <2>6 DEF TemporalRefitCancelled
  <2>7. CASE TryTemporalRefitKeyReduction
    BY <2>7 DEF TryTemporalRefitKeyReduction
  <2>8. CASE AccuracyGateOptimizationNote
    BY <2>8 DEF AccuracyGateOptimizationNote
  <2>9. CASE AppendWithoutLandmarks
    BY <2>9 DEF AppendWithoutLandmarks, AppendGroup
  <2>10. CASE AppendWithLandmarks
    BY <2>10 DEF AppendWithLandmarks, AppendGroup
  <2> QED
    BY <1>4, <2>1, <2>2, <2>3, <2>4, <2>5, <2>6, <2>7, <2>8, <2>9, <2>10
       DEF CompleteSolvedProperty
<1>5. CASE Ending
  BY <1>5 DEF Ending, EmitSolveCancelledLifecycle, WriteCancelledPartial,
     WriteCompletedOutput, EmitDoneProgress, EmitDoneDiagnostics
<1>6. CASE Failure
  BY <1>6 DEF Failure, RejectUsage, InputThrows, ProgressThrows,
     DiagnosticsThrows, OpenOutputThrows, Throws
<1>7. CASE Host
  <2>1. CASE HostCreatesCancelFile
    BY <2>1 DEF HostCreatesCancelFile
  <2>2. CASE HostWithdrawsCancelFile
    BY <2>2 DEF HostWithdrawsCancelFile
  <2> QED
    BY <1>7, <2>1, <2>2
       DEF Host
<1>8. CASE UNCHANGED vars
  BY <1>8 DEF vars
<1> QED
  BY <1>1, <1>2, <1>3, <1>4, <1>5, <1>6, <1>7, <1>8 DEF Next, RunSolve

\* If the host leaves the cancel file alone, a poll that found it stays right.
\* With the landmark stage off, it also puts the process on its way out.
LEMMA CancelStep ==
  ASSUME ~HostMayWithdraw, ControlOK, LoopInv, CancelInv, [Next]_vars
  PROVE  CancelInv'
<1> USE DEF CancelInv, LoopInv, ControlOK, Running, Goto, Exit, Polls,
        hostVars, jobVars, CancelFileExists, TemporalSolveCancelled
<1>1. CASE Startup
  <2>1. CASE AcceptArguments
    BY <2>1 DEF AcceptArguments
  <2>2. CASE ParseSolveCommandConfig
    BY <2>2 DEF ParseSolveCommandConfig
  <2>3. CASE EmitSolveStartLifecycle
    BY <2>3 DEF EmitSolveStartLifecycle
  <2> QED
    BY <1>1, <2>1, <2>2, <2>3
       DEF Startup
<1>2. CASE SolveTemporal
  <2>1. CASE LoopTop
    BY <2>1 DEF LoopTop
  <2>2. CASE LoopEnds
    BY <2>2 DEF LoopEnds
  <2>3. CASE PreparePathSolveInputs
    BY <2>3 DEF PreparePathSolveInputs
  <2>4. CASE PreparePropertyTemporalPrelude
    BY <2>4 DEF PreparePropertyTemporalPrelude
  <2>5. CASE RouteCancelled
    BY <2>5 DEF RouteCancelled
  <2>6. CASE RouteSolved
    BY <2>6 DEF RouteSolved
  <2>7. CASE GateShapeMotionQualityRegression
    BY <2>7 DEF GateShapeMotionQualityRegression
  <2>8. CASE ReportPropertyTemporalSolveResult
    BY <2>8 DEF ReportPropertyTemporalSolveResult
  <2> QED
    BY <1>2, <2>1, <2>2, <2>3, <2>4, <2>5, <2>6, <2>7, <2>8
       DEF SolveTemporal
<1>3. CASE ProcessPostTemporalReplacement
  <2>1. CASE AcceptFastVertexPreference
    BY <2>1 DEF AcceptFastVertexPreference
  <2>2. CASE BaselineCancelled
    BY <2>2 DEF BaselineCancelled
  <2>3. CASE SolveReplacementBaseline
    BY <2>3 DEF SolveReplacementBaseline
  <2>4. CASE RetryFails
    BY <2>4 DEF RetryFails
  <2>5. CASE RetryCancelled
    BY <2>5 DEF RetryCancelled
  <2>6. CASE RetryAccepted
    BY <2>6 DEF RetryAccepted
  <2>7. CASE RetryLadderEnds
    BY <2>7 DEF RetryLadderEnds
  <2>8. CASE ApplyReplacementInitialOrFallbackDecision
    BY <2>8 DEF ApplyReplacementInitialOrFallbackDecision
  <2> QED
    BY <1>3, <2>1, <2>2, <2>3, <2>4, <2>5, <2>6, <2>7, <2>8
       DEF ProcessPostTemporalReplacement
<1>4. CASE CompleteSolvedProperty
  <2>1. CASE SkipPostSolveVertexReduction
    BY <2>1 DEF SkipPostSolveVertexReduction
  <2>2. CASE PostSolveVertexReductionCancelled
    BY <2>2 DEF PostSolveVertexReductionCancelled
  <2>3. CASE TryPostSolvePathVertexReduction
    BY <2>3 DEF TryPostSolvePathVertexReduction
  <2>4. CASE CleanUpStaticKeys
    BY <2>4 DEF CleanUpStaticKeys
  <2>5. CASE SkipTemporalRefit
    BY <2>5 DEF SkipTemporalRefit
  <2>6. CASE TemporalRefitCancelled
    BY <2>6 DEF TemporalRefitCancelled
  <2>7. CASE TryTemporalRefitKeyReduction
    BY <2>7 DEF TryTemporalRefitKeyReduction
  <2>8. CASE AccuracyGateOptimizationNote
    BY <2>8 DEF AccuracyGateOptimizationNote
  <2>9. CASE AppendWithoutLandmarks
    BY <2>9 DEF AppendWithoutLandmarks, AppendGroup
  <2>10. CASE AppendWithLandmarks
    BY <2>10 DEF AppendWithLandmarks, AppendGroup, EmitsLandmarks
  <2> QED
    BY <1>4, <2>1, <2>2, <2>3, <2>4, <2>5, <2>6, <2>7, <2>8, <2>9, <2>10
       DEF CompleteSolvedProperty
<1>5. CASE Ending
  <2>1. CASE EmitSolveCancelledLifecycle
    BY <2>1 DEF EmitSolveCancelledLifecycle
  <2>2. CASE WriteCancelledPartial
    BY <2>2 DEF WriteCancelledPartial
  <2>3. CASE WriteCompletedOutput
    BY <2>3 DEF WriteCompletedOutput
  <2>4. CASE EmitDoneProgress
    BY <2>4 DEF EmitDoneProgress
  <2>5. CASE EmitDoneDiagnostics
    BY <2>5 DEF EmitDoneDiagnostics
  <2> QED
    BY <1>5, <2>1, <2>2, <2>3, <2>4, <2>5
       DEF Ending
<1>6. CASE Failure
  BY <1>6 DEF Failure, RejectUsage, InputThrows, ProgressThrows,
     DiagnosticsThrows, OpenOutputThrows, Throws
<1>7. CASE Host
  <2>1. CASE HostCreatesCancelFile
    BY <2>1 DEF HostCreatesCancelFile
  <2>2. CASE HostWithdrawsCancelFile
    BY <2>2 DEF HostWithdrawsCancelFile
  <2> QED
    BY <1>7, <2>1, <2>2
       DEF Host
<1>8. CASE UNCHANGED vars
  BY <1>8 DEF vars
<1> QED
  BY <1>1, <1>2, <1>3, <1>4, <1>5, <1>6, <1>7, <1>8 DEF Next, RunSolve

\* Adding another note, or changing the verdict or the length, neither writes
\* the word of a cancelled solve nor removes it.
LEMMA OtherNotesKeepTheWord ==
  ASSUME NEW k \in KeyList
  PROVE  /\ "cancelled" \in Noted(k, "other").notes
              <=> "cancelled" \in k.notes
         /\ \A c : "cancelled" \in [Noted(k, "other") EXCEPT !.count = c].notes
                     <=> "cancelled" \in k.notes
         /\ \A c : [k EXCEPT !.count = c].notes = k.notes
         /\ "cancelled" \in [Noted(k, "other") EXCEPT !.converged = TRUE].notes
              <=> "cancelled" \in k.notes
         /\ "cancelled" \in [k EXCEPT !.converged = TRUE,
                                      !.notes = @ \cup {"other"}].notes
              <=> "cancelled" \in k.notes
BY DEF KeyList, Noted

\* A step that leaves the results and the output alone, and writes no word of
\* a cancelled solve outside the two stages after the solve, keeps the notes.
LEMMA QuietNotes ==
  ASSUME ~HostMayWithdraw, NotesInv,
         UNCHANGED <<results, file>>,
         cancelFile => cancelFile',
         "cancelled" \notin baseline'.keys.notes,
         "cancelled" \in keys'.notes =>
           /\ cancelFile'
           /\ pc' \in {"gate", "report", "cancelDiagnostics", "cancelWrite",
                       "exited"}
  PROVE  NotesInv'
BY DEF NotesInv

\* If the host leaves the cancel file alone, the report after a solve finds it
\* whenever the solve did: its key list goes no further.
LEMMA NotesStep ==
  ASSUME ~HostMayWithdraw, Inv, NotesInv, [Next]_vars
  PROVE  NotesInv'
<1>0. /\ keys \in KeyList /\ baseline.keys \in KeyList
      /\ results \in Seq(ResultGroup)
  BY DEF Inv, TypeOK, PropertyOK, BundleOK
<1> DEFINE AfterSolve == {"gate", "report", "cancelDiagnostics", "cancelWrite",
                          "exited"}
           CleanResults == \A j \in 1..Len(results) :
                             "cancelled" \notin results[j].keys.notes
<1>9. /\ "cancelled" \in keys.notes => cancelFile /\ pc \in AfterSolve
      /\ "cancelled" \notin baseline.keys.notes
  BY DEF NotesInv
<1> USE DEF propertyVars, bundleVars, hostVars, jobVars, Goto, Exit,
        CancelFileExists
<1>1. CASE Startup
  BY <1>1, <1>9, QuietNotes
     DEF Startup, AcceptArguments, ParseSolveCommandConfig,
         EmitSolveStartLifecycle
<1>2. CASE SolveTemporal
  <2>1. CASE LoopTop
    BY <2>1, <1>9, QuietNotes DEF LoopTop
  <2>2. CASE LoopEnds
    BY <2>2, <1>9, QuietNotes DEF LoopEnds
  <2>3. CASE PreparePathSolveInputs
    BY <2>3, <1>9, QuietNotes DEF PreparePathSolveInputs
  <2>4. CASE PreparePropertyTemporalPrelude
    BY <2>4, <1>9, QuietNotes DEF PreparePropertyTemporalPrelude
  <2>5. CASE RouteCancelled
    BY <2>5, <1>9, QuietNotes DEF RouteCancelled
  <2>6. CASE RouteSolved
    <3>1. PICK k \in [notes : {{}, {"other"}}, converged : BOOLEAN,
                      count : KeyCounts] :
            keys' = ApplyFinalStaticTrimNote(k)
      BY <2>6 DEF RouteSolved
    <3>2. k \in KeyList /\ "cancelled" \notin k.notes
      BY ConstantsAssumption DEF KeyList, NoteWords
    <3>3. "cancelled" \notin keys'.notes
      BY <3>1, <3>2, OtherNotesKeepTheWord DEF ApplyFinalStaticTrimNote
    <3> QED
      BY <2>6, <3>3, <1>9, QuietNotes DEF RouteSolved
  <2>7. CASE GateShapeMotionQualityRegression
    <3>1. "cancelled" \in keys'.notes => "cancelled" \in keys.notes
      BY <2>7, <1>0, OtherNotesKeepTheWord
         DEF GateShapeMotionQualityRegression
    <3> QED
      BY <2>7, <3>1, <1>9, QuietNotes DEF GateShapeMotionQualityRegression
  <2>8. CASE ReportPropertyTemporalSolveResult
    <3>1. "cancelled" \in keys.notes => pc' = "cancelDiagnostics"
      BY <2>8, <1>9
         DEF ReportPropertyTemporalSolveResult, TemporalSolveCancelled
    <3> QED
      BY <2>8, <3>1, <1>9, QuietNotes DEF ReportPropertyTemporalSolveResult
  <2> QED
    BY <1>2, <2>1, <2>2, <2>3, <2>4, <2>5, <2>6, <2>7, <2>8
       DEF SolveTemporal
<1>3. CASE ProcessPostTemporalReplacement
  <2>1. CASE AcceptFastVertexPreference
    <3>1. "cancelled" \notin keys'.notes
      BY <2>1, <1>0, <1>9, OtherNotesKeepTheWord
         DEF AcceptFastVertexPreference
    <3> QED
      BY <2>1, <3>1, <1>9, QuietNotes DEF AcceptFastVertexPreference
  <2>2. CASE BaselineCancelled
    BY <2>2, <1>9, QuietNotes DEF BaselineCancelled
  <2>3. CASE SolveReplacementBaseline
    BY <2>3, <1>9, QuietNotes DEF SolveReplacementBaseline
  <2>4. CASE RetryFails
    BY <2>4, <1>9, QuietNotes DEF RetryFails
  <2>5. CASE RetryCancelled
    BY <2>5, <1>9, QuietNotes DEF RetryCancelled
  <2>6. CASE RetryAccepted
    BY <2>6, <1>9, QuietNotes DEF RetryAccepted
  <2>7. CASE RetryLadderEnds
    BY <2>7, <1>9, QuietNotes DEF RetryLadderEnds
  <2>8. CASE ApplyReplacementInitialOrFallbackDecision
    <3>1. "cancelled" \notin keys'.notes
      BY <2>8, <1>0, <1>9, OtherNotesKeepTheWord
         DEF ApplyReplacementInitialOrFallbackDecision
    <3> QED
      BY <2>8, <3>1, <1>9, QuietNotes
         DEF ApplyReplacementInitialOrFallbackDecision
  <2> QED
    BY <1>3, <2>1, <2>2, <2>3, <2>4, <2>5, <2>6, <2>7, <2>8
       DEF ProcessPostTemporalReplacement
<1>4. CASE CompleteSolvedProperty
  <2>1. CASE SkipPostSolveVertexReduction
    BY <2>1, <1>9, QuietNotes DEF SkipPostSolveVertexReduction
  <2>2. CASE PostSolveVertexReductionCancelled
    BY <2>2, <1>9, QuietNotes DEF PostSolveVertexReductionCancelled
  <2>3. CASE TryPostSolvePathVertexReduction
    <3>1. "cancelled" \notin keys'.notes
      BY <2>3, <1>0, <1>9, OtherNotesKeepTheWord
         DEF TryPostSolvePathVertexReduction
    <3> QED
      BY <2>3, <3>1, <1>9, QuietNotes DEF TryPostSolvePathVertexReduction
  <2>4. CASE CleanUpStaticKeys
    <3>1. PICK c \in KeyCounts \cup {keys.count} :
            keys' \in {[keys EXCEPT !.count = c],
                       Noted([keys EXCEPT !.count = c], "other")}
      BY <2>4 DEF CleanUpStaticKeys
    <3>2. [keys EXCEPT !.count = c] \in KeyList
          /\ [keys EXCEPT !.count = c].notes = keys.notes
      BY <1>0, ConstantsAssumption DEF KeyList
    <3>3. "cancelled" \notin keys'.notes
      BY <2>4, <3>1, <3>2, <1>9, OtherNotesKeepTheWord, ZenonT(30) DEF CleanUpStaticKeys
    <3> QED
      BY <2>4, <3>3, <1>9, QuietNotes DEF CleanUpStaticKeys
  <2>5. CASE SkipTemporalRefit
    BY <2>5, <1>9, QuietNotes DEF SkipTemporalRefit
  <2>6. CASE TemporalRefitCancelled
    BY <2>6, <1>9, QuietNotes DEF TemporalRefitCancelled
  <2>7. CASE TryTemporalRefitKeyReduction
    <3>1. "cancelled" \notin keys'.notes
      BY <2>7, <1>0, <1>9, OtherNotesKeepTheWord
         DEF TryTemporalRefitKeyReduction
    <3> QED
      BY <2>7, <3>1, <1>9, QuietNotes DEF TryTemporalRefitKeyReduction
  <2>8. CASE AccuracyGateOptimizationNote
    <3>1. "cancelled" \notin keys'.notes
      BY <2>8, <1>0, <1>9, OtherNotesKeepTheWord
         DEF AccuracyGateOptimizationNote
    <3> QED
      BY <2>8, <3>1, <1>9, QuietNotes DEF AccuracyGateOptimizationNote
  <2>9. CASE AppendWithoutLandmarks \/ AppendWithLandmarks
    <3>1. \E group : AppendGroup(group)
                     /\ group.keys \in {keys, Noted(keys, "other")}
      <4>1. \A subpaths, subpathKeys :
              Group(subpaths, subpathKeys).keys \in {keys, Noted(keys, "other")}
        BY DEF Group
      <4> QED
        BY <2>9, <4>1 DEF AppendWithoutLandmarks, AppendWithLandmarks
    <3>2. PICK group : AppendGroup(group)
                       /\ group.keys \in {keys, Noted(keys, "other")}
      BY <3>1
    <3>3. pc = "append" /\ file = NoFile
      BY <2>9 DEF AppendWithoutLandmarks, AppendWithLandmarks, Inv, OutputInv,
                  AfterWrite
    <3>4. "cancelled" \notin group.keys.notes
      BY <3>2, <3>3, <1>0, <1>9, OtherNotesKeepTheWord
    <3>5. CleanResults
      BY <3>3 DEF NotesInv, NoFile
    <3>6. results' = Append(results, group)
      BY <3>2 DEF AppendGroup
    <3>7. \A j \in 1..Len(results') : "cancelled" \notin results'[j].keys.notes
      BY <3>4, <3>5, <3>6, <1>0
    <3>8. /\ file' = NoFile /\ keys' = NoKeys /\ baseline' = NoBaseline
      BY <3>2, <3>3 DEF AppendGroup
    <3> QED
      BY <3>7, <3>8 DEF NotesInv, NoFile, NoKeys, NoBaseline
  <2> QED
    BY <1>4, <2>1, <2>2, <2>3, <2>4, <2>5, <2>6, <2>7, <2>8, <2>9
       DEF CompleteSolvedProperty
<1>5. CASE Ending
  <2>1. CASE EmitSolveCancelledLifecycle
    BY <2>1, <1>9, QuietNotes DEF EmitSolveCancelledLifecycle
  <2>2. CASE WriteCancelledPartial
    <3>1. file'.kind = "partial" /\ UNCHANGED <<keys, baseline, cancelFile>>
          /\ pc' = "exited"
      BY <2>2 DEF WriteCancelledPartial, WriteKeyBundleJson
    <3> QED
      BY <3>1, <1>9 DEF NotesInv
  <2>3. CASE WriteCompletedOutput
    <3>1. /\ file = NoFile /\ pc = "write"
          /\ UNCHANGED <<keys, baseline, cancelFile, results>>
      BY <2>3 DEF WriteCompletedOutput, Inv, OutputInv, AfterWrite
    <3>2. file'.results = results'
      BY <2>3, <3>1 DEF WriteCompletedOutput, WriteKeyBundleJson
    <3>3. CleanResults
      BY <3>1 DEF NotesInv, NoFile
    <3> QED
      BY <3>1, <3>2, <3>3, <1>9 DEF NotesInv
  <2>4. CASE EmitDoneProgress
    BY <2>4, <1>9, QuietNotes DEF EmitDoneProgress
  <2>5. CASE EmitDoneDiagnostics
    BY <2>5, <1>9, QuietNotes DEF EmitDoneDiagnostics
  <2> QED
    BY <1>5, <2>1, <2>2, <2>3, <2>4, <2>5 DEF Ending
<1>6. CASE Failure
  BY <1>6, <1>9, QuietNotes
     DEF Failure, RejectUsage, InputThrows, ProgressThrows, DiagnosticsThrows,
         OpenOutputThrows, Throws
<1>7. CASE Host
  BY <1>7, <1>9, QuietNotes
     DEF Host, HostCreatesCancelFile, HostWithdrawsCancelFile
<1>8. CASE UNCHANGED vars
  BY <1>8, <1>9, QuietNotes DEF vars
<1> QED
  BY <1>1, <1>2, <1>3, <1>4, <1>5, <1>6, <1>7, <1>8 DEF Next, RunSolve

(***************************************************************************)
(* Refinement: every step is a step of the job or leaves it alone.         *)
(***************************************************************************)

\* A step that leaves the results, the output file and the exit code alone is
\* a stutter of the job.
LEMMA QuietStep ==
  ASSUME UNCHANGED <<results, file, exit>>
  PROVE  UNCHANGED Job!vars
BY DEF Job!vars

\* Appending a property is the job solving one more.
LEMMA AppendIsSolve ==
  ASSUME TypeOK, LoopInv, OutputInv, pc = "append",
         UNCHANGED <<file, exit>>,
         \E g : results' = Append(results, g)
  PROVE  Job!SolveProperty
<1>1. PICK g : results' = Append(results, g)
  OBVIOUS
<1>2. results \in Seq(ResultGroup) /\ Len(results) = idx /\ idx < N
  BY DEF TypeOK, BundleOK, OutputInv, ResultsInOrder, LoopInv, PropertyStages
<1>3. Len(results') = Len(results) + 1
  BY <1>1, <1>2
<1>4. exit = -1 /\ file = NoFile
  BY DEF LoopInv, OutputInv, AfterWrite, Running
<1>5. Job!Undecided
  BY <1>4 DEF Job!Undecided, Job!NoBundle, NoFile
<1> QED
  BY <1>2, <1>3, <1>5 DEF Job!SolveProperty

\* The whole step relation.
LEMMA JobStep ==
  ASSUME TypeOK, LoopInv, OutputInv, [Next]_vars, "write" \notin Faults
  PROVE  [Job!Next]_(Job!vars)
<1> USE DEF Goto, bundleVars, jobVars
<1>1. CASE Startup
  BY <1>1, QuietStep
     DEF Startup, AcceptArguments, ParseSolveCommandConfig,
         EmitSolveStartLifecycle
<1>2. CASE SolveTemporal
  BY <1>2, QuietStep
     DEF SolveTemporal, LoopTop, LoopEnds, PreparePathSolveInputs,
         PreparePropertyTemporalPrelude, RouteCancelled, RouteSolved,
         GateShapeMotionQualityRegression, ReportPropertyTemporalSolveResult
<1>3. CASE ProcessPostTemporalReplacement
  BY <1>3, QuietStep
     DEF ProcessPostTemporalReplacement, AcceptFastVertexPreference,
         BaselineCancelled, SolveReplacementBaseline, RetryFails,
         RetryCancelled, RetryAccepted, RetryLadderEnds,
         ApplyReplacementInitialOrFallbackDecision
<1>4. CASE CompleteSolvedProperty
  <2>1. CASE AppendWithoutLandmarks
    <3>1. UNCHANGED <<file, exit>> /\ results' = Append(results, Group(0, 0))
      BY <2>1 DEF AppendWithoutLandmarks, AppendGroup
    <3> QED
      BY <2>1, <3>1, AppendIsSolve DEF AppendWithoutLandmarks, Job!Next
  <2>2. CASE AppendWithLandmarks
    <3>1. /\ UNCHANGED <<file, exit>>
          /\ \E g : results' = Append(results, g)
      BY <2>2 DEF AppendWithLandmarks, AppendGroup
    <3> QED
      BY <2>2, <3>1, AppendIsSolve DEF AppendWithLandmarks, Job!Next
  <2>3. CASE ~AppendWithoutLandmarks /\ ~AppendWithLandmarks
    BY <1>4, <2>3, QuietStep
       DEF CompleteSolvedProperty, SkipPostSolveVertexReduction,
           PostSolveVertexReductionCancelled, TryPostSolvePathVertexReduction,
           CleanUpStaticKeys, SkipTemporalRefit, TemporalRefitCancelled,
           TryTemporalRefitKeyReduction, AccuracyGateOptimizationNote
  <2> QED
    BY <2>1, <2>2, <2>3
<1>5. CASE Ending
  <2>1. CASE EmitSolveCancelledLifecycle
    BY <2>1, QuietStep DEF EmitSolveCancelledLifecycle
  <2>2. CASE WriteCancelledPartial
    <3>1. exit = -1 /\ file = NoFile /\ exit' = 5
      BY <2>2 DEF WriteCancelledPartial, Exit, LoopInv, OutputInv, AfterWrite,
                  Running
    <3>2. Len(results') = Len(results)
      BY <2>2, MarkingKeepsOrder
         DEF WriteCancelledPartial, TypeOK, BundleOK, OutputInv, ResultsInOrder
    <3>3. file'.kind = "partial" /\ file'.results = results' /\ file'.whole
      BY <2>2 DEF WriteCancelledPartial, WriteKeyBundleJson
    <3> QED
      BY <3>1, <3>2, <3>3
         DEF Job!Next, Job!Cancel, Job!Undecided, Job!NoBundle, NoFile
  <2>3. CASE WriteCompletedOutput
    <3>1. exit = -1 /\ file = NoFile /\ UNCHANGED <<exit, results>>
          /\ Len(results) = N
      BY <2>3 DEF WriteCompletedOutput, LoopInv, OutputInv, AfterWrite,
                  Running, ResultsInOrder
    <3>2. /\ file'.kind = "complete" /\ file'.results = results
          /\ file'.whole \in BOOLEAN
      BY <2>3 DEF WriteCompletedOutput, WriteKeyBundleJson
    <3> QED
      BY <3>1, <3>2
         DEF Job!Next, Job!PublishComplete, Job!Undecided, Job!NoBundle, NoFile
  <2>4. CASE EmitDoneProgress
    BY <2>4, QuietStep DEF EmitDoneProgress
  <2>5. CASE EmitDoneDiagnostics
    <3>1. exit = -1 /\ file.kind = "complete" /\ file.whole
      BY <2>5 DEF EmitDoneDiagnostics, LoopInv, OutputInv, AfterWrite,
                  CompleteOutput, Running
    <3> QED
      BY <2>5, <3>1 DEF EmitDoneDiagnostics, Exit, Job!Next, Job!Succeed
  <2> QED
    BY <1>5, <2>1, <2>2, <2>3, <2>4, <2>5 DEF Ending
<1>6. CASE Failure
  <2>1. CASE RejectUsage
    <3>1. exit = -1 /\ file = NoFile /\ Len(results) = 0
          /\ UNCHANGED <<results, file>> /\ exit' = 2
      BY <2>1 DEF RejectUsage, Exit, LoopInv, OutputInv, AfterWrite, Running,
                  ResultsInOrder
    <3> QED
      BY <3>1 DEF Job!Next, Job!RejectUsage, Job!Undecided, Job!NoBundle,
                  NoFile
  <2>2. CASE ~RejectUsage
    <3>1. exit = -1 /\ exit' = 1 /\ UNCHANGED <<results, file>>
      BY <1>6, <2>2
         DEF Failure, InputThrows, ProgressThrows, DiagnosticsThrows,
             OpenOutputThrows, Throws, Exit, LoopInv, Running
    <3> QED
      BY <3>1 DEF Job!Next, Job!Fail
  <2> QED
    BY <2>1, <2>2
<1>7. CASE Host
  BY <1>7, QuietStep
     DEF Host, HostCreatesCancelFile, HostWithdrawsCancelFile
<1>8. CASE UNCHANGED vars
  BY <1>8, QuietStep DEF vars
<1> QED
  BY <1>1, <1>2, <1>3, <1>4, <1>5, <1>6, <1>7, <1>8 DEF Next, RunSolve

(***************************************************************************)
(* The theorems.                                                           *)
(***************************************************************************)

\* The initial states satisfy every part of the invariant.
LEMMA InitInv ==
  ASSUME Init
  PROVE  /\ Inv /\ NoPropertyBegunAfterCancel /\ CancelInv /\ NotesInv
         /\ Job!Init
<1>1. ControlOK
  <2>1. cfg \in ConfigSpace /\ idx \in 0..N /\ begun \in 0..N
    BY ConstantsAssumption DEF Init
  <2>2. pc \in Stages /\ exit \in ExitCodes \cup {Running}
    BY DEF Init, Stages, ExitCodes
  <2>3. cancelFile \in BOOLEAN /\ saw \in BOOLEAN /\ diag = {}
    BY DEF Init
  <2> QED
    BY <2>1, <2>2, <2>3 DEF ControlOK
<1>2. PropertyOK
  BY ConstantsAssumption, EmptyProperty DEF Init, PropertyOK
<1>3. BundleOK
  BY DEF Init, BundleOK, NoFile
<1>4. DoneProgress(N) \in Nat
  BY ConstantsAssumption DEF DoneProgress, Unit
<1>5. TrailOK
  BY <1>4 DEF Init, TrailOK
<1>6. LoopInv
  BY DEF Init, LoopInv, PropertyStages, AfterWrite, Running
<1>7. OutputInv
  BY DEF Init, OutputInv, ResultsInOrder, AfterWrite, Running
<1>8. DecisionInv
  BY DEF Init, DecisionInv, ReplacementNeverAddsKeys
<1>9. NoPropertyBegunAfterCancel /\ CancelInv /\ NotesInv
  BY DEF Init, NoPropertyBegunAfterCancel, CancelInv, NotesInv, NoKeys,
         NoBaseline, NoFile
<1>10. Job!Init
  BY DEF Init, Job!Init, Job!Undecided, Job!NoBundle, NoFile, Running
<1> QED
  BY <1>1, <1>2, <1>3, <1>5, <1>6, <1>7, <1>8, <1>9, <1>10 DEF Inv, TypeOK

\* Inv is inductive: types, the loop index, the output and the decision.
THEOREM Invariance == Spec => []Inv
<1>1. Init => Inv
  BY InitInv
<1>2. Inv /\ [Next]_vars => Inv'
  <2> SUFFICES ASSUME Inv, [Next]_vars PROVE Inv'
    OBVIOUS
  <2>1. TypeOK /\ ControlOK /\ PropertyOK /\ BundleOK /\ TrailOK
        /\ LoopInv /\ OutputInv /\ DecisionInv
    BY DEF Inv, TypeOK
  <2>2. ControlOK'
    BY <2>1, ControlStep
  <2>3. LoopInv'
    BY <2>1, LoopStep
  <2>4. PropertyOK'
    BY <2>1, PropertyStep
  <2>5. BundleOK' /\ OutputInv'
    BY <2>1, OutputStep
  <2>6. TrailOK'
    BY <2>1, TrailStep
  <2>7. DecisionInv'
    BY <2>1, DecisionStep
  <2> QED
    BY <2>2, <2>3, <2>4, <2>5, <2>6, <2>7 DEF Inv, TypeOK
<1> QED
  BY <1>1, <1>2, PTL DEF Spec

\* Every variable keeps its type: in particular the progress field never
\* leaves [0, 1], for any number of properties.
THEOREM TypeCorrect == Spec => []TypeOK
<1>1. Inv => TypeOK
  BY DEF Inv
<1> QED
  BY <1>1, Invariance, PTL

\* When every write of the output is whole, the exit code tells the truth
\* about the output file.
THEOREM ExitIsTruthful ==
  ASSUME "write" \notin Faults
  PROVE  Spec => []ExitTruthful
<1>1. Inv => ExitTruthful
  BY DEF Inv, OutputInv, ExitTruthful, CompleteOutput, PartialOutput,
         ResultsInOrder
<1> QED
  BY <1>1, Invariance, PTL

\* A decision by comparison never leaves more keys than the baseline had.
THEOREM DecisionNeverAddsKeys == Spec => []ReplacementNeverAddsKeys
<1>1. Inv => ReplacementNeverAddsKeys
  BY DEF Inv, DecisionInv
<1> QED
  BY <1>1, Invariance, PTL

\* While the cancel file stays, no property is begun, whatever the host did
\* with the file before.
THEOREM CancelStopsTheLoop == Spec => []NoPropertyBegunAfterCancel
<1>1. Init => NoPropertyBegunAfterCancel
  BY InitInv
<1>2. ControlOK /\ NoPropertyBegunAfterCancel /\ [Next]_vars
      => NoPropertyBegunAfterCancel'
  BY BegunStep
<1>3. TypeOK => ControlOK
  BY DEF TypeOK
<1> QED
  BY <1>1, <1>2, <1>3, TypeCorrect, PTL DEF Spec

\* If the host never withdraws the cancel file, a process that saw it does not
\* report success, the landmark stage excepted.
THEOREM CancelIsReported ==
  ASSUME ~HostMayWithdraw
  PROVE  Spec => []SeenCancelNeverSucceeds
<1>1. Init => CancelInv
  BY InitInv
<1>2. Inv /\ CancelInv /\ [Next]_vars => CancelInv'
  BY CancelStep DEF Inv, TypeOK
<1>3. CancelInv => SeenCancelNeverSucceeds
  BY DEF CancelInv, SeenCancelNeverSucceeds
<1> QED
  BY <1>1, <1>2, <1>3, Invariance, PTL DEF Spec

\* If the host never withdraws the cancel file, what a cancelled solve left
\* behind never reaches a bundle that claims to be complete, whatever route it
\* took and whatever notes were appended to it on the way.
THEOREM NoCancelledKeysInCompleteBundle ==
  ASSUME ~HostMayWithdraw
  PROVE  Spec => []NoCancelledSolveInCompleteBundle
<1>1. Init => NotesInv
  BY InitInv
<1>2. Inv /\ NotesInv /\ [Next]_vars => NotesInv'
  BY NotesStep
<1>3. NotesInv => NoCancelledSolveInCompleteBundle
  BY DEF NotesInv, NoCancelledSolveInCompleteBundle
<1> QED
  BY <1>1, <1>2, <1>3, Invariance, PTL DEF Spec

\* If no write is cut short, the command implements the job: what the host sees
\* of it is one property after another, at most one output, whole, and an exit
\* code that fits.
THEOREM Implementation ==
  ASSUME "write" \notin Faults
  PROVE  Spec => ImplementsJob
<1>1. Init => Job!Init
  BY InitInv
<1>2. Inv /\ [Next]_vars => [Job!Next]_(Job!vars)
  BY JobStep DEF Inv
<1> QED
  BY <1>1, <1>2, Invariance, PTL DEF Spec, ImplementsJob, Job!Spec
==============================================================================
