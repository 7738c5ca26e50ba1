---------------------------- MODULE SolveCommand ----------------------------
(***************************************************************************)
(* RunSolve: one `bbsolver solve` process, and the host that launched it.  *)
(* The process walks the properties of the sample bundle in order; each    *)
(* goes through path preparation, a temporal solve on one of six routes,   *)
(* the post-temporal replacement decision, post-solve reductions, and is   *)
(* appended to the key bundle.  The host may create the cancel file at any *)
(* moment; the process polls it at the places the code polls it, and       *)
(* nowhere else.  Any event or file write may fail.                        *)
(*                                                                         *)
(* Data is abstracted to what control depends on: a key list to its        *)
(* length, its converged flag and its notes (does the text contain the     *)
(* word "cancelled", does it contain anything else).                       *)
(***************************************************************************)
EXTENDS SolvePolicy, Sequences, FiniteSets

CONSTANTS
  N,                \* properties in the sample bundle
  Configs,          \* the configurations explored, a subset of ConfigSpace
  KeyCounts,        \* key-list lengths a solver may return
  SubpathCounts,    \* numbers of landmark subpaths one property may emit
  MaxRetries,       \* bound on the replacement retry ladder
  Faults,           \* which writes may fail
  HostMayWithdraw   \* may the host remove the cancel file again?

FaultSpace == {"input", "progress", "diagnostics", "open", "write"}

ASSUME ConstantsAssumption ==
  /\ N \in Nat \ {0}
  /\ Configs \subseteq ConfigSpace
  /\ KeyCounts \subseteq Nat
  /\ SubpathCounts \subseteq Nat
  /\ MaxRetries \in Nat
  /\ Faults \subseteq FaultSpace
  /\ HostMayWithdraw \in BOOLEAN

VARIABLES
  pc,          \* the stage RunSolve is about to run
  cfg,         \* the parsed configuration
  idx,         \* property_idx
  prep,        \* path preparation's outcome for property idx
  keys,        \* property_keys
  accepted,    \* replacement_output_accepted
  fast,        \* replacement_fast_vertex_preference_accepted
  baseline,    \* original_keys of the replacement decision, and its verdict
  retries,     \* retry-ladder targets tried for property idx
  results,     \* keys.property_results, grouped by property
  totalKeys,   \* keys.total_keys
  cancelFile,  \* does the cancel file exist?
  begun,       \* properties begun when the cancel file last appeared
  saw,         \* has any poll found the cancel file?
  trail,       \* last progress value, then the values the latest step wrote
  diag,        \* lifecycle events in the diagnostics file
  file,        \* the output file
  exit         \* exit code, -1 while running

jobVars == <<pc, idx, exit>>
propertyVars == <<prep, keys, accepted, fast, baseline, retries>>
bundleVars == <<results, totalKeys>>
hostVars == <<cancelFile, begun>>
vars == <<pc, cfg, idx, prep, keys, accepted, fast, baseline, retries, results,
          totalKeys, cancelFile, begun, saw, trail, diag, file, exit>>

Running == -1
ExitCodes == {0, 1, 2, 5}

NoteWords == {"cancelled", "other"}
KeyList == [notes : SUBSET NoteWords, converged : BOOLEAN, count : Nat]
NoKeys == [notes |-> {}, converged |-> FALSE, count |-> 0]
CancelledKeys == [notes |-> {"cancelled"}, converged |-> FALSE, count |-> 0]
NoBaseline == [use |-> FALSE, keys |-> NoKeys]
NoPreparation ==
  [shape |-> FALSE, tail |-> FALSE, nearOptimal |-> FALSE, outline |-> FALSE,
   replaced |-> FALSE, refined |-> FALSE, canonical |-> FALSE,
   refittable |-> FALSE]

\* One property's results: its key list, then the landmark subpaths after it.
ResultGroup == [property : Nat, keys : KeyList, subpaths : Nat,
                subpathKeys : Nat]

NoFile == [kind |-> "none", whole |-> FALSE, results |-> <<>>, totalKeys |-> 0]

\* The stages of one property's turn, after the poll at the top of the loop.
PropertyStages == {"prepare", "prelude", "route", "gate", "report",
                   "postTemporal", "retry", "decide", "reduce", "cleanup",
                   "refit", "accuracy", "append"}
Stages == {"argv", "input", "start", "loop", "cancelDiagnostics",
           "cancelWrite", "write", "doneProgress", "doneDiagnostics",
           "exited"} \cup PropertyStages

Init ==
  /\ pc = "argv" /\ exit = Running /\ idx = 0
  /\ cfg \in Configs
  /\ prep = NoPreparation /\ keys = NoKeys
  /\ accepted = FALSE /\ fast = FALSE
  /\ baseline = NoBaseline /\ retries = 0
  /\ results = <<>> /\ totalKeys = 0
  /\ cancelFile = FALSE /\ begun = 0 /\ saw = FALSE
  /\ trail = <<0>> /\ diag = {} /\ file = NoFile

------------------------------------------------------------------------------
(***************************************************************************)
(* Steps shared by the stages.                                             *)
(***************************************************************************)
Goto(stage) == pc' = stage /\ UNCHANGED <<exit, idx>>
Exit(code) == pc' = "exited" /\ exit' = code /\ UNCHANGED idx

\* A stage writes the events of its stage fractions, in order.
LastProgress == trail[Len(trail)]
Emits(values) == trail' = <<LastProgress>> \o values
At(stages) ==
  [k \in DOMAIN stages |-> SolveProgressForPropertyStage(idx, N, stages[k])]
EmitsStages(stages) == Emits(At(stages))
If(condition, stages) == IF condition THEN stages ELSE <<>>

CancelFileExists == cancelFile

\* A poll whose answer decides the stage.
Polls == saw' = (saw \/ CancelFileExists)

Noted(k, word) == [k EXCEPT !.notes = @ \cup {word}]

------------------------------------------------------------------------------
(***************************************************************************)
(* Before the first property.                                              *)
(***************************************************************************)
RejectUsage ==
  /\ pc = "argv"
  /\ Exit(2)
  /\ UNCHANGED <<cfg, propertyVars, bundleVars, hostVars, saw, trail, diag,
                 file>>

AcceptArguments ==
  /\ pc = "argv"
  /\ Goto("input")
  /\ UNCHANGED <<cfg, propertyVars, bundleVars, hostVars, saw, trail, diag,
                 file>>

\* Bad options, an unreadable or empty sample bundle: an exception, exit 1.
InputThrows ==
  /\ pc = "input"
  /\ "input" \in Faults
  /\ Exit(1)
  /\ UNCHANGED <<cfg, propertyVars, bundleVars, hostVars, saw, trail, diag,
                 file>>

ParseSolveCommandConfig ==
  /\ pc = "input"
  /\ Goto("start")
  /\ UNCHANGED <<cfg, propertyVars, bundleVars, hostVars, saw, trail, diag,
                 file>>

EmitSolveStartLifecycle ==
  /\ pc = "start"
  /\ Emits(<<SolveStartProgress(N), ParallelConfigProgress(N)>>)
  /\ diag' = diag \cup {"solve_start"}
  /\ Goto("loop")
  /\ UNCHANGED <<cfg, propertyVars, bundleVars, hostVars, saw, file>>

------------------------------------------------------------------------------
(***************************************************************************)
(* One property: the poll at the top, preparation, temporal solve.         *)
(***************************************************************************)
LoopTopWithoutPoll ==
  /\ pc = "loop" /\ idx < N
  /\ Goto("prepare")
  /\ UNCHANGED <<cfg, propertyVars, bundleVars, hostVars, saw, trail, diag,
                 file>>

LoopTop ==
  /\ pc = "loop" /\ idx < N
  /\ Polls
  /\ Goto(IF CancelFileExists THEN "cancelDiagnostics" ELSE "prepare")
  /\ UNCHANGED <<cfg, propertyVars, bundleVars, hostVars, trail, diag, file>>

LoopEnds ==
  /\ pc = "loop" /\ idx = N
  /\ Goto("write")
  /\ UNCHANGED <<cfg, propertyVars, bundleVars, hostVars, saw, trail, diag,
                 file>>

\* The events of PreparePathSolveInputs, in the order the code writes them.
PreparationEvents(p) ==
  <<20>>
  \o If(TriesOutline(cfg, p), <<60, 90>>)
  \o If(TriesReplacement(cfg, p), <<100, 220>>)
  \o If(TriesCanonical(cfg, p), <<120, 220>>)
  \o If(p.refined, <<280, 340>>)

PreparePathSolveInputs ==
  /\ pc = "prepare"
  /\ prep' \in Preparations(cfg)
  /\ EmitsStages(PreparationEvents(prep'))
  /\ Goto("prelude")
  /\ UNCHANGED <<cfg, keys, accepted, fast, baseline, retries, bundleVars,
                 hostVars, saw, diag, file>>

PreparePropertyTemporalPrelude ==
  /\ pc = "prelude"
  /\ EmitsStages(<<400>>)
  /\ Goto("route")
  /\ UNCHANGED <<cfg, propertyVars, bundleVars, hostVars, saw, diag, file>>

Route == ChoosePropertySolveRoute(cfg, prep)

\* ApplyFinalStaticTrimNote writes into the notes whatever the solve said.
ApplyFinalStaticTrimNote(k) ==
  IF TrimsStaticTail(cfg, prep) THEN Noted(k, "other") ELSE k

\* What a route returns when one of its polls found the cancel file: mostly
\* keys whose notes are exactly "cancelled".  The replacement route appends its
\* own note to that, or falls back on a finished multi-mode candidate; the
\* decomposed route returns the flat keys it already had.
CancelledOutcomes(route) ==
  {CancelledKeys}
  \cup (IF route = "ReplacementShapeFlatTemporal"
        THEN {Noted(CancelledKeys, "other")}
             \cup [notes : {{"other"}}, converged : {TRUE}, count : KeyCounts]
        ELSE {})
  \cup (IF route = "PathDecomposed"
        THEN [notes : {{}, {"other"}}, converged : BOOLEAN, count : KeyCounts]
        ELSE {})

RouteCancelled ==
  /\ pc = "route"
  /\ PollsWhileSolving(Route) /\ CancelFileExists
  /\ Polls
  /\ \E k \in CancelledOutcomes(Route) : keys' = ApplyFinalStaticTrimNote(k)
  /\ EmitsStages(<<400>>)
  /\ Goto("gate")
  /\ UNCHANGED <<cfg, prep, accepted, fast, baseline, retries, bundleVars,
                 hostVars, diag, file>>

\* The route returns keys; its last placement event lies between 0.40 and 0.70.
RouteSolved ==
  /\ pc = "route"
  /\ \E k \in [notes : {{}, {"other"}}, converged : BOOLEAN,
               count : KeyCounts] :
       /\ Route \in {"PreserveSourceKeys", "FrameKeyFallback"} => k.converged
       /\ keys' = ApplyFinalStaticTrimNote(k)
  /\ \E stage \in {400, 550, 700} :
       EmitsStages(CASE Route = "PreserveSourceKeys" -> <<420>>
                     [] PollsWhileSolving(Route) -> <<stage>>
                     [] OTHER -> <<>>)
  /\ Goto("gate")
  /\ UNCHANGED <<cfg, prep, accepted, fast, baseline, retries, bundleVars,
                 hostVars, saw, diag, file>>

\* The motion-quality gate compares with the source keys, eight or more; it
\* may put them back, or only add a note.
GateApplies ==
  /\ AllowsTemporal(cfg) /\ prep.shape
  /\ keys.converged /\ keys.count >= 3

GateShapeMotionQualityRegression ==
  /\ pc = "gate"
  /\ \/ UNCHANGED keys
     \/ /\ GateApplies
        /\ \E sourceKeys \in KeyCounts :
             /\ sourceKeys >= 8 /\ sourceKeys > keys.count
             /\ keys' \in {Noted(keys, "other"),
                          [Noted(keys, "other") EXCEPT !.count = sourceKeys]}
  /\ Goto("report")
  /\ UNCHANGED <<cfg, prep, accepted, fast, baseline, retries, bundleVars,
                 hostVars, saw, trail, diag, file>>

TemporalSolveCancelledIgnored(k) == FALSE
TemporalSolveCancelled(k) == k.notes = {"cancelled"} \/ CancelFileExists

ReportPropertyTemporalSolveResult ==
  /\ pc = "report"
  /\ EmitsStages(<<700>>)
  /\ Polls
  /\ Goto(IF TemporalSolveCancelled(keys) THEN "cancelDiagnostics"
          ELSE IF prep.replaced THEN "postTemporal" ELSE "reduce")
  /\ UNCHANGED <<cfg, propertyVars, bundleVars, hostVars, diag, file>>

------------------------------------------------------------------------------
(***************************************************************************)
(* The post-temporal replacement decision: is the simplified path used?    *)
(***************************************************************************)
AcceptFastVertexPreference ==
  /\ pc = "postTemporal"
  /\ cfg.preferVertices
  /\ keys' = [Noted(keys, "other") EXCEPT !.converged = TRUE]
  /\ accepted' = TRUE /\ fast' = TRUE
  /\ EmitsStages(<<800>>)
  /\ Goto("reduce")
  /\ UNCHANGED <<cfg, prep, baseline, retries, bundleVars, hostVars, saw, diag,
                 file>>

BaselineCancelled ==
  /\ pc = "postTemporal"
  /\ CancelFileExists
  /\ Polls
  /\ EmitsStages(<<710>>)
  /\ Goto("cancelDiagnostics")
  /\ UNCHANGED <<cfg, propertyVars, bundleVars, hostVars, diag, file>>

\* A verdict for the candidate needs at most as many keys as the baseline.
UseCandidateAnyKeyCount(candidate, original) == TRUE
UseCandidate(candidate, original) == candidate.count <= original.count

SolveReplacementBaseline ==
  /\ pc = "postTemporal"
  /\ ~CancelFileExists
  /\ \E converged \in BOOLEAN, count \in KeyCounts, use \in BOOLEAN :
       /\ baseline' = [use |-> use,
                       keys |-> [notes |-> {}, converged |-> converged,
                                 count |-> count]]
       /\ use => UseCandidate(keys, baseline'.keys)
       /\ \/ Goto("decide")
          \/ ~use /\ keys.count <= count /\ Goto("retry")
  /\ EmitsStages(<<710, 730, 740, 800>>)
  /\ UNCHANGED <<cfg, prep, keys, accepted, fast, retries, bundleVars,
                 hostVars, saw, diag, file>>

RetryFailsSameTarget ==
  /\ pc = "retry"
  /\ retries < MaxRetries
  /\ \/ EmitsStages(<<820, 100, 200>>)
     \/ ~CancelFileExists /\ EmitsStages(<<820, 100, 200, 860>>)
  /\ Goto("retry")
  /\ UNCHANGED <<cfg, propertyVars, bundleVars, hostVars, saw, diag, file>>

\* One rung of the retry ladder; the fit it repeats starts again at 0.10.
RetryFails ==
  /\ pc = "retry"
  /\ retries < MaxRetries
  /\ retries' = retries + 1
  /\ \/ EmitsStages(<<820, 100, 200>>)
     \/ ~CancelFileExists /\ EmitsStages(<<820, 100, 200, 860>>)
  /\ Goto("retry")
  /\ UNCHANGED <<cfg, prep, keys, accepted, fast, baseline, bundleVars,
                 hostVars, saw, diag, file>>

RetryCancelled ==
  /\ pc = "retry"
  /\ retries < MaxRetries
  /\ CancelFileExists
  /\ Polls
  /\ EmitsStages(<<820, 100, 200>>)
  /\ Goto("cancelDiagnostics")
  /\ UNCHANGED <<cfg, propertyVars, bundleVars, hostVars, diag, file>>

RetryAccepted ==
  /\ pc = "retry"
  /\ retries < MaxRetries
  /\ ~CancelFileExists
  /\ \E count \in KeyCounts :
       LET candidate == [notes |-> {"other"}, converged |-> TRUE,
                         count |-> count]
       IN  UseCandidate(candidate, baseline.keys) /\ keys' = candidate
  /\ accepted' = TRUE
  /\ EmitsStages(<<820, 100, 200, 860>>)
  /\ Goto("reduce")
  /\ UNCHANGED <<cfg, prep, fast, baseline, retries, bundleVars, hostVars, saw,
                 diag, file>>

RetryLadderEnds ==
  /\ pc = "retry"
  /\ Goto("decide")
  /\ UNCHANGED <<cfg, propertyVars, bundleVars, hostVars, saw, trail, diag,
                 file>>

ApplyReplacementInitialOrFallbackDecision ==
  /\ pc = "decide"
  /\ IF baseline.use
     THEN /\ keys' = [keys EXCEPT !.converged = TRUE,
                                  !.notes = @ \cup {"other"}]
          /\ accepted' = TRUE
     ELSE /\ keys' = Noted(baseline.keys, "other")
          /\ UNCHANGED accepted
  /\ Goto("reduce")
  /\ UNCHANGED <<cfg, prep, fast, baseline, retries, bundleVars, hostVars, saw,
                 trail, diag, file>>

------------------------------------------------------------------------------
(***************************************************************************)
(* Post-solve processing: vertex reduction, static cleanup, temporal refit *)
(* and the accuracy-gate note.                                             *)
(***************************************************************************)
AllowPostSolveVertexReduction ==
  /\ AllowsVertex(cfg) /\ ~prep.nearOptimal /\ ~cfg.decompose
  /\ prep.shape /\ keys.converged /\ ~fast
  /\ ~accepted \/ cfg.preferVertices

SkipPostSolveVertexReduction ==
  /\ pc = "reduce"
  /\ ~AllowPostSolveVertexReduction
  /\ Goto("cleanup")
  /\ UNCHANGED <<cfg, propertyVars, bundleVars, hostVars, saw, trail, diag,
                 file>>

PostSolveVertexReductionCancelled ==
  /\ pc = "reduce"
  /\ AllowPostSolveVertexReduction
  /\ CancelFileExists
  /\ Polls
  /\ EmitsStages(<<810>>)
  /\ Goto("cancelDiagnostics")
  /\ UNCHANGED <<cfg, propertyVars, bundleVars, hostVars, diag, file>>

TryPostSolvePathVertexReduction ==
  /\ pc = "reduce"
  /\ AllowPostSolveVertexReduction
  /\ ~CancelFileExists
  /\ keys' \in {keys, Noted(keys, "other")}
  /\ EmitsStages(<<810, 900>>)
  /\ Goto("cleanup")
  /\ UNCHANGED <<cfg, prep, accepted, fast, baseline, retries, bundleVars,
                 hostVars, saw, diag, file>>

\* CollapseRedundantStaticKeyRuns, then AnchorFinalStaticBoundary: either may
\* be tried, and an accepted one only removes keys.
CleanUpStaticKeys ==
  /\ pc = "cleanup"
  /\ \E collapse, anchor \in BOOLEAN, c \in KeyCounts \cup {keys.count} :
       /\ collapse \/ anchor => keys.converged /\ keys.count >= 2
       /\ anchor => prep.tail
       /\ IF collapse \/ anchor THEN c <= keys.count ELSE c = keys.count
       /\ keys' \in
            LET k == [keys EXCEPT !.count = c]
            IN  IF collapse \/ anchor THEN {Noted(k, "other")}
                ELSE {k, Noted(k, "other")}
       /\ EmitsStages(If(collapse, <<910>>) \o If(anchor, <<915>>))
  /\ Goto("refit")
  /\ UNCHANGED <<cfg, prep, accepted, fast, baseline, retries, bundleVars,
                 hostVars, saw, diag, file>>

PipelineAllowsTemporalRefit ==
  /\ AllowsTemporal(cfg) /\ ~prep.nearOptimal /\ prep.refittable
  /\ keys.converged /\ keys.count >= 3

SkipTemporalRefit ==
  /\ pc = "refit"
  /\ ~PipelineAllowsTemporalRefit
  /\ Goto("accuracy")
  /\ UNCHANGED <<cfg, propertyVars, bundleVars, hostVars, saw, trail, diag,
                 file>>

TemporalRefitCancelled ==
  /\ pc = "refit"
  /\ PipelineAllowsTemporalRefit
  /\ CancelFileExists
  /\ Polls
  /\ Goto("cancelDiagnostics")
  /\ UNCHANGED <<cfg, propertyVars, bundleVars, hostVars, trail, diag, file>>

\* Not attempted (structurally rejected); rejected; or accepted with fewer
\* keys.  The validation event at 0.9335 follows the placement's last, 0.951.
TryTemporalRefitKeyReduction ==
  /\ pc = "refit"
  /\ PipelineAllowsTemporalRefit
  /\ ~CancelFileExists
  /\ \/ UNCHANGED keys /\ EmitsStages(<<>>)
     \/ keys' = Noted(keys, "other")
        /\ EmitsStages(<<916, 951, 933, 951, 952>>)
     \/ /\ \E c \in KeyCounts :
             /\ c < keys.count
             /\ keys' = [notes |-> {"other"}, converged |-> TRUE, count |-> c]
        /\ EmitsStages(<<916, 951, 933, 951, 952>>)
  /\ Goto("accuracy")
  /\ UNCHANGED <<cfg, prep, accepted, fast, baseline, retries, bundleVars,
                 hostVars, saw, diag, file>>

AccuracyGateOptimizationNote ==
  /\ pc = "accuracy"
  /\ \/ UNCHANGED keys /\ EmitsStages(<<>>)
     \/ /\ AllowsTemporal(cfg)
        /\ keys.converged /\ keys.count > 0 /\ "cancelled" \notin keys.notes
        /\ keys' = Noted(keys, "other")
        /\ EmitsStages(<<720>>)
  /\ Goto("append")
  /\ UNCHANGED <<cfg, prep, accepted, fast, baseline, retries, bundleVars,
                 hostVars, saw, diag, file>>

------------------------------------------------------------------------------
(***************************************************************************)
(* AppendSolvedPropertyOutput.                                             *)
(***************************************************************************)
EmitsLandmarks == cfg.landmarks /\ accepted /\ prep.shape

Group(subpaths, subpathKeys) ==
  [property |-> idx,
   keys |-> IF subpaths > 0 THEN Noted(keys, "other") ELSE keys,
   subpaths |-> subpaths, subpathKeys |-> subpathKeys]

TotalWithSubpaths(group) == group.keys.count + group.subpathKeys

AppendGroup(group) ==
  /\ results' = Append(results, group)
  /\ totalKeys' = totalKeys + TotalWithSubpaths(group)
  /\ idx' = idx + 1
  /\ pc' = "loop"
  /\ prep' = NoPreparation /\ keys' = NoKeys
  /\ accepted' = FALSE /\ fast' = FALSE
  /\ baseline' = NoBaseline /\ retries' = 0
  /\ UNCHANGED <<cfg, exit, hostVars, diag, file>>

AppendWithoutLandmarks ==
  /\ pc = "append"
  /\ ~EmitsLandmarks
  /\ EmitsStages(<<980>>)
  /\ AppendGroup(Group(0, 0))
  /\ UNCHANGED saw

\* The landmark stage polls the cancel file, but nobody asks what it saw.
AppendWithLandmarks ==
  /\ pc = "append"
  /\ EmitsLandmarks
  /\ \E subpaths \in SubpathCounts \cup {0}, each \in KeyCounts :
       /\ CancelFileExists => subpaths = 0
       /\ EmitsStages(<<880>> \o If(subpaths > 0, <<940>>) \o <<980>>)
       /\ AppendGroup(Group(subpaths, subpaths * each))
  /\ Polls

------------------------------------------------------------------------------
(***************************************************************************)
(* The two endings: a cancelled, partial bundle or a complete one.         *)
(***************************************************************************)
EmitSolveCancelledLifecycle ==
  /\ pc = "cancelDiagnostics"
  /\ diag' = diag \cup {"solve_cancelled"}
  /\ Goto("cancelWrite")
  /\ UNCHANGED <<cfg, propertyVars, bundleVars, hostVars, saw, trail, file>>

MarkedUnconvergedOnly(k) == [k EXCEPT !.converged = FALSE]
Marked(k) == [Noted(k, "cancelled") EXCEPT !.converged = FALSE]

MarkCancelledPartial ==
  results' = [j \in DOMAIN results |->
                [results[j] EXCEPT !.keys = Marked(@)]]

\* WriteKeyBundleJson does not look at the stream after writing to it.
WriteKeyBundleJson(kind, groups) ==
  \E whole \in {TRUE} \cup (IF "write" \in Faults THEN {FALSE} ELSE {}) :
    file' = [kind |-> kind, whole |-> whole, results |-> groups,
             totalKeys |-> totalKeys]

WriteCancelledPartialSucceeds ==
  /\ pc = "cancelWrite"
  /\ MarkCancelledPartial
  /\ WriteKeyBundleJson("partial", results')
  /\ Exit(0)
  /\ UNCHANGED <<cfg, propertyVars, totalKeys, hostVars, saw, trail, diag>>

WriteCancelledPartial ==
  /\ pc = "cancelWrite"
  /\ MarkCancelledPartial
  /\ WriteKeyBundleJson("partial", results')
  /\ Exit(5)
  /\ UNCHANGED <<cfg, propertyVars, totalKeys, hostVars, saw, trail, diag>>

WriteCompletedOutput ==
  /\ pc = "write"
  /\ WriteKeyBundleJson("complete", results)
  /\ Goto("doneProgress")
  /\ UNCHANGED <<cfg, propertyVars, bundleVars, hostVars, saw, trail, diag>>

EmitDoneProgress ==
  /\ pc = "doneProgress"
  /\ Emits(<<DoneProgress(N)>>)
  /\ Goto("doneDiagnostics")
  /\ UNCHANGED <<cfg, propertyVars, bundleVars, hostVars, saw, diag, file>>

EmitDoneDiagnostics ==
  /\ pc = "doneDiagnostics"
  /\ diag' = diag \cup {"solve_done"}
  /\ Exit(0)
  /\ UNCHANGED <<cfg, propertyVars, bundleVars, hostVars, saw, trail, file>>

------------------------------------------------------------------------------
(***************************************************************************)
(* Failures: an exception leaves RunSolve for main, which returns 1.       *)
(***************************************************************************)
Throws(fault, stages) ==
  /\ fault \in Faults
  /\ pc \in stages
  /\ Exit(1)
  /\ UNCHANGED <<cfg, propertyVars, bundleVars, hostVars, saw, trail, diag,
                 file>>

ProgressThrows ==
  Throws("progress", {"start", "prepare", "prelude", "route", "report",
                      "postTemporal", "retry", "reduce", "cleanup", "refit",
                      "accuracy", "append", "doneProgress"})
DiagnosticsThrows ==
  Throws("diagnostics", {"start", "cancelDiagnostics", "doneDiagnostics"})
OpenOutputThrows == Throws("open", {"cancelWrite", "write"})

------------------------------------------------------------------------------
(***************************************************************************)
(* The host.                                                               *)
(***************************************************************************)
HostCreatesCancelFile ==
  /\ ~cancelFile /\ exit = Running
  /\ cancelFile' = TRUE
  /\ begun' = IF pc \in PropertyStages THEN idx + 1 ELSE idx
  /\ UNCHANGED <<jobVars, cfg, propertyVars, bundleVars, saw, trail, diag,
                 file>>

HostWithdrawsCancelFile ==
  /\ HostMayWithdraw /\ cancelFile /\ exit = Running
  /\ cancelFile' = FALSE
  /\ UNCHANGED <<jobVars, cfg, propertyVars, bundleVars, begun, saw, trail,
                 diag, file>>

------------------------------------------------------------------------------
Startup == AcceptArguments \/ ParseSolveCommandConfig \/ EmitSolveStartLifecycle

SolveTemporal ==
  \/ LoopTop \/ LoopEnds \/ PreparePathSolveInputs
  \/ PreparePropertyTemporalPrelude \/ RouteCancelled \/ RouteSolved
  \/ GateShapeMotionQualityRegression \/ ReportPropertyTemporalSolveResult

ProcessPostTemporalReplacement ==
  \/ AcceptFastVertexPreference \/ BaselineCancelled
  \/ SolveReplacementBaseline \/ RetryFails \/ RetryCancelled \/ RetryAccepted
  \/ RetryLadderEnds \/ ApplyReplacementInitialOrFallbackDecision

CompleteSolvedProperty ==
  \/ SkipPostSolveVertexReduction \/ PostSolveVertexReductionCancelled
  \/ TryPostSolvePathVertexReduction \/ CleanUpStaticKeys \/ SkipTemporalRefit
  \/ TemporalRefitCancelled \/ TryTemporalRefitKeyReduction
  \/ AccuracyGateOptimizationNote \/ AppendWithoutLandmarks
  \/ AppendWithLandmarks

Ending ==
  \/ EmitSolveCancelledLifecycle \/ WriteCancelledPartial
  \/ WriteCompletedOutput \/ EmitDoneProgress \/ EmitDoneDiagnostics

\* What the process does when nothing fails.
RunSolve == \/ Startup \/ SolveTemporal \/ ProcessPostTemporalReplacement
            \/ CompleteSolvedProperty \/ Ending

Failure == \/ RejectUsage \/ InputThrows
           \/ ProgressThrows \/ DiagnosticsThrows \/ OpenOutputThrows

Host == HostCreatesCancelFile \/ HostWithdrawsCancelFile

Next == RunSolve \/ Failure \/ Host

Spec == Init /\ [][Next]_vars /\ WF_vars(RunSolve)

------------------------------------------------------------------------------
(***************************************************************************)
(* Properties.                                                             *)
(***************************************************************************)
ControlOK ==
  /\ pc \in Stages /\ cfg \in ConfigSpace
  /\ idx \in 0..N
  /\ exit \in ExitCodes \cup {Running}
  /\ cancelFile \in BOOLEAN /\ saw \in BOOLEAN /\ begun \in 0..N
  /\ diag \subseteq {"solve_start", "solve_cancelled", "solve_done"}

PropertyOK ==
  /\ prep \in PreparationSpace /\ keys \in KeyList
  /\ accepted \in BOOLEAN /\ fast \in BOOLEAN
  /\ baseline \in [use : BOOLEAN, keys : KeyList]
  /\ retries \in 0..MaxRetries

BundleOK ==
  /\ results \in Seq(ResultGroup) /\ totalKeys \in Nat
  /\ file \in [kind : {"none", "partial", "complete"}, whole : BOOLEAN,
               results : Seq(ResultGroup), totalKeys : Nat]

TrailOK == trail \in Seq(0..DoneProgress(N)) /\ Len(trail) > 0

\* Every variable has its type: the stage, the loop index, which never passes
\* N, the key bundle, and the progress field, which never leaves [0, 1].
TypeOK == ControlOK /\ PropertyOK /\ BundleOK /\ TrailOK

\* results holds the properties before idx, each once and in order.
ResultsInOrder ==
  /\ Len(results) = idx
  /\ \A j \in 1..Len(results) : results[j].property = j - 1

MarkedCancelled(group) ==
  "cancelled" \in group.keys.notes /\ ~group.keys.converged

\* A successful exit means a whole output that covers every property in order;
\* exit 5 means a whole output in which every result is marked cancelled and
\* not converged; a usage error leaves no output.  The done event comes only
\* after a whole and complete output.
ExitTruthful ==
  /\ exit = 0 => /\ file.kind = "complete" /\ file.whole
                 /\ Len(file.results) = N
                 /\ \A j \in 1..N : file.results[j].property = j - 1
  /\ exit = 5 => /\ file.kind = "partial" /\ file.whole
                 /\ \A j \in 1..Len(file.results) :
                      MarkedCancelled(file.results[j])
  /\ exit = 2 => file = NoFile
  /\ "solve_done" \in diag => file.kind = "complete" /\ file.whole

\* A complete bundle that is cut short comes with exit code 1, which the
\* documentation gives to every I/O error.
IoErrorIsReported ==
  file.kind = "complete" /\ ~file.whole => exit \in {Running, 1}

\* A key list that a cancelled solve left behind never reaches an output that
\* claims to be complete.
NoCancelledSolveInCompleteBundle ==
  file.kind = "complete" =>
    \A j \in 1..Len(file.results) :
      "cancelled" \notin file.results[j].keys.notes

\* While the cancel file stays, the loop begins no further property: the stage
\* that runs belongs to a property begun before the file appeared.
NoPropertyBegunAfterCancel ==
  pc \in PropertyStages /\ cancelFile => idx < begun

\* A run in which a poll found the cancel file never ends in success, as long
\* as the landmark stage, which polls too, is off.
SeenCancelNeverSucceeds ==
  saw /\ ~cfg.landmarks => exit # 0

\* The same, without the exception: what the documentation says.
CancelFileMeansExitFive ==
  saw => exit # 0

\* Once the replacement decision is made by comparison with the baseline, the
\* property never has more keys than that temporal baseline.
ReplacementNeverAddsKeys ==
  /\ pc \in {"reduce", "cleanup", "refit", "accuracy", "append"}
  /\ prep.replaced /\ ~fast
  => keys.count <= baseline.keys.count

\* The process ends: no retry ladder, poll or stage keeps it running for ever.
Terminates == <>(exit # Running)

\* What the host is promised, with the output file and the exit code it sees.
Job == INSTANCE SolveJob WITH
         solved <- Len(results),
         bundle <- [kind |-> file.kind, count |-> Len(file.results),
                    whole |-> file.whole]

\* The command keeps that promise as long as no write is cut short: one property
\* is added at a time, the output is written at most once, and exit 0 and exit 5
\* come with the whole output they claim.
ImplementsJob == Job!Spec

------------------------------------------------------------------------------
(***************************************************************************)
(* The inductive invariant behind these properties, in parts.              *)
(***************************************************************************)
AfterWrite == {"doneProgress", "doneDiagnostics"}

LoopInv ==
  /\ pc \in PropertyStages => idx < N
  /\ pc \in {"argv", "input", "start"} => idx = 0
  /\ pc \in {"write"} \cup AfterWrite => idx = N
  /\ pc = "exited" <=> exit # Running

CompleteOutput ==
  /\ file.kind = "complete" /\ file.results = results /\ idx = N
  /\ "write" \notin Faults => file.whole

PartialOutput ==
  /\ file.kind = "partial" /\ file.results = results
  /\ "write" \notin Faults => file.whole
  /\ \A j \in 1..Len(results) : MarkedCancelled(results[j])

OutputInv ==
  /\ ResultsInOrder
  /\ pc \notin AfterWrite \cup {"exited"} => file = NoFile
  /\ pc \in AfterWrite => CompleteOutput
  /\ exit = 0 => CompleteOutput
  /\ exit = 5 => PartialOutput
  /\ exit = 2 => file = NoFile
  /\ "solve_done" \in diag => pc = "exited" /\ CompleteOutput

\* The accepted candidate was compared with the baseline it replaces.
DecisionInv ==
  /\ pc = "retry" => ~baseline.use
  /\ pc = "decide" /\ baseline.use => keys.count <= baseline.keys.count
  /\ ReplacementNeverAddsKeys

\* What the process has seen is still there, and it is on its way out.
CancelInv ==
  /\ saw => cancelFile
  /\ saw /\ ~cfg.landmarks =>
       /\ pc \in {"gate", "report", "cancelDiagnostics", "cancelWrite", "exited"}
       /\ exit # 0

\* A cancelled solve's key list lives only while the cancel file is there, and
\* no further than the report that looks for the file; neither a baseline nor
\* an appended result carries its word before a partial output marks them all.
NotesInv ==
  /\ "cancelled" \in keys.notes =>
       /\ cancelFile
       /\ pc \in {"gate", "report", "cancelDiagnostics", "cancelWrite", "exited"}
  /\ "cancelled" \notin baseline.keys.notes
  /\ file.kind # "partial" =>
       \A j \in 1..Len(results) : "cancelled" \notin results[j].keys.notes
  /\ file.kind = "complete" => file.results = results

Inv == TypeOK /\ LoopInv /\ OutputInv /\ DecisionInv
==============================================================================
