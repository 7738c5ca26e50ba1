# A formal model of bbsolver

bbsolver reads a *sample bundle* (the values of animated properties, frame by
frame) and writes a *key bundle*: a few keyframes per property whose eased curve
stays within a tolerance of the samples.  `bbsolver solve` is launched by a host
(an After Effects or Blender script) that watches a progress stream, may create
a *cancel file* at any moment, and reads the output file and the exit code.

This directory holds TLA+ modules translated from the C++ sources, TLC
configurations that check them on small instances, and TLAPS proofs about them
for every value of their constants.  `PROJECT.json` ties every definition to the
lines it models, and lists the runs, the hazards and the theorems.

    tlc -workers 2 -config solve.cfg MCSolveCommand.tla
    tlapm SolveCommand_proofs.tla

Contents: 1 inventory, 2 the modules and the code, 3 the runs, 4 fairness,
5 the proofs, 6 what the work showed about the code, 7 what is not modelled,
8 plan.

## 1. Inventory

Paths are under `src/src`; "state" is what survives a call, or what a call keeps
between its steps.

| component | state | operations | interacts with |
|---|---|---|---|
| `solve/`: solve command | loop index, the keys of the property, the results, the totals, the output file, the exit code | `RunSolve` and its stages: preparation, temporal prelude, route, replacement decision, reductions, cleanup, refit, append, the two writes | calls every solver; polls the cancel file; writes both event streams |
| `progress/`: progress stream, cancellation | the writer's mutex and file descriptor; the marker file on disk | `Emit`, `CancelFileExists`, `MarkCancelledPartial` | shared by the tasks of every parallel loop; the host owns the file |
| `diagnostics/` | a mutex and an `ofstream` | `DiagnosticsWriter::Emit` | written by the solve command; throws on failure |
| `routing/` | none | the mode policy, `ChoosePropertySolveRoute`, the route solver | chooses who solves a property |
| `dp/`: placements | the recurrence's arrays (`dp`, `dp_max_err`, `prev`, the key value of each anchor), the tasks' shared flag | `RunDPPlacement`, `RunForwardLongestSpanPlacement`, key assembly | called by every temporal solver with its own segment fit |
| `fit/`, `metrics/` | none | segment fits (linear, Bezier, Ceres, unified spatial), errors | called from the parallel fits of the placement |
| `path/decompose/` | slots of the children, the shared cancel flag, the count of done children | `SolvePathDecomposedProperty` | one placement per child; emits `vert_done` |
| `path/replacement/` | the target ladders, the fit, the keys with the samples they were solved from, the baseline, the verdict, the retry | `FitReplacementPathProperty`, the post-temporal decision, the retry loop | frame fits, replacement temporal solver, plain solver for the baseline |
| `replacement_temporal/` | the best keys so far, prune budgets | `SolveReplacementShapeFlatTemporal`: placement, anchor promotion, linear prune, multimode and forward-span candidates | `dp/`, `path/multimode/` |
| `path/bridge_prune/` | the keys with some vertices removed, the candidates of a pass, the indices a batch removed | `TryPostTemporalBridgePrune` | bridge refit, temporal validation, sharp corner policy |
| `path/reduction/` | target ladder | `TryPostSolvePathVertexReduction` | bridge prune, path fit |
| `path/multimode/` | the landmark partition, one slot per segment | landmark subpaths, region candidates, recombined temporal solve | replacement temporal solver, in a parallel loop |
| `path/fit/`, `frame_fit/`, `geometry/`, `dense/`, `config/`, `temporal/` | none | outline fits, feature layouts, visible outlines, validation of keys against samples | called by the components above |
| `temporal/refit/` | the candidate | `TryTemporalRefitKeyReduction` | the placement, again |
| `motion_smooth/` | none | the smoothing modes and their reduction gate | a route of the solve command |
| `samples/`, `shape/`, `solve/static_key_cleanup.cpp` | none | raw and source keys, closed shapes, corners, static runs | pure functions on key lists |
| `io/`, `verify/`, `app/`, `runtime/` | none | bundles to and from JSON, `verify` and `dump`, the command line, thread limits | sequential |
| examples, benchmarks, schemas, scripts | - | hosts, data, packaging | the hosts create the cancel file |

**What is hard.**
* *Concurrency.* Properties are solved one after the other.  Inside a property
  there are parallel loops (CMake always defines `BBSOLVER_HAVE_TBB`): the fits of
  one anchor (`dp/dp_placer.cpp:185`), the children of a decomposed path
  (`path/decompose/path_decomposed_solver.cpp:116`), the candidates of a bridge
  prune pass, the frames of a path fit, error evaluation, and the landmark
  segments.  They share the progress writer and cancel flags.
* *Cancellation.* The cancel file is polled at some places and not at others, it
  may appear between any two, and the host may take it away again.  A cancelled
  solver hands back an ordinary value (keys with the note `cancelled`) that every
  stage above must recognise.
* *Failure.* Either event stream may throw at any event, the output may fail to
  open or be cut short; `main` turns every exception into exit code 1.
* *Order.* Candidates replace each other in long chains of "better if": the last
  word must not be worse than what was compared first.
* *Boundaries.* One sample, constant samples, windows, ladders that end next to
  the source, ties within a tolerance.

**What makes each component correct.**
* Solve command: the output file and the exit code agree; a cancelled solve is
  never published as complete; no property is begun after a poll has seen the
  file; the totals are those of the bundle; a replacement never adds keys.
* Placements: the result is a chain of feasible segments that agree at every
  shared key, as short as any, whatever order the fits finish in.
* Progress stream: lines do not mix, and nobody waits for ever.
* Decomposed paths: children that were skipped or cancelled are never put into a
  path; taking a path apart never makes it worse.
* Bridge prune: only vertices that were evaluated go, never one that is a corner
  when it goes, never below the minimum, and a cancel undoes everything.
* Target ladders: every target is a reduction within the bounds.
* Replacement, post-solve reduction, temporal refit: what is accepted was
  validated, has fewer vertices or keys, and is not worse than a valid baseline.
* Segment fitting: what is called feasible is within tolerance wherever its curve
  is measured, and a measure that stops early changes no decision.
* Replacement temporal solver: keys that replace the placement follow the source
  path, not only the reduced one; no step trades a valid result for another.
* Static cleanup: keys taken away were not needed, and the report stays true.
* Multimode: regions have the keys they need and no more, and together they
  follow the path; a cancel inside a region ends the call.

## 2. The modules and the code

| module | models | state and actions |
|---|---|---|
| `SolvePolicy` | `routing/`, mode policy, progress arithmetic | pure operators |
| `SolveCommand` | `RunSolve` and `main`, with the host | `pc` is the stage; one action per stage and outcome; failures and the host are actions of their own |
| `SolveJob` | the promise to the host | solved properties, bundle, exit code |
| `PlacementProblem` | what a placement is given | a table of fits over pairs of samples: feasible, error, and the key values at both ends |
| `DPPlacement` | `RunDPPlacement` | the row under construction (`j`, `next`), the tasks, the arrays; one action per task step, reduction step and return |
| `ForwardPlacement` | `RunForwardLongestSpanPlacement` | the span under construction, shortened sample by sample until it fits |
| `PropertyPlacement` | `SolveProperty` as far as it chooses the placement | `DPPlacement` or, by `strategy`, `ForwardPlacement` on the same problem |
| `LineStream` | what an event stream promises | whole lines, or the beginning of a failed one |
| `ProgressStream` | `ProgressWriter::Emit` | mutex holder, bytes left; one action per `write(2)` outcome |
| `PathDecomposed` | `SolvePathDecomposedProperty` | one task per child with its own program counter, the shared flag, the slots, the events |
| `BridgePrune` | `TryPostTemporalBridgePrune` | the vertices each key has left, the pass, its evaluations, the best of them, the batch and its shifts; whether a vertex is a corner depends on the neighbours it has left |
| `PostSolveReduction` | `TryPostSolvePathVertexReduction` and its caller; extends `BridgePrune` | the stage, the dropped closure, the rest of the ladder, the outcome, the keys the caller goes on with |
| `TargetLadders` | the three target ladders | pure operators, in closed form |
| `TargetLadderLoop` | the loop that builds a ladder, turn by turn | pure operators, compared with the closed form when `MCPathReplacement` is checked |
| `ReplacementAcceptance` | the gates of the replacement: summary of a validation, verdict, retry eligibility, fast preference, worth attempting | pure operators on solved keys: count, what the solver says of them, what validating them finds |
| `PathReplacement` | `FitReplacementPathProperty` and `ProcessPostTemporalReplacement` | the ladder still to try, the fit, the keys and samples as they would be handed back, the baseline, the retries left; one action per target, solve, decision and retry |
| `MorphProgress` | `path/temporal/`: the progress grid, its accepted bands, the search for an ease, the error of keys | pure operators |
| `ReplacementSegments` | the segments of the replacement temporal solve: exact, by progress, by ease, with relaxed ends; keys from segments | pure operators |
| `ReplacementTemporal` | `SolveReplacementShapeFlatTemporal` | the candidate at work, its anchors and segments, the best keys so far, the precheck; one action per candidate, segment, replacement and cancel |
| `SegmentFit` | `FitSegment` and `ComputeError` | the curve being measured, the places (samples, or their subframes) the workers have measured, the report so far, the miss of the line, the smallest miss |
| `SampleKeys` | samples, keys, what keys evaluate to; raw frame keys, source keys, static runs | pure operators |
| `KeyCleanup` | the still end before and after the solve, the collapse of equal keys, the anchor at the boundary, the temporal refit | the keys with both errors they report, step by step; the refit's candidate |
| `RegionTiming` | `path/multimode/`: where a path is cut, the anchors of a region (a recursive function over the samples), the ease of its segments, recombination | pure operators |
| `LandmarkPartition` | the partition with the fewest keys (a recursive function over the number of regions), its alternatives, the diagnostics that choose among them, emission | pure operators |
| `PathMultiMode` | `SolveShapeFlatMultiModeTemporal` and `EmitShapeFlatLandmarkSubpathKeys` | the stage, the regions left and solved, the anchors so far; one action per region, poll and return |

Each module `MCx` gives the constants of `x` small values; `MCPlacement` those of
`PropertyPlacement`.  Modules `x_proofs` hold the theorems about `x`:
`DPPlacement_proofs` also those about `PropertyPlacement`, `ParallelTasks_proofs`
those about `PathDecomposed` and `ProgressStream`, `KeyFidelity_proofs` those about
`SegmentFit` and `KeyCleanup` (section 5).

**How they compose.**  `SolveCommand` treats the solvers as the set of values
they can return: keys, or nothing but the note `cancelled`.  The other modules are
the insides of these solvers.  `PostSolveReduction` contains the bridge prune as
its middle part.  `ReplacementTemporal` takes of the placement what `DPPlacement` is
shown to give: a chain, and where no fit moves a key a shortest one; and of the
multimode solver a converged chain that validates, or nothing.  `PathMultiMode` calls the partition of
`LandmarkPartition` over the regions of `RegionTiming`, which judges motion with
`MorphProgress`.  `KeyCleanup` allows any placement within tolerance for its
route, a superset of what `DPPlacement` is proved to give.

**Abstractions.**  A key list is as rich as its module's properties need: a
length with an error (`SolveCommand`, `PathReplacement`), vertices
(`BridgePrune`), times, values and interpolation (`SampleKeys`,
`ReplacementSegments`).  An outline is one number and the distance of two
outlines their difference; in `RegionTiming` every vertex is one number.  Errors
are on a small integer scale, and where a cubic is needed (`BezierProgress`)
progress is counted in 1/108, so that the thirds of a segment, the ease and the
grid are exact.  What numeric optimisation finds is free within the outcomes the
code distinguishes.  Wording of events and notes is left out, except that
`SolveCommand` keeps progress numbers, and that the words of a note that code
compares ("cancelled", and whether anything was appended to it) are kept.

In `PathReplacement` a fit is the number of vertices it ends with, taken from the
counts its layouts can reach: the target, up to four more by adaptive insertion,
up to two more by the feature layout, each cut at the source and at the
configured maximum.  The stages between the fit and the post-temporal decision
(refinement at the winning fractions, the route, the trim) keep the vertex count
and are part of the solve.

Definitions named for a mistake (`TaskFinishesByPoll`, `PassesStrictly`,
`LockIgnored`, `AdaptiveCountsUncapped`...) are not part of the model.  Each stands in
front of the definition it distorts, in the way a plausible bug would, and serves
to see that the property named with it in `PROJECT.json` does fail.

## 3. The runs

| run | question | bounds, and why they are enough |
|---|---|---|
| `solve` | Do the output and the exit code tell the truth, for every mode, route, poll and failing event? | two properties, the least with a "previous" and a "next" one; one or eight keys (fewer, equal or more after each stage); one retry; every event of either stream and the opening of the output may fail; the cancel file stays once it is there |
| `solve_promise` | Does the command implement `SolveJob` and end, when the host may withdraw the file? | as above, for the longest of the routes |
| `solve_short_write` | violation: is an output that was cut short reported? | one property; one key |
| `solve_landmark_cancel` | violation: is a cancel seen by the landmark stage reported? | one property |
| `placement` | Is the placement a shortest chain under every interleaving of its fit tasks and a cancel file that comes and goes, and when is the greedy one? | four samples: the least with a choice between different chains of one length; all 729 tables of exact fits with a window of two, widened or not, of errors that tie, and of relaxed fits; for the greedy placement also fits that move one end, and all tables of five samples (a first span that decides about later ones); fewer samples for the early returns |
| `parallel` | Do the threads of the solver lose a child, choose wrongly, tear a line, or wait for ever? | the three channels of a vertex on two workers, so that one of them starts late, with three error levels around the tolerance; or three tasks that write to the stream (a holder, one waiting, one that goes on after a failure), two events of three bytes each (first, middle, newline) |
| `post` | Do the drop, the prune and the ladder remove what was validated, keep corners, minimum and classes, and does a cancel undo all of it? | two keys of three to five vertices, equal or not, and a minimum of three in place of four (two removals are left, the least in which a batch shifts an index); two passes of chunks of two, so that classes merge; corners that cease to be and that come to be when a neighbour goes; three errors, of which the outer two differ and the others tie |
| `replacement` | Is what the replacement hands back validated, bound to its samples and no worse than the baseline, however the search, the solves, the retries and a cancel go? | eight paths: sources of one and of several vertex counts, with and without a configured minimum and maximum, with the preference for vertices on and off, retries that find a fit and retries that do not; two key counts and three error levels around the two tolerances; every ladder of small sources, zero and negative options included, against the loop that builds it |
| `temporal` | Do the keys of the replacement temporal solve follow the source, do its prunes compose, and what do a candidate and a cancel replace? | up to five samples (a prune of two segments over two samples each) that stand, move or jump; the reduced path exact or off by one at one sample; nine settings, each of which reaches a branch; a progress grid of four steps; a precheck from four samples on and two checks per sample in place of 24 and 16 |
| `fidelity` | Do fail-fast stops and concurrent workers change the verdict on a segment; do trimming, collapsing, anchoring and refitting keep the keys within budget, in order, and their report true? | the fit: up to three samples (the least with one before and one after the place that stops a measure), or two samples of two subframes; twelve settings; errors within, at and beyond tolerance and gate. The cleanup: every motion of up to four samples over three positions, five longer ones; four routes; a tolerance as large as a step between positions; with and without a screen gate, for values and outlines |
| `multimode` | Are anchors and partitions minimal, does what is emitted follow the path, and does a cancel end the call? | three and four vertices over five samples that stand, move evenly, ease, jerk or move late, at most three regions and four boundary points (all there are with three vertices; with four, only the ends of the regions are left); budgets that suffice, run out late and run out early; a path of one sample, whose anchors are one |
| `multimode_semantic_split` | violation: does opposed timing end in a semantic split? | the path of the test: two pairs of vertices, one easing in as the other eases out |

The bounds that stand for constants of the code are `Bisection`, `Unit`
(`MorphProgress`), `CandidateSlots` (`LandmarkPartition`) and the values in the
`.cfg` files.  `parallel` and `fidelity` each explore two modules that share nothing
(`MCParallelTasks`, `MCKeyFidelity`): the initial state chooses one, and the other
stands still.  Where a run turns deadlock checking off, the program really stops:
the process has exited, or the call has returned.  `parallel`, `replacement`,
`temporal` and `multimode` check deadlock, with an action for the call that is
over.

What the passing runs show, property by property:

* `ExitTruthful`, `NoCancelledSolveInCompleteBundle`, `SeenCancelNeverSucceeds`:
  the host can believe what it is told, as long as no write is cut short
  (`solve_short_write`) and the file is not withdrawn (section 6).
* `ReplacementNeverAddsKeys`: the comparison the replacement won still holds when
  later stages have reworked the keys.
* `NoPropertyBegunAfterCancel`, `ImplementsJob`, `Terminates`: section 5.
* `EveryReachedStartTried`, `SeenCancelStops`: a cancel in the middle of the
  parallel fits never leaves a row reduced from some of its candidates.
* `ResultIsAChain`, `FewestKeys`: the recurrence with its tolerant ties.
* `GreedyIsAShortestChain`: a greedy result is a chain, and where every part of a
  feasible segment is feasible, as short as any.  Without that it may give up
  although a chain exists; the code then falls back on all samples.
* `OnlyAThrowTearsALine`, `KeepsPromise`, `EveryTaskGetsThrough`: the writer keeps
  lines whole but for a line whose own write failed, and each `Emit` returns, also
  behind one that threw.
* `NoChildLost`, `DecompositionOnlyImproves`: the decomposed path.
* `NeverBelowMinimum`, `ClassesStayTogether`: batches shift indices and merge
  classes, and yet vertices go from all keys of a class alike, and never too many.
* `CornersKept` (of every step): corners are looked for again in the keys as they
  are, for the plan of a pass and for each removal of a batch, with the index
  shifted; so a vertex that became one when its neighbour went stays, and so does
  one of a key whose class a batch has joined.
* `ReportsTheValidatedError`: the keys carry the error of their last validation,
  and the outline error told of them, which travels through passes and batches in
  variables of its own, is the same number.
* `CancelKeepsTheSolvedKeys`: a cancel anywhere in the prune or after an accepted
  drop reaches the caller, and nothing is taken over.
* `NeverRegresses`, `AcceptedIsValidated`: where the replacement met the baseline,
  keys are never added and a valid baseline is never traded for something
  invalid; the three places that accept write what the validation found over what
  the solver claimed, and hand out samples and vertex count of the same fit.
* `FitsWithinConfiguredVertices`: whatever layout wins.
* `ReplacedResultsFollowTheSource`: the segments are fitted on the reduced path
  and accepted by a rounded progress; the keys that replace the placement are
  within tolerance of the source all the same.  The placement's own keys are
  exempt: section 6.
* `PrunedSegmentsCompose`: each segment starts where the one before has moved the
  shared anchor.
* `NeverTradesForWorse`, `CancelKeepsOnlyThePrecheck`: the chain of candidates.
* `FeasibleIsWithin`, `SimplestCurveThatFits`, `GateSeesTheWholeMiss`: a report that
  covers a part of a segment is only relied on where it decides like a whole one.
  A curve is within tolerance at the places where the code measures it: at every
  subframe, but for the eased outline, which is measured at the samples
  (section 6).
* `CleanupStaysWithin`, `ReportStaysTrue`, `KeysMoveForward`: however the four steps
  combine, on samples that were trimmed and keys that were resampled.
* `RegionAnchorsAreFewest`, `FewestKeysInAll`: against every set of anchors and every
  way to cut the path, enumerated.
* `EmittedFollowsSource`: what is emitted covers every vertex once and follows it.
* `SeenCancelNeverConverges`: a cancel inside the solve of a region comes back as a
  failed region or a region that cannot be emitted; the later polls still end the
  call without keys.

## 4. Fairness

Safety is checked without fairness.  Termination is checked under weak fairness
of the solver's own steps only (`WF_vars(RunSolve)` in `solve_promise`,
`WF_parallelVars(WritesStream)` in `parallel`): the operating system goes on scheduling the
process, and TBB's parallel loops run every body to its end.  Nothing is assumed
of the host: it need never create, withdraw or keep the cancel file.  A `write(2)`
that is interrupted is retried and is a stuttering step; the host is assumed to
read its pipe, or a write would block for ever.  The other modules are loops over
finite lists that every action shortens, and state no fairness.

## 5. The proofs

All obligations are checked by tlapm 1.4.5.  The constants are constrained by
named assumptions only: `ConstantsAssumption` (SolveCommand), `ProblemAssumption`
and `InfinityAssumption` (placements: a problem is well formed, and "infinity" is
larger than any chain), `StreamAssumption`, `DecomposedAssumption`,
`PathsAssumption`, `BridgePruneAssumption`, `PostSolveReductionAssumption`,
`RegionTimingAssumption`, `BoundaryAssumption` (at most twenty boundary points: a
region costs a twentieth of a key, so that fewer than twenty never outweigh one; the
code has twelve), `ClipsAssumption` and `SmoothedAssumption` (samples and keys in the
order of time, errors that are natural numbers), the `CallsAssumption`s (a call
carries numbers, switches and, for the multimode solver, a path), and
`MultiModeAssumption`: an answer of the multimode
solver is a chain from the first sample to the last that converged and validates,
or nothing.  TLC evaluates each of them on the instances.  A theorem that needs
more than its module's assumptions says so in its statement.

tlapm cannot instantiate the library's induction theorems, which take an operator.
Where a proof needs induction over the length of a batch, a sum or a ladder, it
goes by the set of the numbers a statement holds of: `SmallestElement` is the
well-foundedness of the naturals, `IntervalInduction` follows from it, and the
recursive functions (`BestIndex`, `SumOver`, `Ascending`, `TotalOf`, and the
recurrences of `RegionAnchors` and `Partitions`) are reasoned about with it.  Folds
stay out of reach, since their definitions are recursive operators; where a theorem
speaks of a value they compute (`ErrorAt`, `PlacedKeys`), the value is left as it is.

**SolveCommand_proofs** (any number of properties, any configurations, key
counts, faults).  `Invariance` proves the inductive invariant `Inv`: types, then
`LoopInv` (what `results` holds at each stage of the loop), `OutputInv` (what the
file may hold before and after each write, in particular that a complete file
implies `idx = N`) and `DecisionInv` (the comparison made by the replacement
decision carried through the reduction stages).  `ExitTruthful` is not inductive:
it speaks of the exited process only, and `OutputInv` says what it relies on
while the process still runs.  From it: `TypeCorrect`, `ExitIsTruthful` (assuming
that no write is cut short), `DecisionNeverAddsKeys`, `CancelStopsTheLoop` (with a
host that does what it likes), `CancelIsReported` (assuming that the host does
not withdraw the file), `NoCancelledKeysInCompleteBundle` (under the same
assumption) and `Implementation`: if no write is cut short, every step of `RunSolve` is
a step of `SolveJob` or leaves what the host sees unchanged.  The job's bundle says
whether it has all its bytes, and exit codes 0 and 5 require them; with a write cut
short the theorem is false, as `solve_short_write` shows.

`NoCancelledKeysInCompleteBundle` rests on `NotesInv`, which follows the note
`cancelled` through the stages: keys that carry it were made under a cancel file,
and the only stages that let such keys pass are followed by a poll.  With a host
that withdraws the file it is false (section 6), so the assumption is needed.

**DPPlacement_proofs** (any table of fits, any number of samples, any window, any
interleaving).  The inductive invariant has nine parts: `Types`, `Control`,
`Tasks` (which candidates the finished tasks have produced), `Links` (every
settled sample's `prev` is a feasible, compatible segment one step shorter),
`Settled` (rows before `j` are final), `Rivals` (a row under reduction is as good
as every candidate tried), `Path` (what the backtrack has collected),
`ResultIsAChain` and `FewestKeys`.  Minimality goes by comparing an arbitrary
chain with `dp` along its links; the chain is a function whose prefix lengths are
bounded by `dp` row by row, so that no induction over data is needed beyond the
rows the algorithm itself walks.  From it: `TypeCorrect`, `NoHoles`,
`CancelIsFinal`, `ConvergedIsAChain` and `Minimal`.  `Minimal` assumes exact fits;
for relaxed ones it is false (section 6).

*The greedy placement.*  `GreedyInv` is inductive over either placement's steps:
`ChainSoFar` (the anchors are a chain whose last one is the start of the span at
hand), `Tried` (longer spans from here were refused) and `StaysAhead`: where every part
of a feasible segment is feasible, the m-th anchor of any chain is no later than the
greedy one's.  A chain that reached the last sample in fewer segments would be ahead
of it.  From it: `GreedyIsShortest`.

**PathReplacement_proofs** (any paths, options, estimates and solves).  The
inductive invariant adds to the two properties `DataOK` (what kind of value each
variable holds, which the comparisons need) and `Undecided`: before the end
nothing is accepted; from the solve to the decision the keys belong to the samples
at hand and the samples to the fit; and where the verdict is in, the keys still
are what it was given on.  It is needed because the verdict is one step and the
summary is written over the keys in a later one.  From it:
`ReplacementNeverRegresses` and `AcceptedKeysAreValidated`.

`LaddersReduce` is about the retries' ladder in closed form: strictly ascending,
within its budget, every target below the source and within the bounds.  The
ladder of the first search is a set put in order; `AscendingElements` shows that
the recursive function `Ascending` lists a finite set's elements once and rising.
That the closed form is what the loop computes stays with TLC
(`LadderIsTheLoops`).  `FitsStayWithin` needs `LaddersInv`: every target still to be
tried keeps to the configured numbers of vertices, those of the retries too, whose
minimum the code raises; and the counts a layout may reach are capped before they
are compared.

**ReplacementTemporal_proofs** (any number of samples, any settings, placement and
answer of the multimode solver, a cancel at any point).  The inductive invariant
`TemporalInv`, has six
parts.  `CallInv`: the call stays one the program makes.  `ResultInv`: the result
converges only when it is promoted, leads from the first sample to the last, and,
unless it is the placement, follows the source; a fallback has a key at every
sample.  `PrecheckInv`: the multimode answer is there when it is asked for.
`PruneInv`, `SpanInv`: what a prune and a forward span have collected is a chain whose
segments were each judged from the value the one before left at their start.
`CancelInv`: after a cancel nothing has converged but the answer of before.

The main argument is `KeysCompose`: keys whose every segment stays within tolerance
validate as a whole.  It needs that an ease begins and ends where its segment does
(`EaseEnds`), so that two segments agree at the key they share, and that the worst
error of a segment bounds each of them.  `JudgedCompose` carries it to the anchors
and segments of a prune: a key has the value left there (`KeyValueIsLeft`), which is
what the next segment was judged from.  `PruneSegmentIsJudged` and
`StrictChordIsJudged` show that the fits return such segments and nothing else.
From it: `ReplacementsFollow`, `CancelReturnsThePrecheck`, `ResultsOnlyImprove` (an
action property) and `PrunedKeysCompose`.

`PrunedKeysCompose` has a hypothesis: where a call fits pairs, its influence range
contains 10 to 90.  A fitted pair is clamped to the range when it is judged and
written to the key unclamped, so outside that range the key's ease is not the one
that was judged.  The code validates the whole again before it takes it, which is
why `ReplacementsFollow` needs no such hypothesis.

**ParallelTasks_proofs** holds the two parts of the solver in which threads run.
*The children of a path* (any number of them and of workers, any interleaving):
`SlotsTell` says what a task's state implies: past its solve the slot is filled,
a finished task whose keys are "cancelled" has raised the flag, a skipped one has
seen the flag or an exception.  `KeysAre` says that candidates are what they are
called and that a converged reassembly is within tolerance.  `NoChildLost` alone
is not inductive: a task may finish long after the flag was read.  From them:
`EveryChildCounts`, `OnlyImproves`.
*The progress stream* (any number of tasks, events and bytes): `WriterTypeOK`
strengthened by `HolderAtTheEnd` (the holder's bytes are the last of the stream,
and are the first of its line), `CommittedEndsALine` and `OnlyAThrowTearsALine`.
The strengthening is needed because "no line is torn" says nothing of the line in
flight.  From it: `WriterTypeCorrect`, `LinesStayApart` and `Implements`, the
refinement of `LineStream`.

**KeyFidelity_proofs** holds the theorems about how well keys follow samples.
*The fit of a segment* (any number of samples and subframes, any errors and settings,
workers in any order).  The invariant adds to the types `Measuring` and `Judging`, which rest
on `Covers`: the report is the maximum of the units merged so far, and a measure
that ended early is one whose curve may stop early and whose report exceeds the
ceiling, so that "the report passes" means the whole segment was seen.
`LeftBehind` keeps for the result what is known of the curves before the one at
hand.  `GateIsSound` needs the ceiling of the line's measure to be at least the
gate (`LinearFailFastPropertyCeiling`).  From it: `FitIsWithin`, `FitIsSimplest`,
`GateIsSound`.

*The cleanup of a property's keys* (any clips, any keys of the route, any candidate
of the refit).  `CleanupInv` has four parts.  `CleanupTyped`: keys are in the order of
time at every step, for which each of trim, collapse, anchor, refit and the keys of
the solve is shown to keep the order.  `Stages`: which samples and which report each
step finds.  `Budget`: the error over the whole clip is at most the tolerance, what
the route reported, or what the route's keys had.  `Report`: what the keys report is
no less than their error, if the route's report was true of the samples it saw.
`Budget` and `Report` rest on two facts: keys that end no later than a still end
begins are as far from the whole clip as from the samples before it
(`StillEndAddsNoError`), and a step that replaces keys either leaves their motion as
it is or measures the new ones on the whole clip (`ReplacedKeysAreMeasured`).
From it: `KeysStayInOrder`, `CleanupKeepsTheError`, `ReportStaysTrueToTheEnd`.

**PathMultiMode_proofs** (any path, tolerance, gap, budget, limit on the regions and
moment of a cancel).  First the operators, each by induction over what its recurrence
runs over:

* *Anchors.*  `RegionAnchorsAreFew`: a chain extended from the shortest of the feasible
  starts is a shortest one (`FewestGoesOn`), since the last gap of any set of anchors
  is one of those starts.
* *Partitions.*  A cut is a function from 0 .. c to boundary points, each gap a region
  that can be emitted.  `PartitionsAreBest`: the row for c regions holds, for each
  point, a cut with the lowest score, and is reached wherever there is a cut
  (`NextRowIsBest`, by taking the last region off an arbitrary cut).  Since there are
  fewer than twenty regions (`LimitIs`), the lowest score is the fewest keys and then
  the fewest regions (`BestIsBestCut`).
* *The split that never pays* (`multimode_semantic_split` shows the test that expects
  one).  `NoSplitPays`: if the best is one region, a partition into
  several has no fewer keys, and the base regions come into play only where no
  partition into several is reached; but they are one themselves.  For that,
  `VertexRegionsAreFew` bounds the base regions by `MaxRegions`: fewer than m of some
  scores can have fewer than m ahead of them.
* *Emissions.*  `EmissionReconstructs`: what is said to be within tolerance was measured
  to be, along each way an emission is made.

The inductive invariant has four parts.  `Stages`: each entry point goes through stages
of its own.  `Solving`: anchors found are `RegionAnchors` of their region, emissions
kept are close to their samples, and the regions solved and left are together all
candidates, whatever was cancelled in between.  `Output`: from the choice on, the regions
chosen follow the path.  `Cancelling`: a cancel seen inside a region is not told apart
from a failure, so this follows the stage instead: whoever has seen the file is in a
stage that ends with a poll, and on the way to the output there is always a region
left to poll before.  From it: `AnchorsAreFewest`, `KeysAreFewest`,
`SplitIsNeverChosen`, `EmittedFollows` and `SeenCancelIsFinal`.

**PostSolveReduction_proofs** (any keys, corners, validation errors, order of the
batch and moment of a cancel).  The inductive invariant has five parts besides the
properties.  `KeysInv`: no key has more vertices than it came with.  `PassInv`: a pass
works on one class of keys of equal length; the batch names each candidate once and
none that it has removed.  `ClassInv`: keys that came with one count have one count.  `ErrorInv`: the
error carried beside the keys is the one they carry themselves, in `bestError` after
the single removal and in `batchError` from the second of the batch on.  `OutcomeInv`:
what the caller is offered and takes over in each stage.  `PassInv` is needed
because a batch shifts indices: a candidate that is applied is compared with those
removed before it, and the minimum holds only because a pass starts above it and
each removal looks again.  `ClassInv` is needed because two classes may meet on one
count and are then treated as one.  From it: `MinimumIsKept`, `NoCornerIsLost`,
`CountsStayEqual` and `ErrorIsOfTheKeys`, besides `Invariance` itself.
`CancelArrives`, that a prune which answers "cancelled" ends the reduction with that
answer and never reaches the ladder, gives `CancelledReductionIsDropped`, an action
property.

Model-checked only:
* every liveness property (fairness and `ENABLED` are beyond the prover);
* that the closed form of a ladder is what its loop computes, and that a placement
  which converges validates (it need not: section 6);
* how the errors and the placements that are folds come about (`ErrorAt`, `PlacedKeys`,
  `RefineAnchors`): the theorems hold whatever these compute.

## 6. What the work showed about the code

Three runs are expected to fail; each contradicts a sentence, or an assertion, of the
repository.

* `solve_landmark_cancel`: the landmark stage polls the cancel file, stops its
  own work and tells nobody; on the last property the exit code is 0
  (`docs/API_REFERENCE.md:83` says 5).
* `solve_short_write`: `WriteKeyBundleJson` (`io/io_json.cpp:55`) does not look at
  the stream after writing; a full disk gives a truncated bundle and exit code 0
  (`docs/API_REFERENCE.md:107` gives 1 for an IO error).
* `multimode_semantic_split`: a semantic split of the landmark partition is never
  chosen, since a partition with fewer keys would have won before
  (`SplitIsNeverChosen`, for every path);
  `tests/solver_unit/test_path_multimode_solver.cpp:941` expects the note of one for
  two pairs of vertices with opposed timing, and gets the same two regions by
  `key_count_dp`.

Seen while modelling, and true of the models without a run of their own:

* Hold, line and the optimized curves are measured at each subframe, the eased
  outline at the samples only (`fit/segment_fit_shape_temporal.cpp:149`), although
  bundles of outlines with `samples_per_frame > 1` are accepted
  (`io/sample_bundle_validation.cpp:160`).  So a segment accepted by its eased
  outline may be beyond tolerance at a subframe (`docs/TUNING_GUIDE.md:24`,
  `docs/TEST_CATALOG.md:256`); `FeasibleIsWithin` and its theorem speak of the places
  where each curve is measured.
* With relaxed endpoint fits the placement keeps one key value per anchor, so it
  may miss the shortest chain, or every chain; `docs/DP_ALGORITHM.md:12` speaks of
  an exact solution.  `FewestKeys` is therefore stated for exact fits.
* `include/bbsolver/dp/dp_placer.hpp:140` promises the last sample as an anchor;
  constant samples with holds allowed give `{0}`.
* `docs/API_REFERENCE.md:369` calls the progress field non-decreasing.  The first
  property of several starts below the 0.025 of `parallel_config`, and the refit
  stages (up to 0.952) are followed by one at 0.72.
* A host that withdraws the cancel file during a solve can get a cancelled, empty
  key list in a complete bundle: `ApplyFinalStaticTrimNote` extends the note
  `cancelled`, the equality test of `solve_property_temporal_result.cpp:30` fails,
  and the poll behind it no longer sees the file.
* A line cut in half by a failing `write(2)` stays in the stream, and other tasks
  append to it (`docs/API_REFERENCE.md:359`: each line is a complete object).
* `docs/SOLVER_CLI.md:87` gives exit code 2 for arguments that do not parse;
  `cli_options.cpp:53` throws, which ends in 1.
* `solve_cancelled` goes to the diagnostics only, not to both channels; if that
  write throws, the partial bundle is not written.  A done event that throws turns
  a complete, written bundle into exit code 1.
* Whether a vertex is sharp is decided on the keys as they are, so a vertex that was
  a corner of the solved path can go once a neighbour has: `CornersKept` speaks of
  the keys of the moment.  A batch can also remove a vertex from keys that had its
  count from the start: the validation against the samples covers them.
* The forward placement's fallback keeps the error of the spans it drops.
* The output is written in place, not renamed into place.
* The fast vertex preference (`path_replacement_fast_vertex_acceptance.cpp:69`)
  compares keys with an estimate and solves no baseline; it accepts errors up to
  the larger of `tolerance` and `tolerance_screen_px`, while the verdict calls
  keys valid up to `tolerance` only.
* `docs/USER_GUIDE.md:323` describes `path_replacement_max_key_growth_ratio` as the
  bound for candidates with more keys; the verdict accepts none of those, and
  uses the ratio in a note.
* Keys whose validation could not be made (`samples_checked` is 0 when the keys do
  not evaluate to a path) are judged by what their solver says of them.
* The "no improvement" branch of the retry loop (`path_replacement_retry_loop.cpp:113`)
  is never taken: the ladder of a retry begins at its target.  Two retries may
  find the same fit, and solve it twice.
* Accepted keys get the error the validation found, but only the fast preference
  also renews `max_err_screen_px`.
* `vert_done` events take their number before the writer's mutex
  (`path_decomposed_solver.cpp:85`), so they can be written in another order
  (`docs/API_REFERENCE.md:440`).
* The comparator given to `std::sort` in the bridge prune takes errors within
  1e-9 as ties and is not transitive (`path_bridge_prune_selection.cpp:84`), so the
  accepted order need not be sorted (`tests/solver_unit/test_path_bridge_prune.cpp:483`);
  `post` tries every order then, and no property depends on it.
* Segments of the replacement temporal solve are accepted by a progress rounded to
  a grid (`path_temporal_progress.cpp:93`), and the placement's keys are returned
  as converged without another validation: with a coarse grid a sample may be out
  of tolerance (`docs/USER_GUIDE.md:77`).  The keys that later replace them are
  validated, which is why `ReplacedResultsFollowTheSource` speaks of those.
* The two evaluators of keys disagree on a hold: `verify/verifier.cpp:29` keeps the
  left value at the time of the right key, the multimode reconstruction
  (`path_multimode_reconstruction.cpp:198`) returns the right key's value there.
  Promoted anchors are exported as holds.
* A cancel inside the anchors of a region is reported as `region_failed`; inside an
  interval it makes the interval unusable and the search goes on; the fast summary
  does not poll before its region.
* `cancelled` is appended to by the placement's caller, so tests of the notes for
  equality with it miss it in the forward-span and multimode steps of the
  replacement temporal solve; both poll again, which is why
  `CancelKeepsOnlyThePrecheck` holds.
* A duplicate terminal vertex is dropped without regard to the minimum
  (`path_post_solve_reduction.cpp:108`): four vertices may become three.
* The post-solve ladder does not poll; its caller does afterwards.
* A measure that stops early hands a partial miss to the gate of the eased outline;
  this is right only because the ceiling of that measure is raised to the gate
  (`segment_fit_policy.cpp:68`).  A unified spatial timing without length is taken
  as its seed, unmeasured.
* Several fallbacks report an error of 0 that nothing measured: raw frame keys,
  constant samples, all samples of an exhausted placement (not converged).
* A property whose still end was trimmed is never eligible for the temporal refit;
  the branch `replaced_at_boundary` of `AnchorFinalStaticBoundary` is never taken.

## 7. What is not modelled, and why

* Numbers: frame fits, Ceres, curve geometry, smoothing and the angle at which a
  corner is sharp are floating point; TLC has none, and the models leave their
  outcomes free instead.  An outline is a number, so that interpolation is exact.
* Text: notes, progress phrases, diagnostics and reports, beyond the words that
  code compares.
* Data conversion: JSON in both directions, tangents and eases in key assembly.
* Sequential commands without state: `verify`, `dump`, the dispatch of the command
  line.  How keys evaluate, which `verify` shares, is in `SampleKeys`.
* In `path/multimode`: the probe of visible channels, the diagnostics of mask
  channels and segment gaps (both only reach a note), input validation.
* The runtime scope: the models explore every interleaving a thread limit allows.
* Benchmarks, schemas, packaging and the example hosts; what a host may do to the
  solver is the environment of `SolveCommand`.

## 8. Plan

What is left, in the order of what it would add.

1. `PathReplacement` as a refinement of the one step in which `SolveCommand` lets
   the replacement end, and `PostSolveReduction` likewise.
2. Folds as recursive functions, and then that the placement of a region's keys
   has the fewest segments, as the dynamic program of `DPPlacement` does.
3. The gate of motion smoothing with its own samples.
