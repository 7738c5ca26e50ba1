------------------------- MODULE ReplacementTemporal -------------------------
(***************************************************************************)
(* SolveReplacementShapeFlatTemporal: the keys of a vertex-reduced path    *)
(* over time, judged against the outlines of the source path.  Candidates  *)
(* are tried one after the other: a multimode precheck, the dynamic        *)
(* program, its all-samples fallback promoted and pruned, the multimode    *)
(* result again, and a greedy forward span; each may replace the result.   *)
(***************************************************************************)
EXTENDS ReplacementSegments

CONSTANTS
  Calls,                          \* the calls explored
  MultiMode(_),                   \* what the multimode solver may answer
  kMultiModePrecheckMinSamples,   \* 24 in the code
  kChecksPerSample                \* 16 in the code

ASSUME BoundsAssumption ==
  kMultiModePrecheckMinSamples \in Nat /\ kChecksPerSample \in Nat \ {0}

VARIABLES
  call,       \* the call, its options normalised
  turn,       \* the candidate at work
  result,     \* the PropertyKeys so far
  precheck,   \* the multimode candidate solved beforehand, if any
  anchors,    \* anchors of the candidate at work
  segments,   \* and its segments
  checks,     \* segments it has tried
  pruning,    \* which step asked for the linear prune
  cancelFile, \* what the cancel function would answer
  seenCancel  \* it has answered TRUE (history)

work == <<anchors, segments, checks>>
host == <<cancelFile, seenCancel>>
temporalVars == <<call, turn, result, precheck, work, pruning, host>>

N == call.n
Cursor == anchors[Len(anchors)]

EmptyKeys == [keys |-> <<>>, converged |-> FALSE, notes |-> {}, by |-> "none"]
Cancelled == [EmptyKeys EXCEPT !.notes = {"cancelled"}]
AppendNote(r, note) == [r EXCEPT !.notes = @ \cup {note}]
IsCancelled(r) == r.notes = {"cancelled"}

------------------------------------------------------------------------------
(***************************************************************************)
(* NormalizeReplacementTemporalOptions, with the switches of the solver    *)
(* configuration folded in.                                                *)
(***************************************************************************)
kDefaultMaxGapSamples == 3
kDefaultForwardMaxGap == 4
kDefaultForwardChecks == 64

Normalize(o) ==
  LET window == Max({2, IF o.window <= 0 THEN kDefaultMaxGapSamples + 1
                        ELSE o.window})
      lo == Clamp(o.minInfluence, o.cfgMin, Max({o.cfgMin, o.cfgMax}))
      gap == IF o.gap <= 0 THEN kDefaultMaxGapSamples ELSE o.gap
      forwardGap == IF o.forwardGap <= 0 THEN kDefaultForwardMaxGap
                    ELSE o.forwardGap
      pairs == Clamp(o.maxPairs, 0, 48)
  IN  [o EXCEPT
        !.window = window,
        !.steps = Clamp(IF o.steps <= 0 THEN 16 ELSE o.steps, 2, 24),
        !.minInfluence = lo,
        !.maxInfluence = Clamp(o.maxInfluence, lo, Max({o.cfgMin, o.cfgMax})),
        !.gridSteps = Clamp(o.gridSteps, 2, 7),
        !.refinements = Clamp(o.refinements, 0, 2),
        !.maxPairs = pairs,
        !.fitPairs = o.allowBezier /\ o.allowShapeBezier /\ pairs > 0,
        !.allowRelaxed = o.allowRelaxed /\ (o.allowLinear \/ o.allowBezier),
        !.gap = Max({1, Min({gap, window - 1})}),
        !.multimode = o.multimode /\ o.allowLinear,
        !.fastPercent = Clamp(o.fastPercent, 0, 100),
        !.forwardMinSamples = Max({2, o.forwardMinSamples}),
        !.forwardGap = Clamp(forwardGap, 1, 1024),
        !.forwardChecks = IF o.forwardChecks <= 0 THEN kDefaultForwardChecks
                          ELSE o.forwardChecks]

IsCall(o) ==
  /\ o.n \in Nat /\ (o.input = "ok" => o.n > 0)
  /\ o \in [n : {o.n}, src : [0 .. o.n - 1 -> Int], red : [0 .. o.n - 1 -> Int],
            input : {"ok", "requires_shape_flat", "no_samples",
                     "sample_time_mismatch"},
            tolerance : Nat, uniform : BOOLEAN, allowLinear : BOOLEAN,
            allowBezier : BOOLEAN, allowShapeBezier : BOOLEAN,
            allowRelaxed : BOOLEAN, window : Int, steps : Int,
            minInfluence : Int, maxInfluence : Int, cfgMin : Int, cfgMax : Int,
            gridSteps : Int, refinements : Int, maxPairs : Int,
            fitPairs : BOOLEAN, gap : Int, multimode : BOOLEAN,
            fastPercent : Int, forward : BOOLEAN, forwardMinSamples : Int,
            forwardGap : Int, forwardChecks : Int]

ASSUME CallsAssumption == \A o \in Calls : IsCall(o)

\* Keys go from the first sample to the last, forwards.
WellFormed(o, keys) ==
  /\ keys # <<>> /\ keys[1].at = 0 /\ keys[Len(keys)].at = o.n - 1
  /\ \A k \in 1 .. Len(keys) - 1 : keys[k].at < keys[k + 1].at

\* What the multimode solver answers with, and promises of keys it found.
IsAnswer(o, m) ==
  /\ m \in [keys : Seq([at : Int, v : Int, interp : {"linear", "bezier"},
                       pair : Int \X Int]),
            converged : BOOLEAN, notes : SUBSET STRING, by : {"multimode"}]
  /\ m.converged => WellFormed(o, m.keys) /\ Validates(o, m.keys)

ASSUME MultiModeAssumption ==
  \A o \in Calls : \A m \in MultiMode(Normalize(o)) : IsAnswer(Normalize(o), m)

TemporalInit ==
  /\ \E o \in Calls : call = Normalize(o)
  /\ turn = "start" /\ result = EmptyKeys /\ precheck = {}
  /\ anchors = <<>> /\ segments = <<>> /\ checks = 0 /\ pruning = "none"
  /\ cancelFile = FALSE /\ seenCancel = FALSE

HostCancels ==
  /\ turn # "done" /\ ~cancelFile /\ cancelFile' = TRUE
  /\ UNCHANGED <<call, turn, result, precheck, work, pruning, seenCancel>>

Poll == seenCancel' = (seenCancel \/ cancelFile)

Become(r, where) == result' = r /\ turn' = where

------------------------------------------------------------------------------
(***************************************************************************)
(* The precheck and the dynamic program.                                   *)
(***************************************************************************)
\* Not a shape path, no samples, or samples at other times.
Ineligible ==
  /\ turn = "start" /\ call.input # "ok"
  /\ Become(AppendNote(EmptyKeys, call.input), "done")
  /\ UNCHANGED <<call, precheck, work, pruning, host>>

MultiModeFastAccepts(m) ==
  /\ m.converged /\ m.keys # <<>> /\ N >= kMultiModePrecheckMinSamples
  /\ call.fastPercent > 0 /\ 100 * Len(m.keys) <= N * call.fastPercent

PrecheckMultiMode ==
  /\ turn = "start" /\ call.input = "ok" /\ call.multimode
  /\ Poll
  /\ IF cancelFile THEN Become(Cancelled, "done") /\ UNCHANGED precheck
     ELSE \E m \in MultiMode(call) :
            IF MultiModeFastAccepts(m)
            THEN /\ Become(AppendNote(m, "precheck"), "forward")
                 /\ precheck' = {m}
            ELSE /\ turn' = "placement" /\ precheck' = {m}
                 /\ UNCHANGED result
  /\ UNCHANGED <<call, work, pruning, cancelFile>>

\* What RunDPPlacement promises of its result: a chain whose segments agree at
\* every shared key, or all samples and not converged.  Where no key moves it is
\* a shortest chain, and found if there is one.
Chains ==
  [size \in {o.n : o \in Calls} |->
     {a \in UNION {[1 .. k -> 0 .. size - 1] : k \in 1 .. size} :
        /\ a[1] = 0 /\ a[Len(a)] = size - 1
        /\ \A k \in 2 .. Len(a) : a[k - 1] < a[k]}]

Fits(a) ==
  [k \in 1 .. Len(a) - 1 |-> FitReplacementSegment(call, a[k], a[k + 1])]

EndsAt(a, s, k) == ValueOr(s[k].end, call.red[a[k + 1]])
StartsAt(a, s, k) == ValueOr(s[k].start, call.red[a[k]])

IsPlacement(a, s) ==
  /\ \A k \in DOMAIN s : s[k].feasible /\ a[k + 1] - a[k] <= call.gap
  /\ \A k \in 1 .. Len(s) - 1 : EndsAt(a, s, k) = StartsAt(a, s, k + 1)

FallbackAnchors == [k \in 1 .. N |-> k - 1]
FallbackSegments ==
  [k \in 1 .. N - 1 |-> Segment("linear", Neutral, SampleValue, SampleValue)]

PlacementKeys(a, s, found) ==
  [keys |-> AssembleKeys(call, a, s), converged |-> found,
   notes |-> IF found THEN {} ELSE {"fallback"}, by |-> "placement"]

Placed ==
  LET Shortest(placements) ==
        {p \in placements :
           call.allowRelaxed \/ \A q \in placements : Len(p.a) <= Len(q.a)}
      Fallback(placements) ==
        IF call.allowRelaxed \/ placements = {}
        THEN {PlacementKeys(FallbackAnchors, FallbackSegments, FALSE)} ELSE {}
      Outcomes(placements) ==
        {PlacementKeys(p.a, p.s, TRUE) : p \in Shortest(placements)}
        \cup Fallback(placements)
  IN  Outcomes({p \in {[a |-> a, s |-> Fits(a)] : a \in Chains[N]} :
                  IsPlacement(p.a, p.s)})

\* The note that is appended makes a cancelled placement unequal to "cancelled".
SolvePlacement ==
  /\ \/ turn = "placement"
     \/ turn = "start" /\ call.input = "ok" /\ ~call.multimode
  /\ Poll
  /\ IF cancelFile
     THEN Become(AppendNote(Cancelled, "temporal_solver"), "promote")
     ELSE \E r \in Placed : Become(AppendNote(r, "temporal_solver"), "promote")
  /\ UNCHANGED <<call, precheck, work, pruning, cancelFile>>

------------------------------------------------------------------------------
(***************************************************************************)
(* PromoteValidatedAnchorFallback, MaybeUseAllSampleLinearPruneCandidate:  *)
(* who asks for the linear prune.                                          *)
(***************************************************************************)
IsAllSamplesAnchorFallback ==
  "fallback" \in result.notes /\ Len(result.keys) = N

StartPrune(who) ==
  /\ pruning' = who /\ turn' = "prune"
  /\ anchors' = <<0>> /\ segments' = <<>> /\ checks' = 0

HoldFallback(r) ==
  [AppendNote(r, "hold_export") EXCEPT !.keys = MarkAsHold(@)]

Promote ==
  /\ turn = "promote"
  /\ UNCHANGED <<call, precheck, host>>
  /\ IF result.converged \/ result.keys = <<>> \/ ~IsAllSamplesAnchorFallback
     THEN turn' = "all" /\ UNCHANGED <<result, work, pruning>>
     ELSE IF ~Validates(call, result.keys)
     THEN /\ Become(AppendNote(result, "validation_failed"), "all")
          /\ UNCHANGED <<work, pruning>>
     ELSE IF call.allowLinear
     THEN /\ StartPrune("promote")
          /\ result' = [result EXCEPT !.converged = TRUE, !.by = "fallback"]
     ELSE /\ Become(HoldFallback([AppendNote(result, "linear_prune") EXCEPT
                                    !.converged = TRUE, !.by = "fallback"]),
                    "all")
          /\ UNCHANGED <<work, pruning>>

PruneAllSamples ==
  /\ turn = "all"
  /\ IF /\ result.converged /\ ~IsCancelled(result) /\ call.allowLinear
        /\ Len(result.keys) = N /\ N >= 3 /\ "linear_prune" \notin result.notes
     THEN StartPrune("all")
     ELSE turn' = "multimode" /\ UNCHANGED <<pruning, work>>
  /\ UNCHANGED <<call, result, precheck, host>>

------------------------------------------------------------------------------
(***************************************************************************)
(* TryLinearPruneExactAnchorFallback.                                      *)
(***************************************************************************)
MaxGap == Min({N - 1, Max({1, call.gap})})
LongGap == Min({N - 1, Max({MaxGap, Min({call.forwardGap, 16 * MaxGap})})})
MaxChecks ==
  Min({call.forwardChecks, Max({N, N * Min({MaxGap, kChecksPerSample})})})

\* The value the last segment leaves at the anchor it ends at.
AnchorValueForgotten == call.red[Cursor]
AnchorValue ==
  IF segments = <<>> THEN call.red[Cursor]
  ELSE ValueOr(segments[Len(segments)].end, call.red[Cursor])

PruneFit(end) == FitFallbackLinearPruneSegment(call, Cursor, end, AnchorValue)

\* The caller keeps its keys: the fallback's are exported as holds.
PruneRefused ==
  result' = IF pruning = "promote"
            THEN HoldFallback(AppendNote(result, "linear_prune"))
            ELSE AppendNote(result, "linear_prune")

PruneGivesUp == PruneRefused /\ turn' = IF pruning = "promote" THEN "all"
                                      ELSE "multimode"

PruneReturns(keys) ==
  /\ result' = [result EXCEPT !.keys = keys, !.by = "prune",
                              !.notes = @ \cup {"linear_prune"}]
  /\ turn' = IF pruning = "promote" THEN "all" ELSE "multimode"

\* The keys stay, and no longer count as converged.
PruneCancelled ==
  /\ turn = "prune" /\ N >= 3 /\ Cursor < N - 1 /\ cancelFile
  /\ Poll
  /\ Become([result EXCEPT !.converged = FALSE, !.notes = {"cancelled"}],
            IF pruning = "promote" THEN "all" ELSE "multimode")
  /\ UNCHANGED <<call, precheck, work, pruning, cancelFile>>

Take(end, fit, tries) ==
  /\ anchors' = Append(anchors, end) /\ segments' = Append(segments, fit)
  /\ checks' = checks + tries
  /\ UNCHANGED <<call, turn, result, precheck, pruning, host>>

\* The end of a run in which both paths stand still, if longer than the gap.
LongStillRun ==
  {ExactStaticRunEnd(call, Cursor)} \ 0 .. Min({N - 1, Cursor + MaxGap})

\* That run is tried first; then the candidate ends, the farthest first.
PruneSpan ==
  /\ turn = "prune" /\ N >= 3 /\ Cursor < N - 1 /\ ~cancelFile
  /\ LET Try(order, end) == [order |-> order, end |-> end,
                              fit |-> PruneFit(end)]
         Tries(static, ends) ==
           {Try(1, end) : end \in static}
           \cup {Try(Cardinality(static) + Cardinality({x \in ends : x >= end}),
                     end) : end \in ends}
         First(tries) ==
           {f \in tries : /\ \A g \in tries : f.order <= g.order
                          /\ checks + f.order <= MaxChecks}
         Go(first) ==
           \/ \E f \in first : Take(f.end, f.fit, f.order)
           \/ \* budget_exceeded or no_feasible_span
              /\ first = {} /\ PruneGivesUp
              /\ UNCHANGED <<call, precheck, work, pruning, host>>
     IN  Go(First({f \in Tries(LongStillRun, FallbackPruneCandidateEnds(
                                 Cursor, N - 1, MaxGap, LongGap)) :
                     f.fit.feasible}))

\* The whole candidate is validated again.
PruneCandidate == AssembleKeys(call, anchors, segments)

PruneTooFew ==
  /\ turn = "prune" /\ N < 3
  /\ PruneGivesUp /\ UNCHANGED <<call, precheck, work, pruning, host>>

PruneDone ==
  /\ turn = "prune" /\ N >= 3 /\ Cursor = N - 1
  /\ IF Len(anchors) < Len(result.keys) /\ Validates(call, PruneCandidate)
     THEN PruneReturns(PruneCandidate) ELSE PruneGivesUp
  /\ UNCHANGED <<call, precheck, work, pruning, host>>

------------------------------------------------------------------------------
(***************************************************************************)
(* MaybeUseMultiModeCandidate, MaybeUseForwardLongestSpanCandidate.        *)
(***************************************************************************)
BetterIfConverged(candidate, current) == candidate.converged

Better(candidate, current) ==
  /\ candidate.converged
  /\ \/ current.keys = <<>> \/ ~current.converged
     \/ Len(candidate.keys) < Len(current.keys)

ConsiderMultiMode ==
  /\ turn = "multimode"
  /\ Become(IF ~call.multimode \/ IsCancelled(result) \/ N < 3 THEN result
            ELSE LET m == CHOOSE x \in precheck : TRUE
                 IN  IF Better(m, result) THEN AppendNote(m, "multimode")
                     ELSE AppendNote(result, "multimode_rejected"),
            "forward")
  /\ UNCHANGED <<call, precheck, work, pruning, host>>

ForwardLongestSpanEligible ==
  call.forward /\ N >= call.forwardMinSamples /\ call.uniform

ConsiderForward ==
  /\ turn = "forward"
  /\ IF ForwardLongestSpanEligible /\ ~IsCancelled(result)
     THEN /\ turn' = "span" /\ anchors' = <<0>> /\ segments' = <<>>
          /\ checks' = 0
     ELSE turn' = "done" /\ UNCHANGED work
  /\ UNCHANGED <<call, result, precheck, pruning, host>>

SpanCancelledKeepsResult ==
  /\ turn = "span" /\ Cursor < N - 1 /\ cancelFile
  /\ Poll /\ Become(result, "done")
  /\ UNCHANGED <<call, precheck, work, pruning, cancelFile>>

\* Also when the result so far had converged.
SpanCancelled ==
  /\ turn = "span" /\ Cursor < N - 1 /\ cancelFile
  /\ Poll /\ Become(Cancelled, "done")
  /\ UNCHANGED <<call, precheck, work, pruning, cancelFile>>

TakeSpan ==
  /\ turn = "span" /\ Cursor < N - 1 /\ ~cancelFile
  /\ LET farthest == Min({N - 1, Cursor + call.forwardGap})
         Tries(last) == {[end |-> e, order |-> last - e + 1,
                          fit |-> FitForwardLongestSpanLinearSegment(
                                    call, Cursor, e)] :
                           e \in Cursor + 1 .. last}
         First(tries) ==
           {f \in tries : /\ \A g \in tries : f.order <= g.order
                          /\ checks + f.order <= call.forwardChecks}
         Go(first) ==
           \/ \E f \in first : Take(f.end, f.fit, f.order)
           \/ /\ first = {}
              /\ Become(AppendNote(result, "forward_rejected"), "done")
              /\ UNCHANGED <<call, precheck, work, pruning, host>>
     IN  Go(First({f \in Tries(farthest) : f.fit.feasible}))

SpanDone ==
  /\ turn = "span" /\ Cursor = N - 1
  /\ LET forward == [keys |-> AssembleKeys(call, anchors, segments),
                     converged |-> TRUE, notes |-> {"forward"},
                     by |-> "forward"]
     IN  Become(IF Better(forward, result) THEN forward
                ELSE AppendNote(result, "forward_rejected"), "done")
  /\ UNCHANGED <<call, precheck, work, pruning, host>>

TemporalReturned == turn = "done" /\ UNCHANGED temporalVars

Solve ==
  \/ Ineligible \/ PrecheckMultiMode \/ SolvePlacement
  \/ Promote \/ PruneAllSamples
  \/ PruneTooFew \/ PruneCancelled \/ PruneSpan \/ PruneDone
  \/ ConsiderMultiMode \/ ConsiderForward
  \/ SpanCancelled \/ TakeSpan \/ SpanDone

TemporalNext == HostCancels \/ Solve \/ TemporalReturned

TemporalSpec == TemporalInit /\ [][TemporalNext]_temporalVars

------------------------------------------------------------------------------
(***************************************************************************)
(* Properties.                                                             *)
(***************************************************************************)
\* Whatever replaced the placement - the promoted fallback, a prune, a
\* multimode or a forward candidate - really follows the source: every sample
\* is within tolerance, a hold being shown from its key on.
ReplacedResultsFollowTheSource ==
  turn = "done" /\ result.converged =>
    /\ WellFormed(call, result.keys)
    /\ result.by # "placement" => ShownWithin(call, result.keys)

\* The segments of a prune were each judged with the value the segment before
\* left at their start, so the keys put together from them pass as a whole.
PrunedSegmentsCompose ==
  turn = "prune" /\ N >= 3 /\ Cursor = N - 1 => Validates(call, PruneCandidate)

\* No step gives up a converged result except for a converged one with fewer
\* keys, or for a cancel.
NeverTradesForWorse ==
  [][result.converged /\ result' # result =>
       IF result'.converged THEN Len(result'.keys) <= Len(result.keys)
       ELSE cancelFile]_temporalVars

\* Once a cancel was seen only one converged result can still be returned: the
\* multimode candidate that was solved before, and lost nothing to the cancel.
CancelKeepsOnlyThePrecheck ==
  turn = "done" /\ seenCancel /\ result.converged =>
    result.by = "multimode" /\ \E m \in precheck : m.keys = result.keys
==============================================================================
