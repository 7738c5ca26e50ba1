---------------------------- MODULE PathMultiMode ----------------------------
(***************************************************************************)
(* The path solver that gives every region of a path its own timing        *)
(* (path/multimode/path_multimode_solver.cpp), with its two entry points.  *)
(*                                                                         *)
(*   "temporal"  SolveShapeFlatMultiModeTemporal: one set of keys for the  *)
(*               whole path, at every anchor some region needs, or at      *)
(*               fewer where the regions' own eases allow it.              *)
(*   "subpaths"  EmitShapeFlatLandmarkSubpathKeys: keys per region, for    *)
(*               the partition into regions with the fewest keys.          *)
(*   "summary"   the same with fast_summary_only: the whole path as the    *)
(*               one region.                                               *)
(*                                                                         *)
(* The host cancels by creating a file that it never removes.  The solver  *)
(* polls before each region and again inside each region's solve.          *)
(***************************************************************************)
EXTENDS LandmarkPartition

CONSTANTS
  Calls,               \* the calls explored
  OutlineTolerance     \* frame_fit_options.outline_tolerance

\* original is the source path, path what its vertices were reduced to; checks
\* is max_region_segment_checks, keyPercent max_candidate_key_ratio, both 0 for
\* no limit; large: over the validation budget; deep: with deep diagnostics.
IsCall(c) ==
  /\ c.entry \in {"temporal", "subpaths", "summary"}
  /\ IsPath(c.path) /\ DOMAIN c.original = DOMAIN c.path
  /\ c.checks \in Nat /\ c.keyPercent \in Nat
  /\ c.large \in BOOLEAN /\ c.deep \in BOOLEAN

ASSUME CallsAssumption ==
  OutlineTolerance \in Nat /\ \A c \in Calls : IsCall(c)

VARIABLES
  call,        \* the arguments
  pc,          \* which stage, and inside a region's solve or between two
  left,        \* the regions the stage has yet to solve
  solved,      \* what it found for the others
  anchors,     \* the samples some region has an anchor at
  out,         \* what is returned
  cancelFile,  \* the host asked to stop
  seen         \* a poll has found the file

vars == <<call, pc, left, solved, anchors, out, cancelFile, seen>>

path == call.path
Samples == DOMAIN path[0]
Regions == VertexRegions(path)

\* Nothing emitted, and not converged.
Nothing == [notes |-> "none", converged |-> FALSE, keys |-> NoKeys,
            regions |-> <<>>, emissions |-> <<>>]

Init ==
  /\ call \in Calls
  /\ pc = IF call.entry = "temporal" THEN "regions" ELSE "intervals"
  /\ left = CASE call.entry = "temporal" -> Range(Regions)
              [] call.entry = "subpaths" -> Intervals(Boundaries(path))
              [] call.entry = "summary" -> {Whole(path)}
  /\ solved = <<>> /\ anchors = {}
  /\ out = Nothing
  /\ cancelFile = FALSE /\ seen = FALSE

Return(result) == pc' = "done" /\ out' = result

HostCancels ==
  /\ pc # "done" /\ ~cancelFile /\ cancelFile' = TRUE
  /\ UNCHANGED <<call, pc, left, solved, anchors, out, seen>>

------------------------------------------------------------------------------
(***************************************************************************)
(* The loops over the regions, in their order.  Each starts by polling.    *)
(***************************************************************************)
Loops == {"regions", "recombining", "intervals", "output"}
Inside == [regions |-> "anchoring", recombining |-> "timing", intervals |-> "emitting"]

First(regions) ==
  CHOOSE r \in regions : \A s \in regions :
    r[1] < s[1] \/ (r[1] = s[1] /\ r[2] <= s[2])

Region == First(left)

Polls(loop) == pc = loop /\ left # {}

\* The fast summary does not poll before its one region.
ReturnCancelled ==
  /\ \E loop \in Loops : Polls(loop)
  /\ cancelFile
  /\ call.entry = "summary" => pc = "output"
  /\ Return([Nothing EXCEPT !.notes = "cancelled"])
  /\ seen' = TRUE
  /\ UNCHANGED <<call, left, solved, anchors, cancelFile>>

BeginRegion ==
  /\ \E loop \in DOMAIN Inside : Polls(loop) /\ pc' = Inside[loop]
  /\ ~cancelFile \/ call.entry = "summary"
  /\ UNCHANGED <<call, left, solved, anchors, out, cancelFile, seen>>

\* What the solve of a region found is kept under the region.
Keep(found) ==
  /\ solved' = [r \in DOMAIN solved \cup {Region} |->
                  IF r = Region THEN found ELSE solved[r]]
  /\ left' = left \ {Region}

------------------------------------------------------------------------------
(***************************************************************************)
(* SolveShapeFlatMultiModeTemporal.                                        *)
(***************************************************************************)
\* The polls inside SolveRegionAnchors, one for each sample but the first, return
\* no anchors, like a failure.
AnchorsCancelled ==
  /\ pc = "anchoring" /\ cancelFile /\ SampleCount(path) > 1
  /\ Return([Nothing EXCEPT !.notes = "region_failed"])
  /\ seen' = TRUE
  /\ UNCHANGED <<call, left, solved, anchors, cancelFile>>

\* The checks of all regions so far count.
RegionBudgetExceeded ==
  /\ pc = "anchoring"
  /\ call.checks > 0
  /\ (Cardinality(DOMAIN solved) + 1) * SegmentChecks(Cardinality(Samples))
       > call.checks
  /\ Return([Nothing EXCEPT !.notes = "region_budget"])
  /\ UNCHANGED <<call, left, solved, anchors, cancelFile, seen>>

SolveRegionAnchors ==
  /\ pc = "anchoring"
  /\ call.checks > 0 =>
       (Cardinality(DOMAIN solved) + 1) * SegmentChecks(Cardinality(Samples))
         <= call.checks
  /\ LET found == RegionAnchors(path, Region)
     IN Keep(found) /\ anchors' = anchors \cup Range(found)
  /\ pc' = "regions"
  /\ UNCHANGED <<call, out, cancelFile, seen>>

\* CandidateKeyBudgetExceeded.
OverKeyBudget(count) ==
  call.keyPercent > 0 /\ 100 * count > Cardinality(Samples) * call.keyPercent

AtAnchors(set) == SetToSortSeq(set, <)

\* The keys of the union, and whether they are within the outline tolerance of
\* the source (ValidatePathTemporalCandidate).
UnionKeys == LinearKeys(path, AtAnchors(anchors))

Validates(keys) ==
  \A k \in Samples :
    SumOver(LAMBDA v : Morph!Distance(call.original[v][k] * Unit, ValueAt(keys, v, k)),
            DOMAIN path) <= OutlineTolerance * Unit

RegionsSolved == pc = "regions" /\ left = {}

ValidationTooLarge ==
  /\ RegionsSolved /\ call.large
  /\ Return([Nothing EXCEPT !.notes = "validation_budget", !.keys = UnionKeys])
  /\ UNCHANGED <<call, left, solved, anchors, cancelFile, seen>>

NothingToRecombine ==
  /\ RegionsSolved /\ ~call.large
  /\ Len(Regions) < 2 \/ Cardinality(anchors) <= 2
  /\ pc' = "deciding"
  /\ UNCHANGED <<call, left, solved, anchors, out, cancelFile, seen>>

StartRecombining ==
  /\ RegionsSolved /\ ~call.large
  /\ Len(Regions) >= 2 /\ Cardinality(anchors) > 2
  /\ pc' = "recombining" /\ left' = Range(Regions) /\ solved' = <<>>
  /\ UNCHANGED <<call, anchors, out, cancelFile, seen>>

\* Taken for a failure, after which the union may still do.
TimingCancelTakenForFailure ==
  /\ pc = "timing" /\ cancelFile
  /\ seen' = TRUE
  /\ pc' = "deciding"
  /\ UNCHANGED <<call, left, solved, anchors, out, cancelFile>>

\* A region's temporal solve tells a cancel from a failure.
TimingCancelled ==
  /\ pc = "timing" /\ cancelFile
  /\ Return([Nothing EXCEPT !.notes = "cancelled"])
  /\ seen' = TRUE
  /\ UNCHANGED <<call, left, solved, anchors, cancelFile>>

TimingBudget ==
  IF call.checks > 0 THEN Max({1, call.checks \div Len(Regions)}) ELSE 0

TimeRegion ==
  /\ pc = "timing"
  /\ \E found \in {TemporalKeys(path, Region, TimingBudget)} :
       \/ found.ok /\ Keep(found.keys) /\ pc' = "recombining"
       \/ ~found.ok /\ pc' = "deciding" /\ UNCHANGED <<left, solved>>
  /\ UNCHANGED <<call, anchors, out, cancelFile, seen>>

RegionsTimed == pc = "recombining" /\ left = {}

TimedAnchors == UNION {Range(solved[r].anchors) : r \in DOMAIN solved}

\* The place of the vertex at the sample by the keys of its region.
RecombinedValue(v, k) ==
  LET region == CHOOSE r \in DOMAIN solved : v \in In(r)
  IN ValueAt(solved[region], v, k)

\* Keys where some region has one, each with what every region shows there, and
\* straight in between.
RecombinedKeys ==
  LET at == AtAnchors(TimedAnchors)
  IN [LinearKeys(path, at) EXCEPT
        !.value = [n \in 1 .. Len(at) |->
                     [v \in DOMAIN path |-> RecombinedValue(v, at[n])]]]

Recombines ==
  /\ Cardinality(TimedAnchors) < Cardinality(anchors)
  /\ ~OverKeyBudget(Cardinality(TimedAnchors))
  /\ Validates(RecombinedKeys)

AcceptRecombined ==
  /\ RegionsTimed /\ Recombines
  /\ Return([Nothing EXCEPT !.notes = "recombined", !.converged = TRUE,
                            !.keys = RecombinedKeys])
  /\ UNCHANGED <<call, left, solved, anchors, cancelFile, seen>>

RejectRecombined ==
  /\ RegionsTimed /\ ~Recombines
  /\ pc' = "deciding"
  /\ UNCHANGED <<call, left, solved, anchors, out, cancelFile, seen>>

DecideUnion ==
  /\ pc = "deciding"
  /\ Return([Nothing EXCEPT
       !.notes = IF OverKeyBudget(Cardinality(anchors)) THEN "key_budget" ELSE "union",
       !.converged = ~OverKeyBudget(Cardinality(anchors)) /\ Validates(UnionKeys),
       !.keys = UnionKeys])
  /\ UNCHANGED <<call, left, solved, anchors, cancelFile, seen>>

------------------------------------------------------------------------------
(***************************************************************************)
(* EmitShapeFlatLandmarkSubpathKeys.                                       *)
(***************************************************************************)
\* A cancel inside leaves this region without keys; the loop goes on.
EmissionCancelled ==
  /\ pc = "emitting" /\ cancelFile
  /\ Keep(NoEmission) /\ pc' = "intervals"
  /\ seen' = TRUE
  /\ UNCHANGED <<call, anchors, out, cancelFile>>

EmitRegion ==
  /\ pc = "emitting"
  /\ Keep(Emission(path, Region, call.checks)) /\ pc' = "intervals"
  /\ UNCHANGED <<call, anchors, out, cancelFile, seen>>

IntervalsSolved == pc = "intervals" /\ left = {}

RegionLimit == Min({MaxRegions, Cardinality(Boundaries(path)) - 1})

Found ==
  IF call.entry = "summary"
  THEN <<[score |-> 0, regions |-> IF solved[Whole(path)].ok
                                   THEN <<Whole(path)>> ELSE <<>>]>>
  ELSE Partitions(solved, Boundaries(path), RegionLimit)

Chosen ==
  LET Numbered(partitions, best) ==
        IF best = 0 THEN <<>> ELSE partitions[best].regions
      Lowest(partitions) ==
        Numbered(partitions, BestOf(partitions, DOMAIN partitions))
  IN Lowest(Found)

NoPartition ==
  /\ IntervalsSolved
  /\ Cardinality(DOMAIN solved) = 0 \/ Chosen = <<>>
  /\ Return(Nothing)
  /\ UNCHANGED <<call, left, solved, anchors, cancelFile, seen>>

Emitting(regions, emissions, notes) ==
  [out EXCEPT !.regions = regions, !.emissions = emissions, !.notes = notes]

\* The split into several regions, or the worst vertex on its own, instead.
\* Evaluating that vertex polls too; a cancel there only loses the alternative.
Alternative(chosen, split, outlier, lost) ==
  IF split # <<>>
  THEN Emitting(split, EmissionsOf(solved, split), "semantic_split")
  ELSE IF outlier.regions # <<>> /\ ~lost
  THEN Emitting(outlier.regions, outlier.emissions, "outlier_split")
  ELSE Emitting(chosen, EmissionsOf(solved, chosen), "key_count")

\* Alternatives are looked for only where one region covers the path and its
\* diagnostics find no chord over its dense runs.
Emitted(chosen, lost) ==
  IF call.entry = "subpaths" /\ NeedsSplit(path, chosen, solved, call.deep)
  THEN Alternative(chosen, SemanticSplit(path, solved, Found),
                   OutlierPartition(path, solved, call.checks), lost)
  ELSE Emitting(chosen, EmissionsOf(solved, chosen), "key_count")

ChoosePartition ==
  /\ IntervalsSolved
  /\ Cardinality(DOMAIN solved) > 0
  /\ \E chosen \in {Chosen} \ {<<>>}, lost \in {FALSE, cancelFile} :
       out' = Emitted(chosen, lost)
  /\ left' = Range(out'.regions)
  /\ pc' = "output"
  /\ UNCHANGED <<call, solved, anchors, cancelFile, seen>>

\* BuildLandmarkSubpathOutputKeys polls before each region.
OutputRegion ==
  /\ pc = "output" /\ left # {} /\ ~cancelFile
  /\ left' = left \ {Region}
  /\ UNCHANGED <<call, pc, solved, anchors, out, cancelFile, seen>>

OutputDone ==
  /\ pc = "output" /\ left = {}
  /\ Return([out EXCEPT !.converged = TRUE])
  /\ UNCHANGED <<call, left, solved, anchors, cancelFile, seen>>

------------------------------------------------------------------------------
Returned == pc = "done" /\ UNCHANGED vars

SolveMultiModeTemporal ==
  \/ AnchorsCancelled \/ RegionBudgetExceeded \/ SolveRegionAnchors
  \/ ValidationTooLarge \/ NothingToRecombine \/ StartRecombining
  \/ TimingCancelled \/ TimeRegion \/ AcceptRecombined \/ RejectRecombined
  \/ DecideUnion

EmitLandmarkSubpathKeys ==
  \/ EmissionCancelled \/ EmitRegion \/ NoPartition \/ ChoosePartition
  \/ OutputRegion \/ OutputDone

Next ==
  \/ HostCancels \/ ReturnCancelled \/ BeginRegion
  \/ SolveMultiModeTemporal \/ EmitLandmarkSubpathKeys \/ Returned

Spec == Init /\ [][Next]_vars

------------------------------------------------------------------------------
(***************************************************************************)
(* Properties.                                                             *)
(***************************************************************************)
\* Each region is anchored at as few samples as straight segments within its
\* tolerance, none longer than the gap, can be strung together over.
Strings(region) ==
  {S \in SUBSET Samples :
     /\ {0, Max(Samples)} \subseteq S
     /\ \A i, j \in S :
          /\ i < j /\ (i + 1 .. j - 1) \cap S = {}
          => j - i <= MaxGap /\ RegionSegmentFeasible(path, i, j, region)}

RegionAnchorsAreFewest ==
  pc = "regions" =>
    \A region \in DOMAIN solved :
      /\ Range(solved[region]) \in Strings(region)
      /\ \A S \in Strings(region) : Len(solved[region]) <= Cardinality(S)

\* A call that has found the cancel file, wherever it polled, neither converges
\* nor emits a region, although a cancel inside a region's solve is told apart
\* from a failure in some of the loops only.
SeenCancelNeverConverges ==
  pc = "done" /\ seen => ~out.converged /\ out.emissions = <<>>

\* Without alternatives, the emitted regions are, of all ways to cut the path at
\* the boundary points into at most MaxRegions regions, one with the fewest
\* keys, and of those one with the fewest regions.
Cuts(count) ==
  {cut \in [0 .. count -> Boundaries(path)] :
     /\ cut[0] = 0 /\ cut[count] = VertexCount(path)
     /\ \A n \in 1 .. count : cut[n - 1] < cut[n]}

CutRegions(cut, count) == [n \in 1 .. count |-> <<cut[n - 1], cut[n]>>]

FewestKeysInAll ==
  pc = "output" /\ call.entry = "subpaths" /\ out.notes = "key_count" =>
    \A count \in 1 .. RegionLimit : \A cut \in Cuts(count) :
      LET emissions == EmissionsOf(solved, CutRegions(cut, count))
      IN (\A n \in 1 .. count : emissions[n].ok) =>
           \/ KeyCount(out.emissions) < KeyCount(emissions)
           \/ /\ KeyCount(out.emissions) = KeyCount(emissions)
              /\ Len(out.emissions) <= count

\* What is emitted covers every vertex once, in order, and the keys of each
\* region, by their own eases, follow the region's samples within tolerance.
EmittedFollowsSource ==
  pc = "done" /\ out.converged /\ call.entry # "temporal" =>
    LET at(n) == out.regions[n]
        last == Len(out.regions)
    IN /\ last > 0 /\ at(1)[1] = 0 /\ at(last)[2] = VertexCount(path)
       /\ \A n \in 1 .. last - 1 : at(n)[2] = at(n + 1)[1]
       /\ \A n \in 1 .. last, k \in Samples :
            ErrorAt(path, at(n), out.emissions[n].keys, k) <= RegionTolerance * Unit
==============================================================================
