-------------------------- MODULE LandmarkPartition --------------------------
(***************************************************************************)
(* Which contiguous regions of a path get keys of their own, so that the   *)
(* keys of all regions together are as few as possible                     *)
(* (path/multimode, the landmark partition and emission).                  *)
(*                                                                         *)
(* An emission is what one region would be emitted as: its keys if there   *)
(* are any within tolerance, and what the deep diagnostics say of them.    *)
(***************************************************************************)
EXTENDS RegionTiming

CONSTANT MaxBoundaryPoints       \* kMaxPartitionBoundaryPoints

\* 12 in the code: too few regions for their penalties to outweigh a key.
ASSUME BoundaryAssumption == MaxBoundaryPoints \in 0 .. 20

CandidateSlots == 2              \* kOutlierPartitionCandidateSlots

------------------------------------------------------------------------------
(***************************************************************************)
(* Diagnostics of one region: runs of neighbouring samples that are all    *)
(* keys, why two of their segments could not be one, and which vertices    *)
(* bend most there.                                                        *)
(***************************************************************************)
\* The two segments from i to i + 2 lie in a run of keys long enough.
DenseTriples(keys) ==
  {i \in Range(keys.anchors) : {i + 1, i + 2} \subseteq Range(keys.anchors)}

DenseRun(keys, i) ==
  {l \in DenseTriples(keys) : \A m \in Min({i, l}) .. Max({i, l}) :
                                m \in DenseTriples(keys)}

\* Why the two segments are not one, in the alphabetical order by which a tie
\* for the dominant reason is settled.
Eased == 1
InfeasibleChord == 2
InfeasibleTiming == 3
Straight == 4
Relaxed == 5

Reason(path, region, i) ==
  LET Accepted(k, a, b) ==
        {s \in 0 .. 16 :
           ChordError(path, region, k, k, a, b, [l \in {k} |-> (s * Unit) \div 16])
             <= RegionTolerance * Unit}
      Why(own, relaxed, accepted) ==
        CASE own.feasible -> IF own.timing = Linear THEN Straight ELSE Eased
          [] ~own.feasible /\ relaxed.feasible -> Relaxed
          [] OTHER -> IF Morph!HasMonotonePath(<<{0}, accepted, {16}>>, 16)
                      THEN InfeasibleTiming ELSE InfeasibleChord
  IN Why(SegmentFit(path, region, i, i + 2, FALSE),
         SegmentFit(path, region, i, i + 2, TRUE),
         Accepted(i + 1, SampleValue(path, i), SampleValue(path, i + 2)))

\* AddReasonCount, for the run that the segments from i to i + 2 lie in.
ReasonCounts(path, region, keys, i) ==
  [reason \in Eased .. Relaxed |->
     Cardinality({l \in DenseRun(keys, i) : Reason(path, region, l) = reason})]

DominantReason(counts) ==
  CHOOSE r \in DOMAIN counts : \A s \in DOMAIN counts :
    counts[r] > counts[s] \/ (counts[r] = counts[s] /\ r <= s)

\* DiagnoseDenseSubpathRuns, as far as DenseFullRangeNeedsSemanticSplit reads it:
\* the dominant reason is in the note whatever is inferred from it.
ChordInfeasible(path, region, keys) ==
  \E i \in DenseTriples(keys) :
    DominantReason(ReasonCounts(path, region, keys, i)) = InfeasibleChord

\* AnalyzeDenseRunOutlierSlots: the vertices that leave the chord over two
\* segments, the worst first.
OutlierSlots(path, region, keys) ==
  LET Score(v) ==
        SumOver(LAMBDA i : Morph!Distance(2 * path[v][i + 1],
                                          path[v][i] + path[v][i + 2]),
                DenseTriples(keys))
      Worse(v, w) == Score(v) > Score(w) \/ (Score(v) = Score(w) /\ v < w)
  IN SetToSortSeq({v \in In(region) : Score(v) > 0}, Worse)

------------------------------------------------------------------------------
(***************************************************************************)
(* EvaluateLandmarkRegionEmission.                                         *)
(***************************************************************************)
NoEmission == [ok |-> FALSE, keys |-> NoKeys]

\* The temporal keys win only with fewer keys than the refined anchors have, if
\* those are within tolerance.
TemporalWins(temporal, refined) ==
  /\ temporal.ok
  /\ ~refined.ok \/ Len(temporal.keys.anchors) < Len(refined.keys.anchors)

Emission(path, region, budget) ==
  LET Fewer(temporal, refined) ==
        IF TemporalWins(temporal, refined) THEN temporal ELSE refined
  IN IF budget > 0 /\ SegmentChecks(SampleCount(path)) > budget THEN NoEmission
     ELSE Fewer(TemporalKeys(path, region, budget),
                Emits(TRUE, path, region, LinearKeys(path, RefineAnchors(path, region))))

KeyCount(emissions) ==
  TotalOf([n \in DOMAIN emissions |-> Len(emissions[n].keys.anchors)])

\* The largest reconstruction error of any of them.
MaxEmissionError(path, regions, emissions) ==
  Max({ErrorAt(path, regions[n], emissions[n].keys, k) :
         n \in DOMAIN regions, k \in DOMAIN path[0]})

------------------------------------------------------------------------------
(***************************************************************************)
(* The partition.                                                          *)
(***************************************************************************)
\* RegionBoundaryPoints: the ends of the base regions and the points next to
\* them, or only the ends, or nothing, if there are too many.
Boundaries(path) ==
  LET EndsOf(regions) ==
        {0, VertexCount(path)} \cup
        ((UNION {{r[1], r[2]} : r \in regions}) \cap 0 .. VertexCount(path))
      Near(ends) == {b + d : b \in ends \ {0, VertexCount(path)}, d \in {-1, 1}}
                      \cap 1 .. VertexCount(path) - 1
      Few(ends, near) ==
        IF Cardinality(ends) > MaxBoundaryPoints THEN {}
        ELSE IF Cardinality(ends \cup near) > MaxBoundaryPoints THEN ends
        ELSE ends \cup near
      Around(ends) == Few(ends, Near(ends))
  IN Around(EndsOf(Range(VertexRegions(path))))

Intervals(boundaries) == {i \in boundaries \X boundaries : i[1] < i[2]}

\* What was emitted for the region is within tolerance.
Valid(emission, region) == region \in DOMAIN emission /\ emission[region].ok

\* A region costs a twentieth of a key: enough to settle ties, or, were it a
\* whole key, to trade keys for fewer regions.
RegionPenaltyOfTwoKeys == 40
RegionPenalty == 1
KeyScore == 20

\* A row has, for each boundary, the best partition up to it into so many regions.
Unreached == [score |-> -1, regions |-> <<>>]
Reached(partition) == partition.score >= 0

NoRegions(boundaries) ==
  [b \in boundaries |-> IF b = 0 THEN [score |-> 0, regions |-> <<>>] ELSE Unreached]

\* The lowest score, and of those the first start.
BestJoin(joined) ==
  LET AsGood(p, q) ==
        \/ p.score < q.score
        \/ p.score = q.score /\ Last(p.regions)[1] <= Last(q.regions)[1]
  IN IF joined = {} THEN Unreached
     ELSE CHOOSE p \in joined : \A q \in joined : AsGood(p, q)

Join(emission, partition, region) ==
  [score |-> partition.score + KeyScore * Len(emission[region].keys.anchors)
             + RegionPenalty,
   regions |-> Append(partition.regions, region)]

NextRow(emission, row) ==
  LET Starts(end) ==
        {start \in DOMAIN row : /\ start < end /\ Reached(row[start])
                                /\ Valid(emission, <<start, end>>)}
  IN [end \in DOMAIN row |->
        BestJoin({Join(emission, row[start], <<start, end>>) : start \in Starts(end)})]

\* Into 1 to count regions each: the recurrence over the number of regions.
Partitions(emission, boundaries, count) ==
  LET row[c \in 0 .. count] ==
        IF c = 0 THEN NoRegions(boundaries) ELSE NextRow(emission, row[c - 1])
  IN [c \in 1 .. count |-> row[c][Max(boundaries)]]

\* The lowest score, of the fewest regions on ties, among those of a count.
BestOf(partitions, counts) ==
  LET reached == {c \in counts : Reached(partitions[c])}
  IN IF reached = {} THEN 0
     ELSE CHOOSE c \in reached : \A d \in reached :
            \/ partitions[c].score < partitions[d].score
            \/ partitions[c].score = partitions[d].score /\ c <= d

EmissionsOf(emission, regions) == [n \in DOMAIN regions |-> emission[regions[n]]]

------------------------------------------------------------------------------
(***************************************************************************)
(* Alternatives to one region for the whole path, where diagnostics say    *)
(* that its vertices cannot share their timing.                            *)
(***************************************************************************)
Whole(path) == <<0, VertexCount(path)>>

\* RegionsCoverFullRange.
Covers(path, regions) ==
  /\ Len(regions) > 0
  /\ regions[1][1] = 0 /\ regions[Len(regions)][2] = VertexCount(path)
  /\ \A n \in DOMAIN regions :
       /\ regions[n][1] < regions[n][2]
       /\ n < Len(regions) => regions[n][2] = regions[n + 1][1]

NeedsSplit(path, regions, emission, deep) ==
  /\ deep /\ regions = <<Whole(path)>>
  /\ ChordInfeasible(path, Whole(path), emission[Whole(path)].keys)

\* TrySemanticSplitFromCandidate, TrySemanticSplitFromCachedRegions: the best
\* partition into several regions if it has fewer keys; the base regions, with
\* half as many keys again, only when that partition is none or chosen already.
SemanticSplit(path, emission, partitions) ==
  LET Keys(regions) == KeyCount(EmissionsOf(emission, regions))
      full == Len(emission[Whole(path)].keys.anchors)
      IfCovering(regions, few) ==
        IF Covers(path, regions) /\ few THEN regions ELSE <<>>
      IfFewer(regions) == IfCovering(regions, Keys(regions) < full)
      OrBase(base) ==
        IF Len(base) >= 2 /\ \A r \in Range(base) : Valid(emission, r)
        THEN IfCovering(base, 2 * Keys(base) <= 3 * full) ELSE <<>>
      Split(best, several) ==
        IF several # 0 /\ several # best THEN IfFewer(partitions[several].regions)
        ELSE OrBase(VertexRegions(path))
  IN Split(BestOf(partitions, DOMAIN partitions),
           BestOf(partitions, DOMAIN partitions \ {1}))

\* OutlierSlotRegions: the vertex on its own.
OutlierSlotRegions(path, slot) ==
  LET If(holds, region) == IF holds THEN <<region>> ELSE <<>>
      vertices == VertexCount(path)
  IN If(slot > 0, <<0, slot>>) \o <<<<slot, slot + 1>>>>
       \o If(slot + 1 < vertices, <<slot + 1, vertices>>)

\* TryOutlierPartitionFromSlots: the better of the two worst vertices, if it
\* has fewer keys; what was not evaluated yet is evaluated now.
NoOutlier == [regions |-> <<>>, emissions |-> <<>>]

\* What was emitted for a region already, else what it would be emitted as now.
EmissionFor(path, emission, region, budget) ==
  IF Valid(emission, region) THEN emission[region] ELSE Emission(path, region, budget)

OutlierPartition(path, emission, budget) ==
  LET Split(rank, regions, emissions) ==
        [rank |-> rank, regions |-> regions, emissions |-> emissions,
         keys |-> KeyCount(emissions)]
      Evaluated(rank, regions) ==
        Split(rank, regions,
              [n \in DOMAIN regions |->
                 EmissionFor(path, emission, regions[n], budget)])
      Error(x) == MaxEmissionError(path, x.regions, x.emissions)
      AsGood(x, y) ==
        \/ x.keys < y.keys
        \/ /\ x.keys = y.keys
           /\ \/ Error(x) < Error(y)
              \/ Error(x) = Error(y) /\ x.rank <= y.rank
      Best(valid) == {x \in valid : \A y \in valid : AsGood(x, y)}
      Chosen(best) ==
        IF best = {} THEN NoOutlier
        ELSE CHOOSE o \in {[regions |-> x.regions, emissions |-> x.emissions] :
                             x \in best} : TRUE
      Slots(slots) ==
        {Evaluated(n, OutlierSlotRegions(path, slots[n])) :
           n \in 1 .. Min({CandidateSlots, Len(slots)})}
      Valids(splits) ==
        {t \in splits : /\ \A e \in Range(t.emissions) : e.ok
                        /\ Covers(path, t.regions)}
      Fewer(keys) ==
        {x \in Best(Valids(Slots(OutlierSlots(path, Whole(path), keys)))) :
           x.keys < Len(keys.anchors)}
  IN Chosen(Fewer(emission[Whole(path)].keys))
==============================================================================
