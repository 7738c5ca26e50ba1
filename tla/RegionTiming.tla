----------------------------- MODULE RegionTiming -----------------------------
(***************************************************************************)
(* The vertices of a path cut into contiguous regions, and the keys one    *)
(* region needs when it is timed on its own (path/multimode).              *)
(*                                                                         *)
(* path[v][k] is where vertex v is at sample k, one number for its point   *)
(* and tangents; samples are equally spaced.  A region is <<first, end>>,  *)
(* the end excluded.  Its outline error is the sum of the distances of its *)
(* vertices, a stand-in that like the real one is not the largest of them, *)
(* by which the anchors of a region are chosen.  Values and errors are in  *)
(* 1/Unit of MorphProgress.                                                *)
(***************************************************************************)
EXTENDS Integers, Sequences, SequencesExt, FiniteSetsExt

CONSTANTS
  MaxRegions,       \* max_regions
  MaxGap,           \* max_gap_samples
  RegionTolerance,  \* region_tolerance
  FittedPairs       \* the ease pairs a fitted Bezier is looked for among

ASSUME RegionTimingAssumption ==
  /\ MaxRegions \in Nat \ {0} /\ MaxGap \in Nat \ {0} /\ RegionTolerance \in Nat
  /\ FittedPairs # {}

Morph == INSTANCE MorphProgress

Unit == Morph!Unit
Linear == <<0, 0>>     \* the timing of a linear segment; the others are eases

VertexCount(path) == Cardinality(DOMAIN path)
SampleCount(path) == Cardinality(DOMAIN path[0])

In(region) == region[1] .. region[2] - 1

IsPath(path) ==
  /\ VertexCount(path) \in Nat \ {0} /\ SampleCount(path) \in Nat \ {0}
  /\ path \in [0 .. VertexCount(path) - 1 -> [0 .. SampleCount(path) - 1 -> Int]]

SumOver(Term(_), S) == MapThenSumSet(Term, S)

\* s[1] + ... + s[Len(s)]
TotalOf(s) ==
  LET sum[n \in 0 .. Len(s)] == IF n = 0 THEN 0 ELSE sum[n - 1] + s[n]
  IN sum[Len(s)]

Nth(S, n) == CHOOSE x \in S : Cardinality({y \in S : y < x}) = n - 1

\* The regions between one cut and the next.
Between(cuts) ==
  [n \in 1 .. Cardinality(cuts) - 1 |-> <<Nth(cuts, n), Nth(cuts, n + 1)>>]

------------------------------------------------------------------------------
(***************************************************************************)
(* Where to cut.                                                           *)
(***************************************************************************)
BuildVertexRegions(vertices, count) ==
  Between({(vertices * r) \div count : r \in 0 .. count})

\* VertexMotionBoundaryScore: how differently the vertices on either side of
\* the boundary move away from where they began.
BoundaryScore(path, boundary) ==
  LET Moved(v, k) == path[v][k] - path[v][0]
      Differs(k) == Morph!Distance(Moved(boundary - 1, k), Moved(boundary, k))
  IN TotalOf([k \in 1 .. SampleCount(path) |-> Differs(k - 1)])

\* BuildMotionAwareVertexRegions: at the boundaries with the highest scores,
\* the lower of two as high; evenly if nothing moves differently.
VertexRegions(path) ==
  LET vertices == VertexCount(path)
      count == Min({vertices, MaxRegions})
      Ahead(scores, b) ==
        {c \in DOMAIN scores : \/ scores[c] > scores[b]
                               \/ scores[c] = scores[b] /\ c < b}
      Scored(scores) ==
        IF \/ count <= 1 \/ vertices <= 2
           \/ \A b \in DOMAIN scores : scores[b] = 0
        THEN BuildVertexRegions(vertices, count)
        ELSE Between({0, vertices} \cup
                     {b \in DOMAIN scores : Cardinality(Ahead(scores, b)) < count - 1})
  IN Scored([b \in 1 .. vertices - 1 |-> BoundaryScore(path, b)])

------------------------------------------------------------------------------
(***************************************************************************)
(* The anchors of a region: linear segments, as few as there can be.       *)
(***************************************************************************)
RegionSegmentFeasible(path, i, j, region) ==
  \A k \in i + 1 .. j - 1, v \in In(region) :
    Morph!Distance((j - i) * path[v][k],
                   (j - k) * path[v][i] + (k - i) * path[v][j])
      <= RegionTolerance * (j - i)

\* One gap less than the segments may span.
StartsWithinShorter(j) == Max({0, j - MaxGap + 1}) .. j - 1

\* The samples a segment that ends at j may start from.
StartsWithin(j) == Max({0, j - MaxGap}) .. j - 1

\* The sample before is always one of them.
FeasibleStarts(path, region, j) ==
  {i \in StartsWithin(j) : RegionSegmentFeasible(path, i, j, region)}

\* On from the first of the starts with the fewest anchors.
Extended(chains, starts, j) ==
  LET fewest == Min({Len(chains[i]) : i \in starts})
      start == Min({i \in starts : Len(chains[i]) = fewest})
  IN Append(chains[start], j)

\* SolveRegionAnchors: the anchors up to each sample.
RegionAnchors(path, region) ==
  LET chain[j \in 0 .. SampleCount(path) - 1] ==
        IF j = 0 THEN <<0>> ELSE Extended(chain, FeasibleStarts(path, region, j), j)
  IN chain[SampleCount(path) - 1]

\* What segment_checks grows by for a region.
SegmentChecks(samples) ==
  SumOver(LAMBDA j : Cardinality(StartsWithin(j)), 1 .. samples - 1)

------------------------------------------------------------------------------
(***************************************************************************)
(* Keys of a region: their samples, the timing of each segment, and the    *)
(* place of each vertex at each key, which a relaxed fit may have moved.   *)
(***************************************************************************)
\* ShapeTemporalBezierProgress of every ease, segment length and sample.
EasedProgress ==
  [timing \in FittedPairs \cup {Morph!Neutral} |->
     [m \in 1 .. MaxGap |-> [k \in 0 .. m |-> Morph!BezierProgress(k, m, timing)]]]

Progress(timing, k, m) ==
  IF timing = Linear THEN Morph!LinearProgress(k, m) ELSE EasedProgress[timing][m][k]

SampleValue(path, k) == [v \in DOMAIN path |-> path[v][k] * Unit]

NoKeys == [anchors |-> <<>>, timing |-> <<>>, value |-> <<>>]

LinearKeys(path, anchors) ==
  [anchors |-> anchors, timing |-> [n \in 1 .. Len(anchors) - 1 |-> Linear],
   value |-> [n \in 1 .. Len(anchors) |-> SampleValue(path, anchors[n])]]

\* The first segment that reaches the sample.
SegmentOf(anchors, k) ==
  CHOOSE n \in 1 .. Len(anchors) - 1 :
    /\ k <= anchors[n + 1] /\ \A l \in 1 .. n - 1 : anchors[l + 1] < k

Blend(a, b, progress) == a + ((b - a) * progress) \div Unit

\* EvaluateTemporalShapeAtSample.
ValueAt(keys, v, k) ==
  LET n == SegmentOf(keys.anchors, k)
      a == keys.anchors[n]
      b == keys.anchors[n + 1]
  IN IF Len(keys.anchors) = 1 THEN keys.value[1][v]
     ELSE Blend(keys.value[n][v], keys.value[n + 1][v],
                Progress(keys.timing[n], k - a, b - a))

\* The outline error of a region at a sample.
ErrorAt(path, region, keys, k) ==
  SumOver(LAMBDA v : Morph!Distance(path[v][k] * Unit, ValueAt(keys, v, k)),
          In(region))

\* At the samples of the keys only.
ReconstructsAtKeys(path, region, keys) ==
  /\ keys.anchors \in Seq(DOMAIN path[0]) \ {<<>>}
  /\ \A k \in Range(keys.anchors) :
       ErrorAt(path, region, keys, k) <= RegionTolerance * Unit

\* EvaluateLandmarkSubpathCandidate, EvaluateLandmarkSubpathReconstruction: some
\* keys, all at samples, that every sample is close to.
Reconstructs(path, region, keys) ==
  /\ keys.anchors \in Seq(DOMAIN path[0]) \ {<<>>}
  /\ \A k \in DOMAIN path[0] :
       ErrorAt(path, region, keys, k) <= RegionTolerance * Unit

\* The keys of a region, if they stay within its tolerance.
Emits(ok, path, region, keys) ==
  [ok |-> ok /\ Reconstructs(path, region, keys), keys |-> keys]

\* RefineLandmarkSubpathAnchors: the first of the worst samples becomes an
\* anchor, until the region is reconstructed.
RefineAnchors(path, region) ==
  LET Missed(keys) == {[at |-> k, err |-> ErrorAt(path, region, keys, k)] :
                         k \in DOMAIN path[0]}
      Worst(missed) == CHOOSE x \in missed : \A y \in missed :
                         x.err > y.err \/ (x.err = y.err /\ x.at <= y.at)
      With(anchors, worst) ==
        IF worst.err <= RegionTolerance * Unit THEN anchors
        ELSE SelectSeq([n \in 1 .. SampleCount(path) |-> n - 1],
                       LAMBDA k : k = worst.at \/ Contains(anchors, k))
      Refine(anchors, step) ==
        With(anchors, Worst(Missed(LinearKeys(path, anchors))))
  IN FoldLeft(Refine, RegionAnchors(path, region),
              [step \in 1 .. SampleCount(path) |-> step])

------------------------------------------------------------------------------
(***************************************************************************)
(* One segment of a region (FitLandmarkRegionShapeSegment).                *)
(***************************************************************************)
\* The worst outline error of the segment from the shape a to the shape b.
ChordError(path, region, i, j, a, b, progress) ==
  Max({SumOver(LAMBDA v : Morph!Distance(path[v][k] * Unit,
                                         Blend(a[v], b[v], progress[k])),
               In(region)) : k \in i .. j})

\* FitRelaxedEndpointChord: the least squares ends of a segment whose samples
\* are w[k] of d on the way, by Cramer's rule.
Ends(path, d, s00, s01, s11, r0, r1) ==
  LET det == s00 * s11 - s01 * s01
      Share(x) == (x * Unit) \div (det \div d)
  IN [start |-> [v \in DOMAIN path |-> Share(r0[v] * s11 - r1[v] * s01)],
      end |-> [v \in DOMAIN path |-> Share(s00 * r1[v] - s01 * r0[v])]]

RelaxedEnds(path, i, j, w, d) ==
  LET Total(Term(_)) == SumOver(Term, i .. j)
  IN Ends(path, d, Total(LAMBDA k : (d - w[k]) * (d - w[k])),
          Total(LAMBDA k : (d - w[k]) * w[k]),
          Total(LAMBDA k : w[k] * w[k]),
          [v \in DOMAIN path |-> Total(LAMBDA k : (d - w[k]) * path[v][k])],
          [v \in DOMAIN path |-> Total(LAMBDA k : w[k] * path[v][k])])

Segment(timing, err, start, end) ==
  [feasible |-> TRUE, timing |-> timing, err |-> err, start |-> start, end |-> end]

Within(fit) == fit.err <= RegionTolerance * Unit

LeastError(fits) == CHOOSE f \in fits : \A g \in fits : f.err <= g.err

\* TryRelaxedLandmarkRegionSegment: linear, neutral, then the best of the
\* fitted eases, whichever is first within tolerance with ends of its own.
RelaxedSegment(path, region, i, j, none) ==
  LET Steps(timing) == IF timing = Linear THEN j - i ELSE 27
      Weights(timing) ==
        [k \in i .. j |-> IF timing = Linear THEN k - i
                          ELSE Progress(timing, k - i, j - i) \div (Unit \div 27)]
      Through(timing, ends) ==
        Segment(timing,
                ChordError(path, region, i, j, ends.start, ends.end,
                           [k \in i .. j |-> Progress(timing, k - i, j - i)]),
                ends.start, ends.end)
      Fit(timing) ==
        Through(timing, RelaxedEnds(path, i, j, Weights(timing), Steps(timing)))
      First(linear, neutral, best) ==
        IF Within(linear) THEN linear
        ELSE IF Within(neutral) THEN neutral
        ELSE IF Within(best) THEN best ELSE none
  IN First(Fit(Linear), Fit(Morph!Neutral), LeastError({Fit(p) : p \in FittedPairs}))

\* The region's own shapes at the ends: linear, else the better of the neutral
\* and the fitted ease; linear and neutral progress are judged on a grid of 16
\* steps.  Only then, and if that is allowed, the ends are relaxed.
SegmentFit(path, region, i, j, relaxed) ==
  LET Along(timing, k) ==
        IF timing \in {Linear, Morph!Neutral}
        THEN Morph!OnGrid(Progress(timing, k - i, j - i), 16)
        ELSE Progress(timing, k - i, j - i)
      Chord(timing, a, b) ==
        Segment(timing, ChordError(path, region, i, j, a, b,
                                   [k \in i .. j |-> Along(timing, k)]), a, b)
      Own(timing) == Chord(timing, SampleValue(path, i), SampleValue(path, j))
      None(neutral) == [neutral EXCEPT !.feasible = FALSE]
      First(linear, neutral, fitted) ==
        IF Within(linear) THEN linear
        ELSE IF Within(neutral) /\ neutral.err <= fitted.err THEN neutral
        ELSE IF Within(fitted) THEN fitted
        ELSE IF relaxed THEN RelaxedSegment(path, region, i, j, None(neutral))
        ELSE None(neutral)
  IN First(Own(Linear), Own(Morph!Neutral), LeastError({Own(p) : p \in FittedPairs}))

------------------------------------------------------------------------------
(***************************************************************************)
(* SolveLandmarkRegionTemporal: a placement of these segments with the     *)
(* region's own shapes, and one with relaxed ends if that has fewer keys.  *)
(***************************************************************************)
KeysOf(chain) ==
  [anchors |-> chain.anchors, timing |-> chain.timing, value |-> chain.value]

\* SolveProperty: fewest segments, then the least error, then the latest start;
\* neighbouring segments must agree on the key they share.  Every fit counts
\* against the budget.
PlacedKeys(path, region, relaxed, budget) ==
  LET By(chain, j, start, fit) ==
        [reached |-> /\ chain.reached /\ fit.feasible
                     /\ ~start => Last(chain.value) = fit.start,
         err |-> Max({chain.err, fit.err}),
         anchors |-> Append(chain.anchors, j),
         timing |-> Append(chain.timing, fit.timing),
         value |-> (IF start THEN <<fit.start>> ELSE chain.value) \o <<fit.end>>]
      Start(chain) == chain.anchors[Len(chain.anchors) - 1]
      AsGood(c, d) ==
        \/ Len(c.anchors) < Len(d.anchors)
        \/ /\ Len(c.anchors) = Len(d.anchors)
           /\ c.err < d.err \/ (c.err = d.err /\ Start(c) >= Start(d))
      Best(joined, unreached) ==
        IF joined = {} THEN unreached
        ELSE CHOOSE c \in joined : \A d \in joined : AsGood(c, d)
      Extend(chains, j) ==
        Append(chains,
               Best({c \in {By(chains[i + 1], j, i = 0,
                               SegmentFit(path, region, i, j, relaxed)) :
                               i \in StartsWithin(j)} : c.reached},
                    [chains[1] EXCEPT !.reached = FALSE]))
      origin == [reached |-> TRUE, err |-> 0, anchors |-> <<0>>,
                 timing |-> <<>>, value |-> <<SampleValue(path, 0)>>]
      Fits(chains) ==
        SumOver(LAMBDA j : Cardinality({i \in StartsWithin(j) : chains[i + 1].reached}),
                1 .. SampleCount(path) - 1)
      Solved(chains, found) ==
        Emits(found.reached /\ (budget > 0 => Fits(chains) <= budget),
              path, region, KeysOf(found))
      Placed(chains) == Solved(chains, Last(chains))
  IN Placed(FoldLeft(Extend, <<origin>>, [j \in 1 .. SampleCount(path) - 1 |-> j]))

TemporalKeys(path, region, budget) ==
  LET Fewer(exact, relaxed) ==
        IF /\ relaxed.ok
           /\ ~exact.ok \/ Len(relaxed.keys.anchors) < Len(exact.keys.anchors)
        THEN relaxed ELSE exact
  IN Fewer(PlacedKeys(path, region, FALSE, budget),
           PlacedKeys(path, region, TRUE, budget))
==============================================================================
