------------------------- MODULE ReplacementSegments -------------------------
(***************************************************************************)
(* The segments of the replacement temporal solve: what is fitted between  *)
(* two samples, which key values it wants, and how keys are put together   *)
(* from them (replacement_temporal).  A clip has the outlines of the       *)
(* source, src, and of the vertex-reduced path, red; a segment moves the   *)
(* reduced path and is judged against the source.                          *)
(***************************************************************************)
EXTENDS MorphProgress

SampleValue == {}   \* an empty key value: the key keeps that of the sample
Own(value) == {value}
ValueOr(value, sample) ==
  IF value = SampleValue THEN sample ELSE CHOOSE v \in value : TRUE
AnchoredPairs == <<Neutral, <<90, 10>>, <<10, 90>>, <<80, 20>>, <<20, 80>>,
                   <<66, 33>>, <<33, 66>>>>

\* InfeasibleSegment, InfeasibleRelaxedSegment
Infeasible == [feasible |-> FALSE, interp |-> "linear", pair |-> Neutral,
               start |-> SampleValue, end |-> SampleValue]

Segment(interp, pair, start, end) ==
  [feasible |-> TRUE, interp |-> interp, pair |-> pair,
   start |-> start, end |-> end]

\* The progress of sample k of a segment i..j while it is fitted: its ease is
\* clamped to the influences of the call.  The key keeps the ease as it is.
SegmentProgress(c, i, j, k, interp, pair) ==
  IF interp = "bezier" THEN BezierProgress(k - i, j - i, ClampPair(pair, c))
  ELSE LinearProgress(k - i, j - i)

RoundDiv(num, den) == (2 * num + den) \div (2 * den)

\* f[i] + ... + f[j]
SumOver(f, i, j) ==
  LET Sum[k \in i - 1 .. j] == IF k < i THEN 0 ELSE Sum[k - 1] + f[k]
  IN  Sum[j]

------------------------------------------------------------------------------
(***************************************************************************)
(* Least squares, solved exactly and rounded to a value.                   *)
(***************************************************************************)
\* Progresses as fractions of M, small enough for the normal equations.
Fraction(i, j, interp) == IF interp = "bezier" THEN 27 ELSE j - i
Fractions(c, i, j, interp, pair) ==
  [k \in i .. j |->
     (SegmentProgress(c, i, j, k, interp, pair) * Fraction(i, j, interp))
     \div Unit]

\* Cramer's rule; none if the two columns are dependent.
BothEnds(M, s00, s01, s11, y0, y1) ==
  {<<RoundDiv(M * (y0 * s11 - y1 * s01), det),
     RoundDiv(M * (s00 * y1 - s01 * y0), det)>> :
     det \in {s00 * s11 - s01 * s01} \ {0}}

\* Both ends free, P being the progress of each sample.
RelaxedEndpoints(c, i, j, M, P) ==
  BothEnds(M, SumOver([k \in i .. j |-> (M - P[k]) * (M - P[k])], i, j),
           SumOver([k \in i .. j |-> (M - P[k]) * P[k]], i, j),
           SumOver([k \in i .. j |-> P[k] * P[k]], i, j),
           SumOver([k \in i .. j |-> (M - P[k]) * c.red[k]], i, j),
           SumOver([k \in i .. j |-> P[k] * c.red[k]], i, j))

\* The first end is where the previous segment left it.
AnchoredEndpoint(c, i, j, a, M, P) ==
  {<<a, RoundDiv(SumOver([k \in i .. j |->
                           P[k] * (c.red[k] * M - (M - P[k]) * a)], i, j),
                 denom)>> :
     denom \in {SumOver([k \in i .. j |-> P[k] * P[k]], i, j)} \ {0}}

\* ValidateRelaxedChord
ChordWithin(c, i, j, ends, interp, pair) ==
  WorstError(c.src, i, j, ends[1], ends[2],
             [k \in i .. j |-> SegmentProgress(c, i, j, k, interp, pair)])
    <= c.tolerance * Unit

TheOne(fits) == IF fits = {} THEN Infeasible ELSE CHOOSE f \in fits : TRUE

\* A chord through fitted ends, if the source stays within tolerance of it.
Fitted(c, i, j, ends, interp, pair) ==
  TheOne({Segment(interp, pair, Own(e[1]), Own(e[2])) :
             e \in {x \in ends : ChordWithin(c, i, j, x, interp, pair)}})

FirstFeasible(fits) ==
  LET First(ks) == IF ks = {} THEN Infeasible ELSE fits[Min(ks)]
  IN  First({k \in DOMAIN fits : fits[k].feasible})

------------------------------------------------------------------------------
(***************************************************************************)
(* The segment of the dynamic program.                                     *)
(***************************************************************************)
\* Linear, default Bezier, then the oracle's fitted pair, with both ends free.
TryRelaxedReplacementSegment(c, i, j, oracle) ==
  LET Free(interp, pair) ==
        Fitted(c, i, j, RelaxedEndpoints(c, i, j, Fraction(i, j, interp),
                                         Fractions(c, i, j, interp, pair)),
               interp, pair)
      beziers == c.allowBezier /\ c.allowShapeBezier
  IN  FirstFeasible(
        (IF c.allowLinear THEN <<Free("linear", Neutral)>> ELSE <<>>)
        \o (IF beziers THEN <<Free("bezier", Neutral)>> ELSE <<>>)
        \o (IF beziers /\ oracle.fittedErr # NoError
            THEN <<Free("bezier", oracle.pair)>> ELSE <<>>))

\* The ends as sampled if the oracle allows it, else ends of its own.
FitWithOracle(c, i, j, oracle) ==
  LET Keep(interp, pair) == Segment(interp, pair, SampleValue, SampleValue)
      useFitted == oracle.fitted
                   /\ (~oracle.bezier \/ oracle.fittedErr < oracle.bezierErr)
  IN  CASE ~c.allowLinear /\ ~c.allowBezier -> Infeasible
        [] ~oracle.ok -> Infeasible
        [] c.allowLinear /\ oracle.linear -> Keep("linear", Neutral)
        [] c.allowBezier /\ c.allowShapeBezier
           /\ (oracle.bezier \/ oracle.fitted) ->
             Keep("bezier", IF useFitted THEN oracle.pair ELSE Neutral)
        [] c.allowRelaxed -> TryRelaxedReplacementSegment(c, i, j, oracle)
        [] OTHER -> Infeasible

FitReplacementSegment(c, i, j) ==
  FitWithOracle(c, i, j, Oracle(c.src, i, j, c.red[i], c.red[j], c))

------------------------------------------------------------------------------
(***************************************************************************)
(* The segments of the forward span and of the linear prune.               *)
(***************************************************************************)
FitOnReducedPath(c, i, j) ==
  IF ChordWithin([c EXCEPT !.src = c.red], i, j, <<c.red[i], c.red[j]>>,
                 "linear", Neutral)
  THEN Segment("linear", Neutral, SampleValue, SampleValue) ELSE Infeasible

FitForwardLongestSpanLinearSegment(c, i, j) ==
  IF ChordWithin(c, i, j, <<c.red[i], c.red[j]>>, "linear", Neutral)
  THEN Segment("linear", Neutral, SampleValue, SampleValue) ELSE Infeasible

Anchored(c, i, j, a, interp, pair) ==
  Fitted(c, i, j, AnchoredEndpoint(c, i, j, a, Fraction(i, j, interp),
                                   Fractions(c, i, j, interp, pair)),
         interp, pair)

\* At most three pairs; the least error wins, the first of equals.
FitAnchoredBezier(c, i, j, a) ==
  LET Judged(x, pair, fit) ==
        [order |-> x, fit |-> fit,
         err |-> WorstError(c.src, i, j, a, ValueOr(fit.end, a),
                            [k \in i .. j |->
                              SegmentProgress(c, i, j, k, "bezier", pair)])]
      Try(x) == Judged(x, AnchoredPairs[x],
                       Anchored(c, i, j, a, "bezier", AnchoredPairs[x]))
      Best(tries) ==
        {f.fit : f \in {g \in tries : \A h \in tries :
                   g.err < h.err \/ (g.err = h.err /\ g.order <= h.order)}}
  IN  IF ~c.fitPairs THEN Infeasible
      ELSE TheOne(Best({t \in {Try(x) : x \in 1 .. Min({3, Max({1, c.maxPairs})})} :
                          t.fit.feasible}))

\* The strict chord is for an anchor that still has its sample's value.
FitFallbackLinearPruneSegment(c, i, j, a) ==
  FirstFeasible((IF a = c.red[i]
                 THEN <<FitForwardLongestSpanLinearSegment(c, i, j)>> ELSE <<>>)
                \o <<Anchored(c, i, j, a, "linear", Neutral),
                     FitAnchoredBezier(c, i, j, a)>>)

\* Both paths stand still from i to here.
ExactStaticRunEnd(c, i) ==
  Max({k \in i .. c.n - 1 :
         \A m \in i .. k : c.src[m] = c.src[i] /\ c.red[m] = c.red[i]})

\* The ends tried from an anchor: a few far beyond the largest gap, and every
\* one up to twice the gap.
FallbackPruneCandidateEnds(i, last, gap, far) ==
  LET leaps == IF far > gap
               THEN {far, (3 * far) \div 4, far \div 2, far \div 3, 4 * gap,
                     3 * gap, (5 * gap) \div 2, 2 * gap, (3 * gap) \div 2}
               ELSE {}
      offsets == {x \in leaps \cup 1 .. Min({far, 2 * gap}) : x > 0}
  IN  {Min({last, i + x}) : x \in offsets} \ {i}

------------------------------------------------------------------------------
(***************************************************************************)
(* Keys from anchors and segments, and their evaluation.                   *)
(***************************************************************************)
\* The value the segment before a key ends with, else the one the segment
\* after it starts with, else the sample's.
KeyValue(c, anchors, segments, k) ==
  LET After == IF k < Len(anchors)
               THEN ValueOr(segments[k].start, c.red[anchors[k]])
               ELSE c.red[anchors[k]]
  IN  IF k > 1 THEN ValueOr(segments[k - 1].end, After) ELSE After

\* AssembleReplacementKeys, AssembleLinearPruneKeys: keys[k] is reached by the
\* interpolation of segment k-1 and left by that of segment k.
AssembleKeys(c, anchors, segments) ==
  [k \in 1 .. Len(anchors) |->
     [at |-> anchors[k], v |-> KeyValue(c, anchors, segments, k),
      interp |-> IF k < Len(anchors) THEN segments[k].interp ELSE "bezier",
      pair |-> IF k < Len(anchors) THEN segments[k].pair ELSE Neutral]]

\* Every key holds until the next.
MarkAsHold(keys) ==
  [k \in DOMAIN keys |->
     IF k < Len(keys) THEN [keys[k] EXCEPT !.interp = "hold"] ELSE keys[k]]

\* The error of the keys at sample t: before the first and after the last key
\* their values; a hold keeps the left value, at the right key's time as well.
KeysError(c, keys, t) ==
  LET left == Min({k \in 1 .. Len(keys) - 1 : t <= keys[k + 1].at})
      a == keys[left]
      b == keys[left + 1]
  IN  IF t <= keys[1].at THEN Unit * Distance(c.src[t], keys[1].v)
      ELSE IF t >= keys[Len(keys)].at
      THEN Unit * Distance(c.src[t], keys[Len(keys)].v)
      ELSE IF a.interp = "hold" THEN Unit * Distance(c.src[t], a.v)
      ELSE ChordError(c.src[t], a.v, b.v,
             IF a.interp = "bezier"
             THEN BezierProgress(t - a.at, b.at - a.at, a.pair)
             ELSE LinearProgress(t - a.at, b.at - a.at))

\* ValidatePathTemporalCandidate: every source sample is checked.
Validates(c, keys) ==
  /\ keys # <<>>
  /\ \A t \in 0 .. c.n - 1 : KeysError(c, keys, t) <= c.tolerance * Unit

\* As After Effects shows a hold: the key's own value at its own time.
ShownWithin(c, keys) ==
  Validates(c, keys) \/
    \A t \in 0 .. c.n - 1 :
      LET before == {k \in DOMAIN keys : keys[k].at <= t}
      IN  /\ before # {} /\ keys[Max(before)].at = t
          /\ Unit * Distance(c.src[t], keys[Max(before)].v) <= c.tolerance * Unit
==============================================================================
