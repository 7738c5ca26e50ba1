---------------------------- MODULE MorphProgress ----------------------------
(***************************************************************************)
(* How a shape morphs from one key to the next, and whether the motion in  *)
(* between stays within tolerance of the source (path/temporal).  A shape  *)
(* is one number, a stand-in for its outline, and the outline error of two *)
(* shapes is their distance.  Samples are equally spaced in time.          *)
(* Progresses, errors and tolerances are counted in 1/Unit, so that the    *)
(* thirds of a segment, a Bezier ease and the progress grid are exact.     *)
(***************************************************************************)
EXTENDS Integers, Sequences, SequencesExt, FiniteSetsExt

Unit == 108             \* divisible by 27 and by 4
Bisection == 3          \* cells of the ease parameter; the code bisects to 2^-40
Neutral == <<33, 33>>   \* out and in influence of an untouched ease

Distance(x, y) == IF x > y THEN x - y ELSE y - x
Clamp(x, lo, hi) == IF x < lo THEN lo ELSE IF x > hi THEN hi ELSE x

------------------------------------------------------------------------------
(***************************************************************************)
(* Progress.                                                               *)
(***************************************************************************)
LinearProgress(k, m) == (k * Unit) \div m

\* Influences are clamped to the range the options leave.
Least(o) == Min({o.minInfluence, o.maxInfluence})
Greatest(o) == Max({o.minInfluence, o.maxInfluence})
ClampBoth(p, lo, hi) == <<Clamp(p[1], lo, hi), Clamp(p[2], lo, hi)>>
ClampPair(p, o) == ClampBoth(p, Least(o), Greatest(o))

\* The ease's time curve has its handles at out% and 100-in%; the parameter
\* where it meets the time k of m is looked up, and read off the value curve,
\* whose handles are flat.
EaseTime(pair) ==
  [q \in 0 .. Bisection |-> 3 * (3 - q) * (3 - q) * q * pair[1]
                            + 3 * (3 - q) * q * q * (100 - pair[2])
                            + 100 * q * q * q]
EaseValue ==
  [q \in 0 .. Bisection |-> (9 * q * q - 2 * q * q * q) * (Unit \div 27)]

MeetsAt(time, k, m) ==
  LET Miss(q) == Distance(time[q] * m, 2700 * k)
  IN  CHOOSE q \in 0 .. Bisection : \A r \in 0 .. Bisection : Miss(q) <= Miss(r)

BezierProgress(k, m, pair) == EaseValue[MeetsAt(EaseTime(pair), k, m)]

\* The nearest point of a grid of that many steps.
OnGrid(progress, steps) ==
  (((2 * progress * steps + Unit) \div (2 * Unit)) * Unit) \div steps

\* The error of a source shape against the chord a..b at a progress.
ChordError(shape, a, b, progress) ==
  Distance(shape * Unit, a * Unit + (b - a) * progress)

\* The worst error over the samples i..j of a source whose k-th sample is
\* judged at progress[k].
WorstError(src, i, j, a, b, progress) ==
  Max({ChordError(src[k], a, b, progress[k]) : k \in i .. j})

------------------------------------------------------------------------------
(***************************************************************************)
(* The ease pairs tried, in order and without repetition.                  *)
(***************************************************************************)
AddInfluenceCandidate(candidates, pair) ==
  IF Contains(candidates, pair) THEN candidates ELSE Append(candidates, pair)

AddAll(candidates, pairs, o) ==
  FoldLeft(LAMBDA c, p : AddInfluenceCandidate(c, ClampPair(p, o)),
           candidates, pairs)

\* An even grid from the least to the greatest influence, with the neutral one.
UniformInfluenceValues(o) ==
  LET Even(lo, hi, steps) ==
        {lo + ((hi - lo) * k) \div (steps - 1) : k \in 0 .. steps - 1}
  IN  Even(ClampPair(<<o.minInfluence, o.minInfluence>>, o)[1],
           ClampPair(<<o.maxInfluence, o.maxInfluence>>, o)[1],
           Max({2, o.gridSteps})) \cup {33}

\* Quarters of the range and steep eases, then the grid row by row.
InfluenceCandidates(o) ==
  LET Shaped(lo, q1, mid, q3, hi) ==
        <<<<q3, q1>>, <<q1, q3>>, <<90, 10>>, <<10, 90>>, <<80, 20>>,
          <<20, 80>>, <<mid, mid>>, <<hi, lo>>, <<lo, hi>>, <<q3, q3>>,
          <<q1, q1>>>>
      Quarters(lo, hi) ==
        Shaped(lo, lo + (hi - lo) \div 4, lo + (hi - lo) \div 2,
               lo + (3 * (hi - lo)) \div 4, hi)
      Squared(values) ==
        [x \in 1 .. Len(values) * Len(values) |->
           <<values[((x - 1) \div Len(values)) + 1],
             values[((x - 1) % Len(values)) + 1]>>]
  IN  AddAll(<<>>, Quarters(Least(o), Greatest(o))
                   \o Squared(SetToSortSeq(UniformInfluenceValues(o), <)), o)

------------------------------------------------------------------------------
(***************************************************************************)
(* The search for an ease pair: a coarse pass over the candidates, then    *)
(* the neighbours of the best at half the grid distance, then what is left *)
(* of the candidates; never more than the budget of pairs.                 *)
(***************************************************************************)
NoError == -1     \* infinity: nothing tried yet

PairError(src, i, j, a, b, pair) ==
  WorstError(src, i, j, a, b,
             [k \in i .. j |-> BezierProgress(k - i, j - i, pair)])

KeepBest(found, pair, err) ==
  IF found.err = NoError \/ err < found.err
  THEN [tried |-> Append(found.tried, pair), err |-> err, pair |-> pair]
  ELSE [found EXCEPT !.tried = Append(@, pair)]

TryPair(found, src, i, j, a, b, pair, o, budget) ==
  IF Len(found.tried) >= budget \/ Contains(found.tried, pair) THEN found
  ELSE KeepBest(found, pair, PairError(src, i, j, a, b, ClampPair(pair, o)))

\* A step of the search tries a pair, or one that far from the best so far,
\* while the pairs tried are fewer than its budget.
SearchSteps(candidates, grid, o) ==
  LET reserved == IF o.refinements > 0 THEN Min({8, o.maxPairs \div 2}) ELSE 0
      Pairs(budget) ==
        [x \in DOMAIN candidates |->
           [near |-> FALSE, pair |-> candidates[x], budget |-> budget]]
      Around(d) ==
        [x \in 1 .. 8 |->
           [near |-> TRUE, budget |-> o.maxPairs,
            pair |-> <<<<-d, -d>>, <<-d, 0>>, <<-d, d>>, <<0, -d>>,
                       <<0, d>>, <<d, -d>>, <<d, 0>>, <<d, d>>>>[x]]]
  IN  Pairs(Max({1, o.maxPairs - reserved}))
      \o FlattenSeq([h \in 1 .. o.refinements |-> Around(grid \div (2 ^ h))])
      \o Pairs(o.maxPairs)

FittedPair(src, i, j, a, b, o) ==
  LET Do(found, step) ==
        TryPair(found, src, i, j, a, b,
                IF step.near THEN <<found.pair[1] + step.pair[1],
                                    found.pair[2] + step.pair[2]>>
                ELSE step.pair, o, step.budget)
  IN  FoldLeft(Do, [tried |-> <<>>, err |-> NoError, pair |-> Neutral],
               SearchSteps(InfluenceCandidates(o),
                           Distance(o.maxInfluence, o.minInfluence)
                           \div (Max({2, o.gridSteps}) - 1), o))

------------------------------------------------------------------------------
(***************************************************************************)
(* The oracle of one segment i..j from shape a to shape b.                 *)
(***************************************************************************)
\* The steps of the progress grid at which each sample would be acceptable;
\* the ends of the segment may not move along it.
AcceptedSteps(src, i, j, a, b, k, o) ==
  {s \in 0 .. o.steps :
     /\ ChordError(src[k], a, b, (s * Unit) \div o.steps) <= o.tolerance * Unit
     /\ k = i => s = 0
     /\ (k = j /\ k # i) => s = o.steps}

\* Maximal runs of accepted steps.
ProgressIntervals(accepted, steps) ==
  {r \in (0 .. steps) \X (0 .. steps) :
     /\ r[1] <= r[2] /\ r[1] .. r[2] \subseteq accepted
     /\ r[1] - 1 \notin accepted /\ r[2] + 1 \notin accepted}

\* Row by row, which steps a path that never goes back can be at.
HasMonotonePath(rows, steps) ==
  LET Advance(reachable, row) ==
        {s \in row : \E r \in reachable : r <= s}
  IN  /\ rows # <<>>
      /\ steps \in FoldLeft(Advance, rows[1] \cap {0}, Tail(rows))

\* A pair is looked for only where linear and default Bezier progress fail.
MorphVerdict(segment, linear, bezier, found, o) ==
  LET Within(e) == e <= o.tolerance * Unit
      searched == o.fitPairs /\ o.maxPairs > 0 /\ ~Within(linear)
                  /\ ~Within(bezier)
  IN  [ok |-> segment < o.window /\ o.steps >= 2,
       linear |-> Within(linear), bezier |-> Within(bezier),
       fitted |-> searched /\ Within(found.err),
       bezierErr |-> bezier,
       fittedErr |-> IF searched THEN found.err ELSE NoError,
       pair |-> IF searched THEN found.pair ELSE Neutral]

\* Linear and default Bezier progress are judged at the nearest grid step, a
\* fitted pair at its own progress.
Oracle(src, i, j, a, b, o) ==
  LET Error(progress) ==
        WorstError(src, i, j, a, b,
                   [k \in i .. j |-> OnGrid(progress[k], o.steps)])
  IN  MorphVerdict(j - i,
              Error([k \in i .. j |-> LinearProgress(k - i, j - i)]),
              Error([k \in i .. j |-> BezierProgress(k - i, j - i, Neutral)]),
              FittedPair(src, i, j, a, b, o), o)
==============================================================================
