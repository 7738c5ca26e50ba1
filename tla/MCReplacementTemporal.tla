------------------------ MODULE MCReplacementTemporal ------------------------
(***************************************************************************)
(* Small clips for the replacement temporal solve: up to five samples of a *)
(* path that stands, moves evenly, jumps or eases, reduced exactly or with *)
(* one vertex-reduced sample off by as much as the tolerance.              *)
(***************************************************************************)
EXTENDS ReplacementTemporal

\* The progress search is right: a path through accepted steps that never goes
\* back, found row by row, exists if and only if there is one at all.
Rows == [1 .. 3 -> SUBSET (0 .. 2)]
ASSUME MonotonePathIsFound ==
  \A rows \in Rows :
    HasMonotonePath(rows, 2) <=>
      \E s \in [1 .. 3 -> 0 .. 2] :
        /\ s[1] = 0 /\ s[3] = 2
        /\ \A k \in 1 .. 3 : s[k] \in rows[k]
        /\ s[1] <= s[2] /\ s[2] <= s[3]

\* Intervals cover exactly the accepted steps and do not touch.
ASSUME IntervalsPartition ==
  \A accepted \in SUBSET (0 .. 4) :
    LET runs == ProgressIntervals(accepted, 4)
    IN  /\ UNION {r[1] .. r[2] : r \in runs} = accepted
        /\ \A r, s \in runs : r # s => r[2] + 1 < s[1] \/ s[2] + 1 < r[1]

Base ==
  [input |-> "ok", tolerance |-> 1, uniform |-> TRUE,
   allowLinear |-> TRUE, allowBezier |-> FALSE, allowShapeBezier |-> FALSE,
   allowRelaxed |-> FALSE, window |-> 0, steps |-> 4,
   minInfluence |-> 1, maxInfluence |-> 100, cfgMin |-> 1, cfgMax |-> 100,
   gridSteps |-> 2, refinements |-> 0, maxPairs |-> 2, fitPairs |-> FALSE,
   gap |-> 0, multimode |-> FALSE, fastPercent |-> 0,
   forward |-> FALSE, forwardMinSamples |-> 2, forwardGap |-> 0,
   forwardChecks |-> 0]

Beziers == [Base EXCEPT !.allowBezier = TRUE, !.allowShapeBezier = TRUE]

\* Linear alone, with everything, Beziers alone, nothing, one-sample gaps so
\* that the fallback comes up, and a budget the prune runs into.
Settings ==
  {Base,
   [Base EXCEPT !.gap = 1, !.maxPairs = 0],
   [Beziers EXCEPT !.gap = 1, !.window = 2],
   [Beziers EXCEPT !.allowRelaxed = TRUE, !.forward = TRUE],
   [Beziers EXCEPT !.allowLinear = FALSE, !.refinements = 1, !.maxPairs = 4],
   [Base EXCEPT !.allowLinear = FALSE],
   [Base EXCEPT !.gap = 1, !.forwardChecks = 3, !.forward = TRUE],
   [Base EXCEPT !.multimode = TRUE, !.fastPercent = 60],
   [Base EXCEPT !.multimode = TRUE, !.gap = 2, !.forward = TRUE]}

Motions(size, heights) == [0 .. size - 1 -> heights]

\* The progress bands do not contradict the eases: where even or default
\* progress passes, a path through the accepted steps never goes back.
ASSUME BandsAllowTheEases ==
  \A src \in Motions(4, {0, 4, 9}), j \in 1 .. 3 :
    LET o == [Base EXCEPT !.window = 8]
        found == Oracle(src, 0, j, src[0], src[j], o)
    IN  found.linear \/ found.bezier =>
          HasMonotonePath([k \in 1 .. j + 1 |->
                             AcceptedSteps(src, 0, j, src[0], src[j], k - 1, o)],
                          o.steps)

Clip(s, size, src, red) ==
  [n |-> size, src |-> src, red |-> red] @@ s

Exact(size, heights) ==
  {Clip(s, size, f, f) : s \in Settings, f \in Motions(size, heights)}

Reduced(size, heights) ==
  {Clip(s, size, f, [f EXCEPT ![k] = @ + 1]) :
     s \in Settings, f \in Motions(size, heights), k \in 0 .. size - 1}

Rejected ==
  {Clip([Base EXCEPT !.input = x], 1, [k \in {0} |-> 0], [k \in {0} |-> 0]) :
     x \in {"requires_shape_flat", "no_samples", "sample_time_mismatch"}}

MCCalls == Rejected \cup Exact(1, {0}) \cup Exact(2, {0, 6})
           \cup Exact(4, {0, 4, 12}) \cup Reduced(4, {0, 4})
           \cup Exact(5, {0, 3, 9})

\* Not converged, or any chain of the path's samples that validates.
MCMultiMode(o) ==
  LET Chain(inner) ==
        LET a == SetToSortSeq({0, o.n - 1} \cup inner, <)
            s == [k \in 1 .. Len(a) - 1 |->
                    Segment("linear", Neutral, SampleValue, SampleValue)]
        IN  AssembleKeys(o, a, s)
      valid == {keys \in {Chain(i) : i \in SUBSET (1 .. o.n - 2)} :
                  Validates(o, keys)}
  IN  {[keys |-> <<>>, converged |-> FALSE, notes |-> {}, by |-> "multimode"]}
      \cup {[keys |-> k, converged |-> TRUE, notes |-> {}, by |-> "multimode"]
              : k \in valid}
==============================================================================
