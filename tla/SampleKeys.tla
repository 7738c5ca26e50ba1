------------------------------ MODULE SampleKeys ------------------------------
(***************************************************************************)
(* Samples, keys and what keys evaluate to.  Times are ticks, values       *)
(* integers: a component of a property, or how far an outline has moved.   *)
(* n counts the vertices of an outline and is 1 for a plain value; no      *)
(* outline has none, so 0 is a malformed sample.                           *)
(***************************************************************************)
EXTENDS Integers, Sequences, FiniteSets, FiniteSetsExt

Interps == {"hold", "linear", "bezier"}

\* timing is the key timing recorded with the sample.
Sample == [t : Nat, v : Int, n : Nat, timing : Interps \cup {"none"}]

\* arc is how far the spatial tangents of a bezier segment take it off the
\* straight line.
Key == [t : Nat, v : Int, n : Nat, arc : Int, in : Interps, out : Interps]

Front(s) == s[1]
Back(s) == s[Len(s)]
Abs(x) == IF x < 0 THEN -x ELSE x
Largest(S) == IF S = {} THEN 0 ELSE Max(S)

\* The indices in I of a sequence, in their order, and what is there.
Nth(I, k) == CHOOSE i \in I : Cardinality({j \in I : j < i}) = k - 1
Those(s, I) == [k \in 1 .. Cardinality(I) |-> s[Nth(I, k)]]

-----------------------------------------------------------------------------
FindSegment(keys, t) ==
  LET later == {i \in 1 .. Len(keys) - 1 : t <= keys[i + 1].t}
  IN  IF later = {} THEN Len(keys) - 1 ELSE Min(later)

EvalLinear(l, r, t) == l.v + ((r.v - l.v) * (t - l.t)) \div (r.t - l.t)

\* Both eases at rest: slow out of the one key and into the other.
EvalTemporalBezier(l, r, t) ==
  LET u == t - l.t
      span == r.t - l.t
  IN  l.v + ((r.v - l.v) * u * u * (3 * span - 2 * u)) \div (span * span * span)

EvalUnifiedSpatialBezier(l, r, t) == EvalTemporalBezier(l, r, t) + l.arc

EvalSegment(l, r, t) ==
  IF "hold" \in {l.out, r.in} THEN l.v
  ELSE IF "linear" \in {l.out, r.in} THEN EvalLinear(l, r, t)
  ELSE IF l.arc # 0 THEN EvalUnifiedSpatialBezier(l, r, t)
  ELSE EvalTemporalBezier(l, r, t)

EvalKeysAt(keys, t) ==
  IF Len(keys) = 1 \/ t <= Front(keys).t THEN Front(keys).v
  ELSE IF t >= Back(keys).t THEN Back(keys).v
  ELSE LET i == FindSegment(keys, t) IN EvalSegment(keys[i], keys[i + 1], t)

ValidateKeys(samples, keys) ==
  Largest({Abs(samples[i].v - EvalKeysAt(keys, samples[i].t)) :
             i \in 1 .. Len(samples)})

-----------------------------------------------------------------------------
(***************************************************************************)
(* The still end of a clip.                                                *)
(***************************************************************************)
\* First of the equal samples that end the clip; 0 if the last one differs.
FindFinalStaticSuffixStartSample(samples) ==
  LET last == Len(samples)
      starts == {i \in 1 .. last - 1 :
                   \A k \in i .. last : samples[k].v = Back(samples).v
                                        /\ samples[k].n = Back(samples).n}
  IN  IF starts = {} THEN 0 ELSE Min(starts)

TrimSamplesFromTime(samples, end) ==
  LET kept == {i \in 1 .. Len(samples) : samples[i].t < end}
  IN  SubSeq(samples, 1, Largest({1} \cup kept))
TrimSamplesAfterTime(samples, end) ==
  LET kept == {i \in 1 .. Len(samples) : samples[i].t <= end}
  IN  SubSeq(samples, 1, Largest({1} \cup kept))

-----------------------------------------------------------------------------
(***************************************************************************)
(* Keys made straight from the samples.                                    *)
(***************************************************************************)
\* The recorded timing of the sample, or a straight line.
ApplySampleKeyTiming(s) == IF s.timing = "none" THEN "linear" ELSE s.timing

FrameKey(s) ==
  [t |-> s.t, v |-> s.v, n |-> s.n, arc |-> 0,
   in |-> ApplySampleKeyTiming(s), out |-> ApplySampleKeyTiming(s)]

RawFrameKeyFallback(samples) ==
  [keys |-> [i \in 1 .. Len(samples) |-> FrameKey(samples[i])],
   reported |-> 0, converged |-> TRUE]

WellFormed(s) == s.n > 0
ShapeFlatFrameKeyFallback(samples) ==
  LET kept == Those(samples, {i \in 1 .. Len(samples) : WellFormed(samples[i])})
  IN  [keys |-> [i \in 1 .. Len(kept) |-> FrameKey(kept[i])],
       reported |-> 0, converged |-> Len(kept) = Len(samples)]

SourceKeySampleTimeEpsilon(samples) ==
  LET steps == {samples[i].t - samples[i - 1].t : i \in 2 .. Len(samples)}
  IN  IF steps = {} THEN 0 ELSE Min(steps) \div 4

\* The nearest sample, the first of two; 0 if none is near enough.
FindSampleAtSourceKeyTime(samples, t) ==
  LET away(i) == Abs(samples[i].t - t)
      best == {i \in 1 .. Len(samples) :
                 \A k \in 1 .. Len(samples) : away(i) <= away(k)}
  IN  IF best # {} /\ away(Min(best)) <= SourceKeySampleTimeEpsilon(samples)
      THEN Min(best) ELSE 0

\* A key at every source key time, or none.
BuildShapeFlatSourceKeyPreservationKeys(samples, times) ==
  LET at(i) == FindSampleAtSourceKeyTime(samples, times[i])
  IN  IF \E i \in 1 .. Len(times) : at(i) = 0 THEN <<>>
      ELSE [i \in 1 .. Len(times) |->
              [FrameKey(samples[at(i)]) EXCEPT !.t = times[i]]]
==============================================================================
