--------------------------- MODULE ForwardPlacement ---------------------------
(***************************************************************************)
(* RunForwardLongestSpanPlacement: the greedy alternative to the dynamic   *)
(* program.  From the current anchor it tries the longest segment first    *)
(* and shortens it sample by sample; the first one that fits, and starts   *)
(* at the key value the previous segment ended with, is taken for good.    *)
(***************************************************************************)
EXTENDS PlacementProblem

VARIABLES
  pc,          \* where the placement is
  current,     \* the last anchor placed
  span,        \* the end of the segment tried next
  value,       \* current_anchor_value
  anchors,     \* anchors so far; sample_indices of the result
  out,         \* notes and converged of the result
  cancelFile   \* what the cancel function would answer

vars == <<problem, pc, current, span, value, anchors, out, cancelFile>>

Hi(k) == IF problem.widen \/ k + problem.gap > n - 1 THEN n - 1
         ELSE k + problem.gap

Notes == {"none", "cancelled", "constant_short_circuit", "fallback",
          "forward_longest_span_placement"}

\* On entry.
Called ==
  /\ pc = "start" /\ current = 0 /\ span = 0
  /\ value = CHOOSE v \in Values : TRUE
  /\ anchors = <<>>
  /\ out = [notes |-> "none", converged |-> FALSE]
  /\ cancelFile = FALSE

Init == problem \in Problems /\ Called

Return(notes, converged, indices) ==
  /\ pc' = "done"
  /\ out' = [notes |-> notes, converged |-> converged]
  /\ anchors' = indices

\* The host creates the cancel file, or takes it away again.
HostCancels ==
  /\ pc # "done" /\ cancelFile' = ~cancelFile
  /\ UNCHANGED <<problem, pc, current, span, value, anchors, out>>

\* Polled on entry, per anchor and per segment tried, but not once the last
\* anchor is placed, nor when the segments from an anchor are used up.
AtPoll ==
  \/ pc = "start"
  \/ pc = "anchor" /\ current < n - 1
  \/ pc = "trying" /\ span > current

ReturnCancelled ==
  /\ AtPoll /\ cancelFile
  /\ Return("cancelled", FALSE, <<>>)
  /\ UNCHANGED <<problem, current, span, value, cancelFile>>

TooFewSamples ==
  /\ pc = "start" /\ ~cancelFile /\ n < 2
  /\ Return("none", n = 1, IF n = 1 THEN <<0>> ELSE <<>>)
  /\ UNCHANGED <<problem, current, span, value, cancelFile>>

ConstantShortCircuit ==
  /\ pc = "start" /\ ~cancelFile /\ n >= 2 /\ problem.constant
  /\ Return("constant_short_circuit", TRUE, <<0>>)
  /\ UNCHANGED <<problem, current, span, value, cancelFile>>

StartAnchors ==
  /\ pc = "start" /\ ~cancelFile /\ n >= 2 /\ ~problem.constant
  /\ pc' = "anchor"
  /\ anchors' = <<0>> /\ value' = problem.sample[0]
  /\ UNCHANGED <<problem, current, span, out, cancelFile>>

StartSpan ==
  /\ pc = "anchor" /\ current < n - 1 /\ ~cancelFile
  /\ pc' = "trying" /\ span' = Hi(current)
  /\ UNCHANGED <<problem, current, value, anchors, out, cancelFile>>

Fits == Fit(current, span).feasible /\ Fit(current, span).start = value

AcceptSpan ==
  /\ pc = "trying" /\ span > current /\ ~cancelFile
  /\ Fits
  /\ pc' = "anchor" /\ current' = span
  /\ value' = Fit(current, span).end
  /\ anchors' = Append(anchors, span)
  /\ UNCHANGED <<problem, span, out, cancelFile>>

HalveSpan ==
  /\ pc = "trying" /\ span > current /\ ~cancelFile
  /\ ~Fits
  /\ span' = current + (span - current) \div 2
  /\ UNCHANGED <<problem, pc, current, value, anchors, out, cancelFile>>

ShortenSpan ==
  /\ pc = "trying" /\ span > current /\ ~cancelFile
  /\ ~Fits
  /\ span' = span - 1
  /\ UNCHANGED <<problem, pc, current, value, anchors, out, cancelFile>>

\* Nothing fits from here: the anchors placed so far are dropped as well.
FallbackAllSamples ==
  /\ pc = "trying" /\ span = current
  /\ Return("fallback", FALSE, AllSamples)
  /\ UNCHANGED <<problem, current, span, value, cancelFile>>

PlacementDone ==
  /\ pc = "anchor" /\ current = n - 1
  /\ Return("forward_longest_span_placement", TRUE,
            anchors)
  /\ UNCHANGED <<problem, current, span, value, cancelFile>>

Returned == pc = "done" /\ UNCHANGED vars

Place == \/ ReturnCancelled \/ TooFewSamples \/ ConstantShortCircuit
         \/ StartAnchors \/ StartSpan \/ AcceptSpan \/ ShortenSpan
         \/ FallbackAllSamples \/ PlacementDone

Next == HostCancels \/ Place \/ Returned

Spec == Init /\ [][Next]_vars

------------------------------------------------------------------------------
(***************************************************************************)
(* Properties.                                                             *)
(***************************************************************************)
TypeOK ==
  /\ IsProblem(problem)
  /\ pc \in {"start", "anchor", "trying", "done"}
  /\ current \in 0 .. n /\ span \in 0 .. n
  /\ value \in Values /\ cancelFile \in BOOLEAN
  /\ \A k \in DOMAIN anchors : anchors[k] \in 0 .. n - 1
  /\ out \in [notes : Notes, converged : BOOLEAN]

Placed == pc = "done" /\ out.converged /\ n >= 2 /\ ~problem.constant

\* A converged greedy placement is a chain of feasible segments of legal length
\* from the first sample to the last; neighbouring segments agree on the key
\* between them, and the first starts at the first sample's value.
ResultIsAChain ==
  Placed =>
    /\ Len(anchors) >= 2
    /\ anchors[1] = 0 /\ anchors[Len(anchors)] = n - 1
    /\ Fit(0, anchors[2]).start = problem.sample[0]
    /\ \A k \in 1 .. Len(anchors) - 1 :
         /\ anchors[k + 1] \in anchors[k] + 1 .. Hi(anchors[k])
         /\ Fit(anchors[k], anchors[k + 1]).feasible
         /\ k > 1 => Agree(anchors[k - 1], anchors[k], anchors[k + 1])

\* A chain of k segments the placement could have chosen.
IsChain(s, k) ==
  /\ s[0] = 0 /\ s[k] = n - 1
  /\ \A m \in 1 .. k :
       /\ s[m] \in s[m - 1] + 1 .. Hi(s[m - 1])
       /\ Fit(s[m - 1], s[m]).feasible

\* Where every part of a feasible segment is feasible, taking the longest
\* segment is never wrong: the greedy placement has as few keys as the dynamic
\* program's, and falls back on all samples only if no chain exists.  (Elsewhere it may give
\* up although a chain exists: it never reconsiders an anchor.)
GreedyIsMinimal ==
  /\ Exact /\ Hereditary
  /\ pc = "done" /\ out.notes \notin {"cancelled", "constant_short_circuit"}
  =>
    \A k \in 1 .. n - 1 : \A s \in [0 .. k -> 0 .. n - 1] :
      IsChain(s, k) => out.converged /\ Len(anchors) <= k + 1
==============================================================================
