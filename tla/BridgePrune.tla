----------------------------- MODULE BridgePrune -----------------------------
(***************************************************************************)
(* TryPostTemporalBridgePrune: vertices are taken out of the keys of a     *)
(* solved path, one index at a time from every key that has the most       *)
(* common number of vertices.  A pass evaluates the removal of each index, *)
(* applies the best one, and then tries the others that passed, in their   *)
(* order, on the keys as they have become.                                 *)
(*                                                                         *)
(* A vertex is its index in the solved keys; a removal moves none of those *)
(* that stay, but its neighbours turn another way.  What the bridge fit    *)
(* and the validations against the samples say of a candidate is free: it  *)
(* is rejected, or accepted with some error.                               *)
(***************************************************************************)
EXTENDS Integers, SequencesExt

CONSTANTS
  SolvedKeys,     \* the key lists to prune: the vertex count of each key
  MinTarget,      \* max(path_replacement_min_vertices, 4)
  PassBudget,     \* PostTemporalBridgePrunePassBudget's cap on the passes
  ChunkSize,      \* candidates evaluated between two progress events
  Corners,        \* <<k, u, v, w>>: in key k, the path turns sharply at v
                  \* when it comes from u and goes on to w
  Errors,         \* max_err of candidates, and
  ScreenErrors,   \* max_err_screen_px, both on a scale of their own
  kTieEpsilon

ASSUME BridgePruneAssumption ==
  /\ MinTarget \in Nat \ {0} /\ PassBudget \in Nat \ {0}
  /\ ChunkSize \in Nat \ {0} /\ kTieEpsilon \in Nat
  /\ Errors \subseteq Nat /\ ScreenErrors \subseteq Nat /\ ScreenErrors # {}
  /\ \A counts \in SolvedKeys : counts \in Seq(Nat)

VARIABLES
  pc, cancelFile,
  preferVertices, \* path_replacement_prefer_vertices
  preserve,    \* path_preserve_sharp_corners, on vertices that mean something
  solved,      \* vertex counts of the keys that came in
  keys,        \* current: the vertices each key has left
  maxErr,      \* current.max_err
  bestError,   \* best_error
  passes,      \* passes begun
  target,      \* target_vertices of the pass
  candidates,  \* removal_candidates
  evaluations, \* the candidates evaluated; -1 for a rejected one
  order,       \* accepted_order, what is left of it; the best is in it too
  best,        \* best_index, a candidate
  removed,     \* removed_original_indices
  batchError,  \* best_error of the batch
  pruned,      \* pruned_vertices
  result

inputs == <<preferVertices, preserve, solved>>
passVars ==
  <<target, candidates, evaluations, order, best, removed, batchError>>
keyVars == <<keys, maxErr, bestError, pruned>>
vars == <<pc, cancelFile, inputs, keyVars, passes, passVars, result>>

Rejected == -1

AllVertices(counts) == [k \in DOMAIN counts |-> [i \in 1 .. counts[k] |-> i - 1]]

Counts == {Len(keys[k]) : k \in DOMAIN keys}
KeysOf(count) == {k \in DOMAIN keys : Len(keys[k]) = count}

\* DominantClosedShapeFlatKeyVertexCount: the most frequent count above the
\* minimum, the larger of two as frequent; 0 without one.
Dominant ==
  LET above == {c \in Counts : c > MinTarget}
      frequency(c) == Cardinality(KeysOf(c))
  IN IF above = {} THEN 0
     ELSE CHOOSE c \in above : \A d \in above :
            \/ frequency(c) > frequency(d)
            \/ frequency(c) = frequency(d) /\ c >= d

\* ShapeFlatIndexIsSharpCorner: between the vertices next to it as they are now,
\* on a closed path.
IsSharpCorner(k, index) ==
  LET path == keys[k]
      n == Len(path)
  IN <<k, path[((index + n - 1) % n) + 1], path[index + 1],
       path[((index + 1) % n) + 1]>> \in Corners

\* ShapeFlatKeyIndexIsProtectedCorner: sharp in one of the keys that have that
\* many vertices now.
IsProtected(count, index) ==
  preserve /\ \E k \in KeysOf(count) : IsSharpCorner(k, index)

\* The vertex leaves the first key of the class only.
WithoutInOneKey(ks, count, index) ==
  [k \in DOMAIN ks |->
     IF Len(ks[k]) = count /\ \A j \in DOMAIN ks : j < k => Len(ks[j]) # count
     THEN RemoveAt(ks[k], index + 1) ELSE ks[k]]

\* BridgePruneShapeFlatKeyClass.
Without(ks, count, index) ==
  [k \in DOMAIN ks |-> IF Len(ks[k]) = count THEN RemoveAt(ks[k], index + 1)
                       ELSE ks[k]]

Below(e, f) == e + kTieEpsilon < f

\* BridgePruneCandidateIsBetter: errors within the epsilon tie, then the screen
\* errors are compared the same way, and the lower index wins.  The candidates
\* of a pass all leave the same number of vertices.
Better(a, b, screen) ==
  \/ Below(evaluations[a], evaluations[b])
  \/ /\ ~Below(evaluations[b], evaluations[a])
     /\ \/ Below(screen[a], screen[b])
        \/ ~Below(screen[b], screen[a]) /\ a < b

Accepted == {i \in DOMAIN evaluations : evaluations[i] # Rejected}

\* The scan for best_index, in the order of the candidates; 0 without one.
BestIndex(screen) ==
  LET scan[i \in 0 .. target - 1] ==
        IF i = 0 THEN 0
        ELSE IF /\ i \in Accepted
                /\ scan[i - 1] = 0 \/ Better(i, scan[i - 1], screen)
        THEN i ELSE scan[i - 1]
  IN scan[target - 1]

\* std::sort by Better: where Better is no strict weak order it may return any.
Orders(screen) ==
  LET before(i, j) == Better(i, j, screen)
      ordered == \A i, j, k \in Accepted :
                   before(i, j) /\ before(j, k) => before(i, k)
  IN {o \in SetToSeqs(Accepted) :
        ordered => \A m, n \in DOMAIN o : m < n => before(o[m], o[n])}

\* ShiftBridgePruneRemovedIndex.
Shifted(index) == index - Cardinality({r \in removed : r < index})

------------------------------------------------------------------------------
\* A PostSolvePathVertexReductionResult: the keys with the max_err they carry,
\* and the max_outline_error that is reported beside them.
NoResult == [notes |-> "none", accepted |-> FALSE, keys |-> <<>>, maxErr |-> 0,
             outlineError |-> 0]

Init ==
  /\ solved \in SolvedKeys
  /\ pc = "start" /\ cancelFile = FALSE /\ preferVertices \in BOOLEAN
  /\ preserve \in BOOLEAN
  /\ keys = AllVertices(solved) /\ maxErr \in Errors /\ bestError = maxErr
  /\ passes = 0 /\ target = 0 /\ candidates = {} /\ evaluations = <<>>
  /\ order = <<>> /\ best = 0 /\ removed = {} /\ batchError = 0
  /\ pruned = 0 /\ result = NoResult

HostTouchesCancelFile ==
  /\ pc # "done" /\ cancelFile' = ~cancelFile
  /\ UNCHANGED <<pc, inputs, keyVars, passes, passVars, result>>

\* The batch is at the candidate that has been applied already.
AtBest == order # <<>> /\ Head(order) = best

\* The locals of a pass go with it.
EndPass ==
  /\ target' = 0 /\ candidates' = {} /\ evaluations' = <<>> /\ order' = <<>>
  /\ best' = 0 /\ removed' = {} /\ batchError' = 0

\* The keys that came in go back unless some were pruned; nobody looks at them.
Return(notes, accepted) ==
  /\ pc' = "done"
  /\ result' = IF accepted
               THEN [notes |-> notes, accepted |-> TRUE, keys |-> keys,
                     maxErr |-> maxErr, outlineError |-> bestError]
               ELSE [NoResult EXCEPT !.notes = notes]
  /\ EndPass
  /\ UNCHANGED <<cancelFile, inputs, keyVars, passes>>

ReturnDisabled ==
  /\ pc = "start" /\ ~preferVertices
  /\ Return("prefer_vertices_disabled", FALSE)

ReturnAtMinimum ==
  /\ pc = "start" /\ preferVertices
  /\ \A k \in DOMAIN keys : Len(keys[k]) <= MinTarget
  /\ Return("source_already_at_min_vertices", FALSE)

StartPasses ==
  /\ pc = "start" /\ preferVertices
  /\ \E k \in DOMAIN keys : Len(keys[k]) > MinTarget
  /\ pc' = "pass"
  /\ UNCHANGED <<cancelFile, inputs, keyVars, passes, passVars, result>>

\* Polled at the top of a pass, before and during the evaluation, before the
\* best candidate is applied and before each candidate of the batch.
ReturnCancelled ==
  /\ cancelFile
  /\ \/ pc = "pass" /\ passes < PassBudget
     \/ pc \in {"evaluate", "apply"}
     \/ pc = "batch" /\ order # <<>> /\ ~AtBest
  /\ Return("cancelled", FALSE)

ReturnPruned ==
  /\ pc \in {"pass", "selected"}
  /\ \/ pc = "pass" /\ passes = PassBudget
     \/ pc = "pass" /\ ~cancelFile /\ Dominant <= MinTarget
     \/ pc = "pass" /\ ~cancelFile
        /\ \A i \in 1 .. Dominant - 1 : IsProtected(Dominant, i)
     \/ pc = "selected" /\ Accepted = {}
  /\ Return(IF pruned > 0 THEN "accepted" ELSE "rejected", pruned > 0)

\* BuildBridgePruneRemovalPlan: every index but the first, if no key of the
\* class has a sharp corner there.
PlanPass ==
  /\ pc = "pass" /\ passes < PassBudget /\ ~cancelFile /\ Dominant > MinTarget
  /\ candidates' = {i \in 1 .. Dominant - 1 : ~IsProtected(Dominant, i)}
  /\ candidates' # {}
  /\ pc' = "evaluate" /\ target' = Dominant /\ passes' = passes + 1
  /\ UNCHANGED <<cancelFile, inputs, keyVars, evaluations, order, best, removed,
                 batchError, result>>

\* EvaluateBridgePruneCandidateRound: the next few candidates, in parallel,
\* each on its own copy of the keys.
EvaluateChunk ==
  /\ pc = "evaluate" /\ ~cancelFile
  /\ LET left == candidates \ DOMAIN evaluations
         chunk == {i \in left : Cardinality({d \in left : d < i}) < ChunkSize}
     IN /\ \E outcome \in [chunk -> Errors \cup {Rejected}] :
             evaluations' = [i \in chunk \cup DOMAIN evaluations |->
                               IF i \in chunk THEN outcome[i] ELSE evaluations[i]]
        /\ pc' = IF chunk = left THEN "selected" ELSE "evaluate"
  /\ UNCHANGED <<cancelFile, inputs, keyVars, passes, target, candidates, order,
                 best, removed, batchError, result>>

\* Only what was found of the best candidate is looked at again in this pass.
SelectBridgePruneCandidates ==
  /\ pc = "selected" /\ Accepted # {}
  /\ \E screen \in [Accepted -> ScreenErrors] :
       order' \in Orders(screen) /\ best' = BestIndex(screen)
  /\ evaluations' = [i \in {best'} |-> evaluations[i]]
  /\ pc' = "apply"
  /\ UNCHANGED <<cancelFile, inputs, keyVars, passes, target, candidates,
                 removed, batchError, result>>

ApplyBest ==
  /\ pc = "apply" /\ ~cancelFile
  /\ keys' = Without(keys, target, best)
  /\ maxErr' = evaluations[best] /\ bestError' = evaluations[best]
  /\ pruned' = pruned + 1
  /\ removed' = {best}
  /\ evaluations' = <<>>
  /\ pc' = "batch"
  /\ UNCHANGED <<cancelFile, inputs, passes, target, candidates, order, best,
                 batchError, result>>
------------------------------------------------------------------------------
(***************************************************************************)
(* ApplyBridgePruneAcceptedBatchRemovals: the other accepted candidates,   *)
(* evaluated again on the keys without the vertices removed before.        *)
(***************************************************************************)
CurrentVertices == target - Cardinality(removed)

InBatch == pc = "batch" /\ order # <<>> /\ ~AtBest /\ ~cancelFile

Removal(index) == Without(keys, CurrentVertices, Shifted(index))

\* The corners are those of the plan.
SkipOutOfRange(index) == Shifted(index) \notin 1 .. CurrentVertices - 1

Skips(index) ==
  \/ Shifted(index) \notin 1 .. CurrentVertices - 1
  \/ IsProtected(CurrentVertices, Shifted(index))

\* Passed over before the cancel is looked for.
BatchPassesBest ==
  /\ pc = "batch" /\ AtBest
  /\ order' = Tail(order)
  /\ UNCHANGED <<pc, cancelFile, inputs, keyVars, passes, target, candidates,
                 evaluations, best, removed, batchError, result>>

BatchSkips ==
  /\ InBatch /\ CurrentVertices > MinTarget
  /\ Skips(Head(order))
  /\ order' = Tail(order)
  /\ UNCHANGED <<pc, cancelFile, inputs, keyVars, passes, target, candidates,
                 evaluations, best, removed, batchError, result>>

BatchRejects ==
  /\ InBatch /\ CurrentVertices > MinTarget
  /\ ~Skips(Head(order))
  /\ order' = Tail(order)
  /\ UNCHANGED <<pc, cancelFile, inputs, keyVars, passes, target, candidates,
                 evaluations, best, removed, batchError, result>>

\* The count is not looked at again.
BatchAppliesUnbounded ==
  /\ InBatch /\ ~Skips(Head(order))
  /\ keys' = Removal(Head(order))
  /\ \E e \in Errors : maxErr' = e /\ batchError' = e
  /\ pruned' = pruned + 1
  /\ removed' = removed \cup {Head(order)}
  /\ order' = Tail(order)
  /\ UNCHANGED <<pc, cancelFile, inputs, bestError, passes, target, candidates,
                 evaluations, best, result>>

BatchApplies ==
  /\ InBatch /\ CurrentVertices > MinTarget
  /\ ~Skips(Head(order))
  /\ keys' = Removal(Head(order))
  /\ \E e \in Errors : maxErr' = e /\ batchError' = e
  /\ pruned' = pruned + 1
  /\ removed' = removed \cup {Head(order)}
  /\ order' = Tail(order)
  /\ UNCHANGED <<pc, cancelFile, inputs, bestError, passes, target, candidates,
                 evaluations, best, result>>

\* The batch's error even when it removed nothing.
MergedBatchError == batchError

MergedError == IF Cardinality(removed) > 1 THEN batchError ELSE bestError

EndBatch ==
  /\ pc = "batch"
  /\ order = <<>> \/ (InBatch /\ CurrentVertices <= MinTarget)
  /\ bestError' = MergedError
  /\ pc' = "pass"
  /\ EndPass
  /\ UNCHANGED <<cancelFile, inputs, keys, maxErr, pruned, passes, result>>
------------------------------------------------------------------------------
Prune ==
  \/ ReturnDisabled \/ ReturnAtMinimum \/ StartPasses \/ ReturnCancelled \/ ReturnPruned
  \/ PlanPass \/ EvaluateChunk \/ SelectBridgePruneCandidates \/ ApplyBest
  \/ BatchPassesBest \/ BatchSkips \/ BatchRejects \/ BatchApplies \/ EndBatch

Next == HostTouchesCancelFile \/ Prune

Spec == Init /\ [][Next]_vars
------------------------------------------------------------------------------
TypeOK ==
  /\ pc \in {"start", "pass", "evaluate", "selected", "apply", "batch", "done"}
  /\ DOMAIN keys = DOMAIN solved
  /\ \A k \in DOMAIN keys : keys[k] \in Seq(0 .. solved[k] - 1)
  /\ maxErr \in Errors /\ passes \in 0 .. PassBudget
  /\ removed \subseteq candidates /\ ToSet(order) \subseteq candidates
  /\ DOMAIN evaluations \subseteq candidates

\* No key is pruned below the minimum, however many removals a batch applies
\* and whatever counts the keys came with.
NeverBelowMinimum ==
  \A k \in DOMAIN keys :
    Len(keys[k]) < solved[k] => Len(keys[k]) >= MinTarget

\* No removal takes from a key a vertex that is a sharp corner of the key as the
\* removals before it have left it: not one that became sharp when a neighbour
\* went, nor in a key whose count a batch has come down to.
CornersKept ==
  [][preserve /\ pc # "start" =>
       \A k \in DOMAIN keys : \A p \in DOMAIN keys[k] :
         keys[k][p] \notin ToSet(keys'[k]) => ~IsSharpCorner(k, p - 1)]_vars
==============================================================================
