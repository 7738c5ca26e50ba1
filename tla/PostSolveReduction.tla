-------------------------- MODULE PostSolveReduction --------------------------
(***************************************************************************)
(* TryPostSolvePathVertexReduction and the post processing that calls it:  *)
(* vertices are taken out of the keys of a solved path.  A vertex that     *)
(* closes the path twice is dropped from every key, then the bridge prune  *)
(* runs on what is left, and when neither helped every key is fitted again *)
(* with fewer vertices.  Nothing replaces the keys unless it was validated *)
(* against the samples, and a cancel leaves them as they were solved.      *)
(*                                                                         *)
(* The paths are closed.  What the drop, a fit and a validation find is    *)
(* free.                                                                   *)
(***************************************************************************)
EXTENDS BridgePrune

CONSTANTS
  MaxVertices,    \* path_replacement_max_vertices, 0 for none
  LadderBudget    \* max_candidate_targets

ASSUME PostSolveReductionAssumption ==
  MaxVertices \in Nat /\ LadderBudget \in Nat \ {0}

VARIABLES
  stage,       \* where the reduction and its caller are
  arrived,     \* the vertex counts of solved_keys
  dropped,     \* what became of the terminal closure
  targets,     \* what is left of the ladder
  outcome,     \* the PostSolvePathVertexReductionResult
  propertyKeys \* what the caller goes on with: vertex counts and max_err

reductionVars == <<stage, arrived, dropped, targets, outcome, propertyKeys>>

Ladders == INSTANCE TargetLadders

SkipNotes == {"non_shape_flat", "keys_not_converged", "malformed"}

\* UniformShapeFlatKeyTopology.
Uniform(counts) == \A j, k \in DOMAIN counts : counts[j] = counts[k]

\* MinShapeFlatKeyVertexCount.
KeyMin == CHOOSE c \in Range(solved) : \A d \in Range(solved) : c <= d

InitialTarget ==
  Ladders!Larger(MinTarget,
    Ladders!Smaller(KeyMin - 1, Ladders!Larger(MinTarget, KeyMin \div 2)))

FitTargets ==
  Ladders!ShapeFlatTargets(InitialTarget, KeyMin,
    [minimum |-> MinTarget, maximum |-> MaxVertices, step |-> 1,
     candidates |-> LadderBudget, top |-> TRUE])

NoOutcome == [notes |-> "none", accepted |-> FALSE, counts |-> <<>>,
              maxErr |-> 0, outlineError |-> 0]

CountsOf(ks) == [k \in DOMAIN ks |-> Len(ks[k])]

Unchanged(notes) == [NoOutcome EXCEPT !.notes = notes]

\* What validate_candidate puts into the result: one error for both fields.
Validated(mode, counts, e) ==
  [notes |-> mode, accepted |-> TRUE, counts |-> counts, maxErr |-> e,
   outlineError |-> e]

OutcomeOfPrune ==
  [notes |-> result.notes, accepted |-> result.accepted,
   counts |-> CountsOf(result.keys), maxErr |-> result.maxErr,
   outlineError |-> result.outlineError]
------------------------------------------------------------------------------
ReductionInit ==
  /\ Init /\ stage = "start" /\ arrived = solved /\ dropped = "no"
  /\ targets = <<>> /\ outcome = NoOutcome
  /\ propertyKeys = [counts |-> solved, maxErr |-> maxErr]

HostTouches ==
  /\ stage \notin {"end", "cancelled"} /\ cancelFile' = ~cancelFile
  /\ UNCHANGED <<pc, inputs, keyVars, passes, passVars, result, reductionVars>>

Returns(o) == outcome' = o /\ stage' = "returned"

\* No solved path.
ReturnSkipped ==
  /\ stage = "start" /\ \E notes \in SkipNotes : Returns(Unchanged(notes))
  /\ UNCHANGED <<vars, arrived, dropped, targets, propertyKeys>>

\* ShapeFlatHasDuplicateTerminalClosure finds none below four vertices; whether
\* every key ends where it began is free.
MayHaveClosures == Uniform(arrived) /\ \A k \in DOMAIN arrived : arrived[k] >= 4

\* DropShapeFlatDuplicateTerminalClosure of every key, validated: the bridge
\* prune, if any, starts from the keys without it, and what it does not better
\* stays the result.
DropAccepted ==
  /\ stage = "start" /\ MayHaveClosures
  /\ dropped' = "accepted"
  /\ solved' = [k \in DOMAIN arrived |-> arrived[k] - 1]
  /\ keys' = AllVertices(solved')
  /\ \E e \in Errors :
       /\ maxErr' = e /\ bestError' = e
       /\ outcome' = Validated("duplicate_terminal_closure", solved', e)
  /\ stage' = IF preferVertices THEN "prune" ELSE "returned"
  /\ UNCHANGED <<pc, cancelFile, preferVertices, preserve, pruned, passes,
                 passVars, result, arrived, targets, propertyKeys>>

DropRejected ==
  /\ stage = "start" /\ MayHaveClosures
  /\ dropped' = "rejected" /\ stage' = "prune"
  /\ UNCHANGED <<vars, arrived, targets, outcome, propertyKeys>>

NoClosures ==
  /\ stage = "start" /\ stage' = "prune"
  /\ UNCHANGED <<vars, arrived, dropped, targets, outcome, propertyKeys>>

PruneStep ==
  /\ stage = "prune" /\ Prune
  /\ UNCHANGED reductionVars

\* What a return that asks only whether something was accepted would give.
PruneOutcomeOrDropped ==
  IF dropped # "accepted" \/ result.accepted THEN OutcomeOfPrune ELSE outcome

\* A cancelled prune is returned as such, although the keys without their
\* closures have been validated.
PruneOutcome ==
  IF dropped # "accepted" \/ result.notes = "cancelled" \/ result.accepted
  THEN OutcomeOfPrune ELSE outcome

PruneDecides ==
  result.notes = "cancelled" \/ result.accepted \/ dropped = "accepted"

ReturnPruneOutcome ==
  /\ stage = "prune" /\ pc = "done" /\ PruneDecides
  /\ Returns(PruneOutcome)
  /\ UNCHANGED <<vars, arrived, dropped, targets, propertyKeys>>

\* Keys of different counts are left to the prune; the fit has to be allowed
\* (allow_path_replacement_fit, read nowhere else), to start above the minimum
\* and to have targets.
ReturnWithoutFit ==
  /\ stage = "prune" /\ pc = "done" /\ ~PruneDecides
  /\ \/ ~Uniform(arrived) /\ Returns(Unchanged("mixed_key_topology"))
     \/ Uniform(arrived) /\ Returns(Unchanged("fit_disabled"))
     \/ /\ Uniform(arrived)
        /\ KeyMin <= MinTarget \/ FitTargets = <<>>
        /\ Returns(Unchanged("no_legal_targets"))
  /\ UNCHANGED <<vars, arrived, dropped, targets, propertyKeys>>

StartLadder ==
  /\ stage = "prune" /\ pc = "done" /\ ~PruneDecides
  /\ Uniform(arrived) /\ KeyMin > MinTarget /\ FitTargets # <<>>
  /\ stage' = "ladder" /\ targets' = FitTargets
  /\ UNCHANGED <<vars, arrived, dropped, outcome, propertyKeys>>

\* One target: the keys fitted at shared outline fractions, else each on its
\* own; the first that is validated is the result.
FitAccepted ==
  /\ stage = "ladder" /\ targets # <<>>
  /\ \E e \in Errors, mode \in {"shared_fraction_layout", "independent_key_fit"} :
       Returns(Validated(mode, [k \in DOMAIN arrived |-> Head(targets)], e))
  /\ UNCHANGED <<vars, arrived, dropped, targets, propertyKeys>>

FitRejected ==
  /\ stage = "ladder" /\ targets # <<>>
  /\ targets' = Tail(targets)
  /\ UNCHANGED <<vars, stage, arrived, dropped, outcome, propertyKeys>>

ReturnRejected ==
  /\ stage = "ladder" /\ targets = <<>>
  /\ Returns(Unchanged("rejected"))
  /\ UNCHANGED <<vars, arrived, dropped, targets, propertyKeys>>

\* The caller polls once more before it takes the keys over.
FinishCancelled ==
  /\ stage = "returned" /\ (outcome.notes = "cancelled" \/ cancelFile)
  /\ stage' = "cancelled"
  /\ UNCHANGED <<vars, arrived, dropped, targets, outcome, propertyKeys>>

\* The keys are taken over whole; the outline error goes into their notes and
\* into the event post_solve_vertex_reduction_done.
Finish ==
  /\ stage = "returned" /\ outcome.notes # "cancelled" /\ ~cancelFile
  /\ stage' = "end"
  /\ propertyKeys' = IF outcome.accepted
                     THEN [counts |-> outcome.counts, maxErr |-> outcome.maxErr]
                     ELSE propertyKeys
  /\ UNCHANGED <<vars, arrived, dropped, targets, outcome>>

Reduce ==
  \/ ReturnSkipped \/ DropAccepted \/ DropRejected \/ NoClosures \/ PruneStep
  \/ ReturnPruneOutcome \/ ReturnWithoutFit \/ StartLadder \/ FitAccepted
  \/ FitRejected \/ ReturnRejected \/ FinishCancelled \/ Finish

ReductionSpec ==
  ReductionInit /\ [][HostTouches \/ Reduce]_<<vars, reductionVars>>
------------------------------------------------------------------------------
\* Keys that came with as many vertices leave with as many, whatever classes
\* merged on the way: interpolation between keys needs equal counts.
ClassesStayTogether ==
  \A j, k \in DOMAIN arrived : arrived[j] = arrived[k] =>
    propertyKeys.counts[j] = propertyKeys.counts[k]

\* What was seen cancelled replaces nothing, even if the closures had already
\* been dropped and validated.
CancelKeepsTheSolvedKeys ==
  [][outcome.notes = "cancelled" \/ result.notes = "cancelled" =>
       UNCHANGED propertyKeys]_<<vars, reductionVars>>

\* The error an accepted reduction reports, in its note and in its event, is the
\* one the last validation of the keys it hands over gave them: the two travel
\* apart through passes and batches.
ReportsTheValidatedError ==
  stage = "end" /\ outcome.accepted
    => outcome.outlineError = propertyKeys.maxErr
==============================================================================
