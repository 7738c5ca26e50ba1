------------------------ MODULE ReplacementAcceptance ------------------------
(***************************************************************************)
(* The gates of the path replacement: what a validation says of solved     *)
(* keys, and whether they replace the plain solve of the source path.      *)
(*                                                                         *)
(* Solved keys are a record: how many there are, what the solver says of   *)
(* them (converged, err) and what validating them against the source       *)
(* samples finds (whether it got to the end, the outline error, whether    *)
(* the sharp corners are there).  Errors are integers in one unit.         *)
(***************************************************************************)
EXTENDS TargetLadders

Solves(counts, errors) ==
  [count : counts, converged : BOOLEAN, err : errors,
   checked : BOOLEAN, outline : errors, sharp : BOOLEAN]

\* EffectivePathTolerance: the larger of the two tolerances.
EffectivePathTolerance(options) ==
  Larger(0, Larger(options.tolerance, options.screen))

OutlineOk(keys, options) ==
  keys.checked /\ keys.outline <= EffectivePathTolerance(options)

\* SummarizeReplacementCandidateValidation: where the validation could not be
\* made, the word of the solver stands.
Summarized(keys, options) ==
  [keys EXCEPT
     !.converged = keys.sharp /\ (IF keys.checked THEN OutlineOk(keys, options)
                                  ELSE keys.converged),
     !.err = IF keys.checked THEN keys.outline ELSE keys.err]

\* ApplyReplacementValidationSummaryToKeys.
Applied(keys, options) ==
  IF keys.checked THEN Summarized(keys, options) ELSE keys

IsValid(keys, options) == keys.converged /\ keys.err <= options.tolerance

\* EvaluateReplacementAcceptance without the gate on the number of keys where
\* the original is not valid.
UsesCandidateUngated(candidate, fitted, original, sourceVertices, options) ==
  IF ~IsValid(original, options)
  THEN \/ IsValid(candidate, options)
       \/ /\ candidate.converged
          /\ original.converged => candidate.err <= original.err
  ELSE /\ IsValid(candidate, options)
       /\ \/ candidate.count < original.count
          \/ candidate.count = original.count /\ fitted < sourceVertices

\* EvaluateReplacementAcceptance: never more keys than the original has.
UsesCandidate(candidate, fitted, original, sourceVertices, options) ==
  IF ~IsValid(original, options)
  THEN /\ candidate.count <= original.count
       /\ \/ IsValid(candidate, options)
          \/ /\ candidate.converged
             /\ original.converged => candidate.err <= original.err
  ELSE /\ IsValid(candidate, options)
       /\ \/ candidate.count < original.count
          \/ candidate.count = original.count /\ fitted < sourceVertices

\* EvaluateReplacementRetryEligibility, of a candidate that was not used.
ShouldRetry(keys, original, fitted, sourceMin, options) ==
  /\ ~(OutlineOk(keys, options) /\ ~keys.sharp)
  /\ keys.count <= original.count
  /\ keys.checked
  /\ fitted + 1 < sourceMin

\* EvaluateReplacementFastVertexPreference.  The bound on the keys is the
\* estimate for the source path; no baseline is solved.
PrefersVertices(keys, fitted, sourceVertices, options) ==
  /\ options.prefer /\ options.samples >= 8
  /\ options.estimate > 0 /\ keys.count <= options.estimate
  /\ keys.checked /\ Summarized(keys, options).converged
  /\ keys.count * 10 < options.samples * 9
  /\ fitted > 0 /\ fitted < sourceVertices
  /\ (sourceVertices - fitted) * 100
       >= sourceVertices * Larger(0, options.reductionPercent)

\* AssessReplacementCandidate: not where the candidate needs a key at every
\* sample and saves neither keys nor vertices.
WorthAttempting(estimate, fitted, sourceVertices, options) ==
  \/ estimate < Larger(2, options.samples - 1)
  \/ estimate < options.estimate
  \/ estimate = options.estimate /\ fitted < sourceVertices
==============================================================================
