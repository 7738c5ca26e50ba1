--------------------------- MODULE PathReplacement ---------------------------
(***************************************************************************)
(* The replacement of a path's topology by one with fewer vertices:        *)
(* FitReplacementPathProperty tries a ladder of vertex counts and the first *)
(* that fits is solved for keys; ProcessPostTemporalReplacement validates  *)
(* those keys, solves the source path as a baseline, decides between the   *)
(* two, and may go through richer fits before it falls back.               *)
(*                                                                         *)
(* The fits of a frame and the solvers are nondeterministic; what one      *)
(* solve gives is fixed when it is made, since validating it twice finds   *)
(* the same.                                                               *)
(***************************************************************************)
EXTENDS ReplacementAcceptance

CONSTANTS
  Paths,      \* the source paths and the options explored
  Estimates,  \* the numbers of keys an estimate for a fit may give
  KeySolves,  \* the keys that solving a fit may give
  BaselineSolves  \* the keys that solving the source path may give

PathSpace ==
  [sourceMin : Nat, sourceMax : Nat, autoMax : Nat, samples : Nat, estimate : Nat,
   tolerance : Nat, screen : Nat, prefer : BOOLEAN, minimum : Int,
   maximum : Int, reductionPercent : Int]

ASSUME PathsAssumption ==
  /\ Paths \subseteq PathSpace
  /\ \A p \in Paths : p.sourceMin <= p.sourceMax /\ p.autoMax <= p.sourceMax
  /\ Estimates \subseteq Nat
  /\ KeySolves \subseteq Solves(Nat, Nat)
  /\ BaselineSolves \subseteq Solves(Nat, Nat)

VARIABLES
  path,          \* the source path and the options
  pc,
  retrying,      \* whether the fit is one of the retry loop
  targets,       \* target_ladder, from the target to try next
  retryTargets,  \* retry_targets, from the target to try next
  fit,           \* fitted_vertices of the latest fit that applied, 0 for none
  fitted,        \* replacement_fitted_vertices
  keys,          \* *property_keys
  samples,       \* *property_samples: the vertices of the fit, 0 the source's
  baseline,      \* original_keys
  outcome         \* PostTemporalReplacementResult, without fitted

fitVars == <<targets, fit>>
outVars == <<keys, samples, fitted>>
vars == <<path, pc, retrying, targets, retryTargets, fit, outVars, baseline,
          outcome>>

Of(solve, vertices) == [vertices |-> vertices, solve |-> solve]

NoKeys == [vertices |-> 0,
           solve |-> [count |-> 0, converged |-> FALSE, err |-> 0,
                      checked |-> FALSE, outline |-> 0, sharp |-> TRUE]]
Pending == [end |-> "running", accepted |-> FALSE, fast |-> FALSE]

Init ==
  /\ path \in Paths
  /\ pc = "scan" /\ retrying = FALSE
  /\ targets = <<>> /\ retryTargets = <<>>
  /\ fit = 0 /\ fitted = 0
  /\ keys = NoKeys /\ samples = 0 /\ baseline = NoKeys
  /\ outcome = Pending

Ends(how) == pc' = "done" /\ outcome' = [outcome EXCEPT !.end = how]
Accepts == [outcome EXCEPT !.end = "accepted", !.accepted = TRUE]
------------------------------------------------------------------------------
(***************************************************************************)
(* FitReplacementPathProperty.                                             *)
(***************************************************************************)

\* No samples, a frame that cannot be fitted, or none that loses a vertex.
ScanSkips ==
  /\ pc = "scan"
  /\ Ends("unfitted")
  /\ UNCHANGED <<path, retrying, fitVars, retryTargets, outVars, baseline>>

LadderFor(minimum) ==
  ReplacementTargets(path.autoMax, path.sourceMin, path.sourceMax, minimum,
                     path.maximum)

ScanReplacementInitialFrames ==
  /\ pc = "scan"
  /\ targets' = LadderFor(path.minimum)
  /\ pc' = "target"
  /\ UNCHANGED <<path, retrying, fit, retryTargets, outVars, baseline, outcome>>

Capped(count) ==
  IF path.maximum > 0 THEN Smaller(count, path.maximum) ELSE count

\* TryReplacementAdaptiveFractionExpansion without the configured maximum.
AdaptiveCountsUncapped(target) ==
  target + 1 .. Smaller(Smaller(path.sourceMin - 1, target + 12), target + 4)

\* TryReplacementAdaptiveFractionExpansion: up to four vertices more.
AdaptiveCounts(target) ==
  target + 1 .. Smaller(Capped(Smaller(path.sourceMin - 1, target + 12)),
                        target + 4)

\* TryReplacementFeatureFractionLayout: the target or up to two more.
FeatureCounts(target) ==
  target .. Smaller(Capped(Smaller(path.sourceMin - 1,
                             Larger(target, (path.sourceMin * 3) \div 4))),
                    target + 2)

\* The vertices of the layouts that may fit: those of independent fits of the
\* frames, which only take vertices away, and expansions of them; else those of
\* the feature layout.
LayoutCounts(target) ==
  (IF target <= path.sourceMin THEN {target} \cup AdaptiveCounts(target) ELSE {})
  \cup FeatureCounts(target)

IsReduction(target) ==
  /\ target > 0 /\ target < path.sourceMax
  /\ path.sourceMin = path.sourceMax => target < path.sourceMin

FitCounts(target) ==
  {count \in LayoutCounts(target) :
     /\ count < path.sourceMax
     /\ \E estimate \in Estimates :
          WorthAttempting(estimate, count, path.sourceMax, path)}

\* The first target that fits ends the ladder; a retry whose fit has no more
\* vertices than the first goes on to the next retry.
TargetFits ==
  /\ pc = "target" /\ targets # <<>> /\ IsReduction(Head(targets))
  /\ fit' \in FitCounts(Head(targets))
  /\ IF retrying
     THEN /\ pc' = IF fit' <= fitted THEN "retry" ELSE "solveRetry"
          /\ UNCHANGED <<samples, fitted>>
     ELSE pc' = "solve" /\ samples' = fit' /\ fitted' = fit'
  /\ targets' = <<>>
  /\ UNCHANGED <<path, retrying, retryTargets, keys, baseline, outcome>>

\* No layout within the tolerance, no stable regime, or not worth attempting.
TargetRejected ==
  /\ pc = "target" /\ targets # <<>>
  /\ targets' = Tail(targets)
  /\ UNCHANGED <<path, pc, retrying, retryTargets, fit, outVars, baseline,
                 outcome>>

NoTargetPassed ==
  /\ pc = "target" /\ targets = <<>>
  /\ IF retrying THEN pc' = "retry" /\ UNCHANGED outcome ELSE Ends("unfitted")
  /\ UNCHANGED <<path, retrying, fitVars, retryTargets, outVars, baseline>>
------------------------------------------------------------------------------
(***************************************************************************)
(* The solve of the fit, and the preference that needs no baseline.        *)
(***************************************************************************)
SolveReplacementTemporal ==
  /\ pc = "solve"
  /\ \E solve \in KeySolves : keys' = Of(solve, fit)
  /\ pc' = "fast"
  /\ UNCHANGED <<path, retrying, fitVars, retryTargets, samples, fitted,
                 baseline, outcome>>

SolveCancelled ==
  /\ pc \in {"solve", "baseline", "solveRetry"}
  /\ Ends("cancelled")
  /\ UNCHANGED <<path, retrying, fitVars, retryTargets, outVars, baseline>>

Prefers == PrefersVertices(keys.solve, fitted, path.sourceMax, path)

AcceptFastVertexPreference ==
  /\ pc = "fast" /\ Prefers
  /\ keys' = [keys EXCEPT !.solve = Summarized(@, path)]
  /\ pc' = "done" /\ outcome' = [Accepts EXCEPT !.fast = TRUE]
  /\ UNCHANGED <<path, retrying, fitVars, retryTargets, samples, fitted,
                 baseline>>

FastVertexPreferenceDeclines ==
  /\ pc = "fast" /\ ~Prefers
  /\ pc' = "baseline"
  /\ UNCHANGED <<path, retrying, fitVars, retryTargets, outVars, baseline,
                 outcome>>
------------------------------------------------------------------------------
(***************************************************************************)
(* The baseline, the verdict and the retries.                              *)
(***************************************************************************)
Verdict(solve, count, against) ==
  UsesCandidate(Summarized(solve, path), count, against, path.sourceMax, path)

RetryLadder ==
  RetryTargets(fitted, path.sourceMin, path.minimum, path.maximum)

SolveReplacementBaseline ==
  /\ pc = "baseline"
  /\ \E solve \in BaselineSolves :
       LET use == Verdict(keys.solve, fitted, solve)
           retry == ~use /\ ShouldRetry(keys.solve, solve, fitted,
                                        path.sourceMin, path)
       IN /\ baseline' = Of(solve, 0)
          /\ retryTargets' = IF retry THEN RetryLadder ELSE <<>>
          /\ pc' = IF use THEN "accept" ELSE "retry"
  /\ UNCHANGED <<path, retrying, fitVars, outVars, outcome>>

\* A retry that asks for no more vertices than the fit has is passed over.
SkipRetry ==
  /\ pc = "retry" /\ retryTargets # <<>> /\ Head(retryTargets) <= fitted
  /\ retryTargets' = Tail(retryTargets)
  /\ UNCHANGED <<path, pc, retrying, fitVars, outVars, baseline, outcome>>

\* The fit of a retry starts its ladder at the target.
StartRetry ==
  /\ pc = "retry" /\ retryTargets # <<>> /\ Head(retryTargets) > fitted
  /\ retrying' = TRUE
  /\ targets' = LadderFor(Head(retryTargets))
  /\ retryTargets' = Tail(retryTargets)
  /\ pc' = "target"
  /\ UNCHANGED <<path, fit, outVars, baseline, outcome>>

SolveRetryRejected ==
  /\ pc = "solveRetry"
  /\ \E solve \in KeySolves : ~Verdict(solve, fit, baseline.solve)
  /\ pc' = "retry"
  /\ UNCHANGED <<path, retrying, fitVars, retryTargets, outVars, baseline,
                 outcome>>

\* The keys go out with what the solver says of them.
SolveRetryAcceptedAsSolved ==
  /\ pc = "solveRetry"
  /\ \E solve \in KeySolves :
       /\ Verdict(solve, fit, baseline.solve)
       /\ keys' = Of(solve, fit)
  /\ samples' = fit /\ fitted' = fit
  /\ pc' = "done" /\ outcome' = Accepts
  /\ UNCHANGED <<path, retrying, fitVars, retryTargets, baseline>>

SolveRetryAccepted ==
  /\ pc = "solveRetry"
  /\ \E solve \in KeySolves :
       /\ Verdict(solve, fit, baseline.solve)
       /\ keys' = Of(Applied(solve, path), fit)
  /\ samples' = fit /\ fitted' = fit
  /\ pc' = "done" /\ outcome' = Accepts
  /\ UNCHANGED <<path, retrying, fitVars, retryTargets, baseline>>
------------------------------------------------------------------------------
(***************************************************************************)
(* ApplyReplacementInitialOrFallbackDecision.                              *)
(***************************************************************************)
ApplyInitial ==
  /\ pc = "accept"
  /\ keys' = [keys EXCEPT !.solve = Applied(@, path)]
  /\ pc' = "done" /\ outcome' = Accepts
  /\ UNCHANGED <<path, retrying, fitVars, retryTargets, samples, fitted,
                 baseline>>

ApplyFallback ==
  /\ pc = "retry" /\ retryTargets = <<>>
  /\ keys' = baseline /\ samples' = 0
  /\ Ends("fallback")
  /\ UNCHANGED <<path, retrying, fitVars, retryTargets, fitted, baseline>>

Returned == pc = "done" /\ UNCHANGED vars

FitReplacementPathProperty ==
  \/ ScanSkips \/ ScanReplacementInitialFrames
  \/ TargetFits \/ TargetRejected \/ NoTargetPassed

ProcessPostTemporalReplacement ==
  \/ AcceptFastVertexPreference \/ FastVertexPreferenceDeclines
  \/ SolveReplacementBaseline \/ SkipRetry \/ StartRetry
  \/ SolveRetryRejected \/ SolveRetryAccepted
  \/ ApplyInitial \/ ApplyFallback

Next ==
  \/ FitReplacementPathProperty \/ SolveReplacementTemporal \/ SolveCancelled
  \/ ProcessPostTemporalReplacement \/ Returned

Spec == Init /\ [][Next]_vars
------------------------------------------------------------------------------
TypeOK ==
  /\ pc \in {"scan", "target", "solve", "fast", "baseline", "accept", "retry",
             "solveRetry", "done"}
  /\ retrying \in BOOLEAN
  /\ targets \in Seq(Nat) /\ retryTargets \in Seq(Nat)
  /\ fit \in Nat /\ fitted \in Nat /\ samples \in Nat
  /\ keys.vertices \in Nat /\ baseline.vertices = 0
  /\ outcome.end \in {"running", "unfitted", "cancelled", "fallback", "accepted"}

\* path_replacement_acceptance.cpp:30 "replacement must never increase key
\* count versus the temporal baseline": whichever keys the decision leaves, they
\* are no more than those of the baseline, and where the baseline is valid they
\* are.  The fast preference, which solves no baseline, is not bound by this.
NeverRegresses ==
  outcome.end \in {"accepted", "fallback"} /\ ~outcome.fast =>
    /\ keys.solve.count <= baseline.solve.count
    /\ IsValid(baseline.solve, path) => IsValid(keys.solve, path)

\* Keys that were accepted keep the sharp corners, report the outline error
\* that validating them found, if it could be made, and it is within the
\* tolerance; they go out with the samples they were solved from, and with
\* the number of vertices of those.
AcceptedIsValidated ==
  outcome.accepted =>
    /\ keys.solve.sharp /\ keys.solve.converged
    /\ keys.solve.checked =>
         keys.solve.err = keys.solve.outline /\ OutlineOk(keys.solve, path)
    /\ keys.vertices = samples /\ samples = fitted

\* Whatever layout wins, and in a retry too, a fit has the configured number of
\* vertices and fewer than the source.
FitsWithinConfiguredVertices ==
  fit > 0 =>
    /\ fit >= path.minimum /\ fit < path.sourceMax
    /\ path.maximum > 0 => fit <= path.maximum
==============================================================================
