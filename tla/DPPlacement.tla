----------------------------- MODULE DPPlacement -----------------------------
(***************************************************************************)
(* RunDPPlacement: the dynamic program that picks the key times of one     *)
(* property.  dp[j] is the least number of segments that covers samples    *)
(* 0..j.  For each anchor j the fits (i, j) of the window run in parallel, *)
(* every task polling the cancel function; they are then reduced one after *)
(* the other, in the order of i, and the winners are backtracked from the  *)
(* last sample.                                                            *)
(***************************************************************************)
EXTENDS PlacementProblem, FiniteSets

CONSTANT kInfSegments   \* dp of an anchor no chain reaches

ASSUME InfinityAssumption ==
  kInfSegments \in Nat \ {0} /\ \A p \in Problems : p.n <= kInfSegments

VARIABLES
  pc,           \* where RunDPPlacement is
  j,            \* the anchor being placed; the backtracking cursor
  task,         \* the fit tasks of anchor j
  candidates,   \* the candidates that were tried
  cancelled,    \* the atomic flag the tasks of one anchor share
  next,         \* the next candidate of the reduction
  dp,           \* least number of segments to each anchor
  dpMaxErr,     \* error of the chain kept for it
  prevIdx,      \* its last segment starts here
  anchorValue,  \* key value that segment leaves at the anchor
  anchors,      \* sample_indices of the result
  out,          \* notes and converged of the result
  cancelFile    \* what the cancel function would answer

arrays == <<dp, dpMaxErr, prevIdx, anchorValue>>
taskVars == <<task, candidates, cancelled>>
vars == <<problem, pc, j, task, candidates, cancelled, next, dp, dpMaxErr,
          prevIdx, anchorValue, anchors, out, cancelFile>>

\* The last anchor's window is widened to every sample.
Lo(k) == IF problem.widen /\ k = n - 1 THEN 0
         ELSE IF k > problem.gap THEN k - problem.gap ELSE 0
Window(k) == Lo(k) .. k - 1

TaskStates == {"waiting", "polling", "fitting", "finished"}
Notes == {"none", "cancelled", "constant_short_circuit", "fallback", "broken"}

Init ==
  /\ problem \in Problems
  /\ pc = "start" /\ j = 0 /\ next = 0
  /\ task = <<>> /\ candidates = {} /\ cancelled = FALSE
  /\ dp = [i \in 0 .. n - 1 |-> IF i = 0 THEN 0 ELSE kInfSegments]
  /\ dpMaxErr = [i \in 0 .. n - 1 |-> 0]
  /\ prevIdx = [i \in 0 .. n - 1 |-> -1]
  /\ anchorValue = problem.sample
  /\ anchors = <<>>
  /\ out = [notes |-> "none", converged |-> FALSE]
  /\ cancelFile = FALSE

Return(notes, converged, indices) ==
  /\ pc' = "done"
  /\ out' = [notes |-> notes, converged |-> converged]
  /\ anchors' = indices

------------------------------------------------------------------------------
(***************************************************************************)
(* Early returns, and the loop over the anchors.                           *)
(***************************************************************************)
\* The host creates the cancel file, or takes it away again.
HostCancels ==
  /\ pc # "done" /\ cancelFile' = ~cancelFile
  /\ UNCHANGED <<problem, pc, j, taskVars, next, arrays, anchors, out>>

\* Polled on entry and once per anchor.
ReturnCancelled ==
  /\ pc \in {"start", "anchor"} /\ cancelFile
  /\ Return("cancelled", FALSE, <<>>)
  /\ UNCHANGED <<problem, j, taskVars, next, arrays, cancelFile>>

TooFewSamples ==
  /\ pc = "start" /\ ~cancelFile /\ n < 2
  /\ Return("none", n = 1, IF n = 1 THEN <<0>> ELSE <<>>)
  /\ UNCHANGED <<problem, j, taskVars, next, arrays, cancelFile>>

ConstantShortCircuit ==
  /\ pc = "start" /\ ~cancelFile /\ n >= 2 /\ problem.constant
  /\ Return("constant_short_circuit", TRUE, <<0>>)
  /\ UNCHANGED <<problem, j, taskVars, next, arrays, cancelFile>>

StartAnchors ==
  /\ pc = "start" /\ ~cancelFile /\ n >= 2 /\ ~problem.constant
  /\ pc' = "anchor" /\ j' = 1
  /\ UNCHANGED <<problem, taskVars, next, arrays, anchors, out, cancelFile>>

StartFits ==
  /\ pc = "anchor" /\ ~cancelFile
  /\ task' = [i \in Window(j) |-> "waiting"]
  /\ candidates' = {} /\ cancelled' = FALSE
  /\ pc' = "fitting"
  /\ UNCHANGED <<problem, j, next, arrays, anchors, out, cancelFile>>

------------------------------------------------------------------------------
(***************************************************************************)
(* One fit task: read the shared flag, poll, fit.                          *)
(***************************************************************************)
Becomes(i, state) == task' = [task EXCEPT ![i] = state]

TaskReadsFlag(i) ==
  /\ task[i] = "waiting"
  /\ Becomes(i, IF cancelled THEN "finished" ELSE "polling")
  /\ UNCHANGED <<candidates, cancelled>>

TaskPollsUnshared(i) ==
  /\ task[i] = "polling"
  /\ Becomes(i, IF cancelFile THEN "finished" ELSE "fitting")
  /\ UNCHANGED <<candidates, cancelled>>

TaskPolls(i) ==
  /\ task[i] = "polling"
  /\ cancelled' = (cancelled \/ cancelFile)
  /\ Becomes(i, IF cancelFile THEN "finished" ELSE "fitting")
  /\ UNCHANGED candidates

\* A candidate whose start no chain reaches is not tried.
Reached(i) == dp[i] < kInfSegments

TaskFits(i) ==
  /\ task[i] = "fitting"
  /\ candidates' = IF Reached(i) THEN candidates \cup {i} ELSE candidates
  /\ Becomes(i, "finished")
  /\ UNCHANGED cancelled

FitCandidate ==
  /\ pc = "fitting"
  /\ \E i \in Window(j) : TaskReadsFlag(i) \/ TaskPolls(i) \/ TaskFits(i)
  /\ UNCHANGED <<problem, pc, j, next, arrays, anchors, out, cancelFile>>

TasksJoined ==
  pc = "fitting" /\ \A i \in Window(j) : task[i] = "finished"

FitsCancelled ==
  /\ TasksJoined /\ cancelled
  /\ Return("cancelled", FALSE, <<>>)
  /\ UNCHANGED <<problem, j, taskVars, next, arrays, cancelFile>>

FitsDoneDespiteCancel ==
  /\ TasksJoined
  /\ pc' = "reducing" /\ next' = Lo(j)
  /\ UNCHANGED <<problem, j, taskVars, arrays, anchors, out, cancelFile>>

FitsDone ==
  /\ TasksJoined /\ ~cancelled
  /\ pc' = "reducing" /\ next' = Lo(j)
  /\ UNCHANGED <<problem, j, taskVars, arrays, anchors, out, cancelFile>>

------------------------------------------------------------------------------
(***************************************************************************)
(* The reduction, candidate by candidate.                                  *)
(***************************************************************************)
CompatibleAlways(i) == TRUE
Compatible(i) == i > 0 => anchorValue[i] = Fit(i, j).start

MaxErr(i) ==
  IF dpMaxErr[i] > Fit(i, j).err THEN dpMaxErr[i] ELSE Fit(i, j).err

\* The running comparison: fewer segments, or as many and a smaller error by
\* more than the tie width, or a tie and a closer start.
TieWidth == 1

BetterByErrorOnly(i) ==
  dp[j] = kInfSegments \/ MaxErr(i) + TieWidth < dpMaxErr[j]

Better(i) ==
  \/ dp[i] + 1 < dp[j]
  \/ /\ dp[i] + 1 = dp[j]
     /\ \/ MaxErr(i) + TieWidth < dpMaxErr[j]
        \/ /\ MaxErr(i) - dpMaxErr[j] \in -TieWidth .. TieWidth
           /\ i > prevIdx[j]

Wins(i) == i \in candidates /\ Fit(i, j).feasible /\ Compatible(i) /\ Better(i)

ReduceCandidate ==
  /\ pc = "reducing" /\ next < j
  /\ IF Wins(next)
     THEN /\ dp' = [dp EXCEPT ![j] = dp[next] + 1]
          /\ dpMaxErr' = [dpMaxErr EXCEPT ![j] = MaxErr(next)]
          /\ prevIdx' = [prevIdx EXCEPT ![j] = next]
          /\ anchorValue' = [anchorValue EXCEPT ![j] = Fit(next, j).end]
     ELSE UNCHANGED arrays
  /\ next' = next + 1
  /\ UNCHANGED <<problem, pc, j, taskVars, anchors, out, cancelFile>>

NextAnchor ==
  /\ pc = "reducing" /\ next = j /\ j < n - 1
  /\ pc' = "anchor" /\ j' = j + 1
  /\ UNCHANGED <<problem, taskVars, next, arrays, anchors, out, cancelFile>>

------------------------------------------------------------------------------
(***************************************************************************)
(* The result.                                                             *)
(***************************************************************************)
FallbackAllSamples ==
  /\ pc = "reducing" /\ next = j /\ j = n - 1
  /\ dp[n - 1] >= kInfSegments
  /\ Return("fallback", FALSE, AllSamples)
  /\ UNCHANGED <<problem, j, taskVars, next, arrays, cancelFile>>

StartBacktrack ==
  /\ pc = "reducing" /\ next = j /\ j = n - 1
  /\ dp[n - 1] < kInfSegments
  /\ pc' = "backtrack"
  /\ UNCHANGED <<problem, j, taskVars, next, arrays, anchors, out, cancelFile>>

Backtrack ==
  /\ pc = "backtrack" /\ j > 0
  /\ j' = prevIdx[j]
  /\ IF prevIdx[j] < 0
     THEN Return("broken", FALSE, <<>>)
     ELSE anchors' = <<j>> \o anchors /\ UNCHANGED <<pc, out>>
  /\ UNCHANGED <<problem, taskVars, next, arrays, cancelFile>>

BacktrackDone ==
  /\ pc = "backtrack" /\ j = 0
  /\ Return("none", TRUE, <<0>> \o anchors)
  /\ UNCHANGED <<problem, j, taskVars, next, arrays, cancelFile>>

RunDPPlacement ==
  \/ ReturnCancelled \/ TooFewSamples \/ ConstantShortCircuit
  \/ StartAnchors \/ StartFits \/ FitCandidate \/ FitsCancelled \/ FitsDone
  \/ ReduceCandidate \/ NextAnchor \/ FallbackAllSamples \/ StartBacktrack
  \/ Backtrack \/ BacktrackDone

Next == HostCancels \/ RunDPPlacement

Spec == Init /\ [][Next]_vars
------------------------------------------------------------------------------
(***************************************************************************)
(* Properties.                                                             *)
(***************************************************************************)
TypeOK ==
  /\ IsProblem(problem)
  /\ pc \in {"start", "anchor", "fitting", "reducing", "backtrack", "done"}
  /\ j \in -1 .. n /\ next \in 0 .. n
  /\ \A i \in DOMAIN task : task[i] \in TaskStates
  /\ candidates \subseteq 0 .. n - 1 /\ cancelled \in BOOLEAN
  /\ dp \in [0 .. n - 1 -> 0 .. kInfSegments]
  /\ dpMaxErr \in [0 .. n - 1 -> Nat]
  /\ prevIdx \in [0 .. n - 1 -> -1 .. n - 1]
  /\ anchorValue \in [0 .. n - 1 -> Values]
  /\ out \in [notes : Notes, converged : BOOLEAN]
  /\ cancelFile \in BOOLEAN

\* Every task that could matter was fitted before the reduction starts: a
\* cancel seen by one task never leaves a hole that another anchor's chain is
\* then built around, so the result does not depend on how tasks interleave.
EveryReachedStartTried ==
  pc = "reducing" => candidates = {i \in Window(j) : Reached(i)}

\* Once a task has seen the cancel, this call returns "cancelled", not keys.
SeenCancelStops ==
  cancelled => \/ pc = "fitting"
               \/ pc = "done" /\ out.notes = "cancelled" /\ anchors = <<>>

\* A converged placement of the dynamic program is a chain of feasible segments
\* of legal length from the first sample to the last, and neighbouring segments
\* agree on the key value they share; backtracking never finds a broken link.
Placed == pc = "done" /\ out.converged /\ n >= 2 /\ ~problem.constant

ResultIsAChain ==
  /\ out.notes # "broken"
  /\ Placed =>
       /\ Len(anchors) >= 2
       /\ anchors[1] = 0 /\ anchors[Len(anchors)] = n - 1
       /\ \A k \in 1 .. Len(anchors) - 1 :
            /\ anchors[k] \in Window(anchors[k + 1])
            /\ Fit(anchors[k], anchors[k + 1]).feasible
            /\ k > 1 => Agree(anchors[k - 1], anchors[k], anchors[k + 1])

\* A chain of k segments the program could have chosen.
IsChain(s, k) ==
  /\ s[0] = 0 /\ s[k] = n - 1
  /\ \A m \in 1 .. k :
       /\ s[m - 1] \in Window(s[m])
       /\ Fit(s[m - 1], s[m]).feasible
       /\ m < k => Agree(s[m - 1], s[m], s[m + 1])

\* "Minimum-K placement": no chain has fewer keys, and the all-samples fallback
\* is returned only if there is no chain at all.
MinimumK ==
  pc = "done" /\ out.notes \in {"none", "fallback"} =>
    \A k \in 1 .. n - 1 : \A s \in [0 .. k -> 0 .. n - 1] :
      IsChain(s, k) => out.converged /\ Len(anchors) <= k + 1

\* With such fits, which is all the plain temporal solve asks for, the
\* placement is minimal; MinimumK alone fails (see the relaxed fits).
FewestKeys == Exact => MinimumK
==============================================================================
