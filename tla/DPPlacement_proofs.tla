-------------------------- MODULE DPPlacement_proofs --------------------------
(***************************************************************************)
(* Proofs about the two placements, for every set of problems.             *)
(*                                                                         *)
(* The dynamic program: an anchor's arrays are final once j has passed it  *)
(* (Links, Settled), a rival chain therefore never gets ahead of dp        *)
(* (Rivals), and backtracking reads off a chain of dp[n - 1] segments      *)
(* (Path).  The greedy placement has a part of its own at the end.         *)
(***************************************************************************)
EXTENDS PropertyPlacement, WellFoundedInduction, NaturalsInduction, TLAPS

Placing == pc \in {"anchor", "fitting", "reducing"}

Types ==
  /\ problem \in Problems
  /\ pc \in {"start", "anchor", "fitting", "reducing", "backtrack", "done"}
  /\ dp \in [0 .. n - 1 -> 0 .. kInfSegments]
  /\ dpMaxErr \in [0 .. n - 1 -> Nat]
  /\ prevIdx \in [0 .. n - 1 -> -1 .. n - 1]
  /\ anchorValue \in [0 .. n - 1 -> Values]
  /\ j \in -1 .. n /\ next \in 0 .. n
  /\ out \in [notes : Notes, converged : BOOLEAN]
  /\ cancelFile \in BOOLEAN /\ cancelled \in BOOLEAN

\* Where the loops are, and what the result holds until it is returned.
Control ==
  /\ pc = "start" => j = 0
  /\ Placing => n >= 2 /\ ~problem.constant /\ j \in 1 .. n - 1
  /\ pc # "done" => out.notes = "none" /\ ~out.converged
  /\ pc \in {"start", "anchor", "fitting", "reducing"} => anchors = <<>>
  /\ pc = "reducing" => next \in Lo(j) .. j
  /\ pc = "backtrack" => n >= 2 /\ ~problem.constant /\ j \in 0 .. n - 1

\* The fit tasks of anchor j, and what they leave when they have joined.
Tasks ==
  /\ \A i \in DOMAIN task : task[i] \in TaskStates
  /\ candidates \subseteq 0 .. n - 1
  /\ pc \in {"start", "anchor"} => ~cancelled
  /\ pc = "fitting" =>
       /\ task \in [Window(j) -> TaskStates]
       /\ candidates \subseteq {i \in Window(j) : Reached(i)}
       /\ ~cancelled => \A i \in Window(j) :
            task[i] = "finished" /\ Reached(i) => i \in candidates
  /\ pc \in {"reducing", "backtrack"} => ~cancelled
  /\ pc = "reducing" => candidates = {i \in Window(j) : Reached(i)}
  /\ pc = "done" /\ cancelled => out.notes = "cancelled" /\ anchors = <<>>

\* An anchor that a chain reaches is linked to the one before it.
Linked(k) ==
  \/ dp[k] = kInfSegments
  \/ k = 0 /\ dp[k] = 0
  \/ /\ k > 0 /\ prevIdx[k] \in Window(k)
     /\ Fit(prevIdx[k], k).feasible
     /\ prevIdx[k] > 0 => anchorValue[prevIdx[k]] = Fit(prevIdx[k], k).start
     /\ dp[prevIdx[k]] < kInfSegments
     /\ dp[k] = dp[prevIdx[k]] + 1 /\ dp[k] <= k
     /\ anchorValue[k] = Fit(prevIdx[k], k).end

Links ==
  /\ \A k \in 0 .. n - 1 : Linked(k)
  /\ n >= 1 => dp[0] = 0
  /\ pc = "start" => \A k \in 1 .. n - 1 : dp[k] = kInfSegments
  /\ Placing => \A k \in j + 1 .. n - 1 : dp[k] = kInfSegments

\* Segment (i, k) could be appended to the chain kept for i.
Appends(i, k) ==
  /\ dp[i] < kInfSegments /\ Fit(i, k).feasible
  /\ i > 0 => anchorValue[i] = Fit(i, k).start

Settled ==
  /\ Placing => \A k \in 1 .. j - 1 : \A i \in Window(k) :
                  Appends(i, k) => dp[k] <= dp[i] + 1
  /\ pc = "reducing" => \A i \in Lo(j) .. next - 1 :
                          Appends(i, j) => dp[j] <= dp[i] + 1

\* With exact fits, no chain reaches a finished anchor with fewer segments.
Ahead(s, k, last) == \A m \in 0 .. k : s[m] <= last => dp[s[m]] <= m

Rivals ==
  Exact =>
    /\ \A k \in 0 .. n - 1 : anchorValue[k] = problem.sample[k]
    /\ \A k \in 1 .. n - 1 : \A s \in [0 .. k -> 0 .. n - 1] :
         IsChain(s, k) =>
           /\ Placing => Ahead(s, k, j - 1)
           /\ pc = "backtrack" => dp[n - 1] <= k

\* The anchors collected so far are the end of the kept chain.
Path ==
  pc = "backtrack" =>
    /\ anchors \in Seq(1 .. n - 1)
    /\ dp[n - 1] < kInfSegments /\ dp[j] < kInfSegments
    /\ Len(anchors) = dp[n - 1] - dp[j]
    /\ anchors = <<>> => j = n - 1
    /\ anchors # <<>> =>
         anchors[Len(anchors)] = n - 1 /\ prevIdx[anchors[1]] = j
    /\ \A k \in 1 .. Len(anchors) : dp[anchors[k]] < kInfSegments
    /\ \A k \in 1 .. Len(anchors) - 1 : prevIdx[anchors[k + 1]] = anchors[k]

IInv == /\ Types /\ Control /\ Tasks /\ Links /\ Settled /\ Rivals /\ Path
        /\ ResultIsAChain /\ FewestKeys

------------------------------------------------------------------------------
(***************************************************************************)
(* The window, and what does not change with the problem.                  *)
(***************************************************************************)
LEMMA ProblemFacts ==
  ASSUME problem \in Problems
  PROVE  /\ n \in Nat /\ n <= kInfSegments /\ kInfSegments \in Nat \ {0}
         /\ problem.gap \in Nat \ {0}
         /\ problem.widen \in BOOLEAN /\ problem.constant \in BOOLEAN
         /\ problem.sample \in [0 .. n - 1 -> Values]
         /\ \A i, k \in 0 .. n - 1 : Fit(i, k) \in FitResult
BY ProblemAssumption, InfinityAssumption DEF IsProblem, n, Fit

LEMMA WindowFacts ==
  ASSUME problem \in Problems, NEW k \in 1 .. n - 1
  PROVE  Lo(k) \in 0 .. k - 1 /\ Window(k) \subseteq 0 .. k - 1
BY ProblemFacts DEF Lo, Window

LEMMA FitType ==
  ASSUME problem \in Problems, NEW i \in 0 .. n - 1, NEW k \in 0 .. n - 1
  PROVE  /\ Fit(i, k).feasible \in BOOLEAN /\ Fit(i, k).start \in Values
         /\ Fit(i, k).end \in Values /\ Fit(i, k).err \in Nat
BY ProblemFacts DEF FitResult

LEMMA DpType ==
  ASSUME Types, NEW i \in 0 .. n - 1
  PROVE  dp[i] \in Nat /\ dp[i] <= kInfSegments
<1>1. dp \in [0 .. n - 1 -> 0 .. kInfSegments] /\ kInfSegments \in Nat
  BY ProblemFacts DEF Types
<1> QED
  BY <1>1

\* The arguments of the call do not change.
LEMMA ProblemConstant ==
  ASSUME [Next]_vars
  PROVE  problem' = problem
BY DEF Next, vars, HostCancels, RunDPPlacement, ReturnCancelled, TooFewSamples,
   ConstantShortCircuit, StartAnchors, StartFits, FitCandidate, FitsCancelled,
   FitsDone, ReduceCandidate, NextAnchor, FallbackAllSamples, StartBacktrack,
   Backtrack, BacktrackDone

LEMMA SameProblem ==
  ASSUME problem' = problem
  PROVE  /\ n' = n /\ Exact' = Exact
         /\ \A k : Lo(k)' = Lo(k) /\ Window(k)' = Window(k)
         /\ \A i, k : Fit(i, k)' = Fit(i, k)
         /\ \A s, k : IsChain(s, k)' = IsChain(s, k)
<1>1. n' = n /\ \A i, k : Fit(i, k)' = Fit(i, k)
  BY DEF n, Fit
<1>2. \A k : Lo(k)' = Lo(k) /\ Window(k)' = Window(k)
  BY <1>1 DEF Lo, Window
<1>3. Exact' = Exact
  BY <1>1 DEF Exact
<1>4. \A s, k : IsChain(s, k)' = IsChain(s, k)
  BY <1>1, <1>2 DEF IsChain, Agree
<1> QED
  BY <1>1, <1>2, <1>3, <1>4

------------------------------------------------------------------------------
(***************************************************************************)
(* Types and control.                                                      *)
(***************************************************************************)
LEMMA ReduceTypes ==
  ASSUME Types, Control, ReduceCandidate
  PROVE  /\ dp' \in [0 .. n - 1 -> 0 .. kInfSegments]
         /\ dpMaxErr' \in [0 .. n - 1 -> Nat]
         /\ prevIdx' \in [0 .. n - 1 -> -1 .. n - 1]
         /\ anchorValue' \in [0 .. n - 1 -> Values]
<1>1. /\ problem \in Problems /\ j \in 1 .. n - 1 /\ n \in Nat
      /\ next \in 0 .. n - 1 /\ next < j
  BY ProblemFacts, WindowFacts DEF ReduceCandidate, Control, Placing, Types
<1>2. CASE Wins(next)
  <2>1. Fit(next, j).end \in Values /\ MaxErr(next) \in Nat
    <3>1. next \in 0 .. n - 1 /\ j \in 0 .. n - 1 /\ problem \in Problems
      BY <1>1
    <3>2. Fit(next, j).end \in Values /\ Fit(next, j).err \in Nat
      BY <3>1, FitType
    <3>3. dpMaxErr[next] \in Nat
      BY <3>1 DEF Types
    <3> QED
      BY <3>2, <3>3 DEF MaxErr
  <2>2. dp[next] \in 0 .. kInfSegments /\ dp[j] \in 0 .. kInfSegments
        /\ kInfSegments \in Nat
    BY <1>1, ProblemFacts DEF Types
  <2>3. dp[next] + 1 <= dp[j]
    BY <1>2, <2>2 DEF Wins, Better
  <2>4. dp[next] + 1 \in 0 .. kInfSegments
    BY <2>2, <2>3
  <2>5. dp' \in [0 .. n - 1 -> 0 .. kInfSegments]
    BY <1>1, <1>2, <2>4, ZenonT(30) DEF ReduceCandidate, Types
  <2>6. dpMaxErr' \in [0 .. n - 1 -> Nat]
    BY <1>1, <1>2, <2>1 DEF ReduceCandidate, Types
  <2>7. prevIdx' \in [0 .. n - 1 -> -1 .. n - 1]
    <3>1. next \in -1 .. n - 1
      BY <1>1
    <3> QED
      BY <1>1, <1>2, <3>1 DEF ReduceCandidate, Types
  <2>8. anchorValue' \in [0 .. n - 1 -> Values]
    BY <1>1, <1>2, <2>1 DEF ReduceCandidate, Types
  <2> QED
    BY <2>5, <2>6, <2>7, <2>8
<1>3. CASE ~Wins(next)
  BY <1>3 DEF ReduceCandidate, Types, arrays
<1> QED
  BY <1>2, <1>3

LEMMA TypesStep ==
  ASSUME Types, Control, [Next]_vars
  PROVE  Types'
<1>1. problem' = problem /\ n' = n /\ n \in Nat
  BY ProblemConstant, SameProblem, ProblemFacts DEF Types
<1> USE <1>1 DEF Types
<1>2. CASE UNCHANGED vars
  BY <1>2 DEF vars
<1>3. CASE HostCancels
  BY <1>3 DEF HostCancels, arrays, taskVars
<1>4. CASE ReturnCancelled \/ TooFewSamples \/ ConstantShortCircuit
           \/ FitsCancelled \/ FallbackAllSamples \/ BacktrackDone
  <2>1. UNCHANGED <<dp, dpMaxErr, prevIdx, anchorValue, next, cancelled,
                    cancelFile, j>>
        /\ pc' = "done"
    BY <1>4 DEF ReturnCancelled, TooFewSamples, ConstantShortCircuit,
       FitsCancelled, FallbackAllSamples, BacktrackDone, Return, arrays,
       taskVars
  <2>2. out' \in [notes : Notes, converged : BOOLEAN]
    <3>1. \A m \in Notes, c \in BOOLEAN :
            [notes |-> m, converged |-> c]
              \in [notes : Notes, converged : BOOLEAN]
      OBVIOUS
    <3>2. {"none", "cancelled", "constant_short_circuit", "fallback"}
             \subseteq Notes /\ (n = 1) \in BOOLEAN
      BY DEF Notes
    <3> QED
      BY <1>4, <3>1, <3>2 DEF ReturnCancelled, TooFewSamples, ConstantShortCircuit,
       FitsCancelled, FallbackAllSamples, BacktrackDone, Return
  <2> QED
    BY <2>1, <2>2
<1>5. CASE StartAnchors
  BY <1>5 DEF StartAnchors, arrays, taskVars
<1>6. CASE StartFits
  BY <1>6 DEF StartFits, arrays
<1>7. CASE FitCandidate
  BY <1>7 DEF FitCandidate, TaskReadsFlag, TaskPolls, TaskFits, arrays
<1>8. CASE FitsDone
  <2>1. j \in 1 .. n - 1
    BY <1>8 DEF FitsDone, TasksJoined, Control, Placing
  <2>2. Lo(j) \in 0 .. n
    BY <2>1, WindowFacts
  <2> QED
    BY <1>8, <2>2 DEF FitsDone, arrays, taskVars
<1>9. CASE ReduceCandidate
  <2>1. next < j /\ j \in 1 .. n - 1
    BY <1>9 DEF ReduceCandidate, Control, Placing
  <2>2. /\ dp' \in [0 .. n - 1 -> 0 .. kInfSegments]
        /\ dpMaxErr' \in [0 .. n - 1 -> Nat]
        /\ prevIdx' \in [0 .. n - 1 -> -1 .. n - 1]
        /\ anchorValue' \in [0 .. n - 1 -> Values]
    BY <1>9, ReduceTypes
  <2>3. next' \in 0 .. n
    BY <1>9, <2>1 DEF ReduceCandidate
  <2> QED
    BY <1>9, <2>2, <2>3 DEF ReduceCandidate, taskVars
<1>10. CASE NextAnchor \/ StartBacktrack
  <2>1. j' \in -1 .. n
    <3>1. j \in 1 .. n - 1 /\ (j' = j \/ (j < n - 1 /\ j' = j + 1))
      BY <1>10 DEF NextAnchor, StartBacktrack, Control, Placing
    <3> QED
      BY <3>1, SMTT(30)
  <2>2. UNCHANGED <<dp, dpMaxErr, prevIdx, anchorValue, next, cancelled,
                    cancelFile, out>>
        /\ pc' \in {"anchor", "backtrack"}
    BY <1>10 DEF NextAnchor, StartBacktrack, arrays, taskVars
  <2> QED
    BY <2>1, <2>2
<1>11. CASE Backtrack
  <2>1. j' \in -1 .. n
    BY <1>11 DEF Backtrack, Control
  <2>2. UNCHANGED <<dp, dpMaxErr, prevIdx, anchorValue, next, cancelled,
                    cancelFile>>
    BY <1>11 DEF Backtrack, arrays, taskVars
  <2>3. out' \in [notes : Notes, converged : BOOLEAN]
        /\ pc' \in {"backtrack", "done"}
    <3>1. CASE prevIdx[j] < 0
      <4>1. out' = [notes |-> "broken", converged |-> FALSE] /\ pc' = "done"
        BY <1>11, <3>1 DEF Backtrack, Return
      <4> QED
        BY <4>1 DEF Notes
    <3>2. CASE ~(prevIdx[j] < 0)
      BY <1>11, <3>2 DEF Backtrack
    <3> QED
      BY <3>1, <3>2
  <2> QED
    BY <2>1, <2>2, <2>3
<1> QED
  BY <1>2, <1>3, <1>4, <1>5, <1>6, <1>7, <1>8, <1>9, <1>10, <1>11
     DEF Next, RunDPPlacement

\* Backtracking always finds the link it follows.
LEMMA BacktrackStep ==
  ASSUME Types, Control, Links, Path, Backtrack
  PROVE  /\ j \in 1 .. n - 1 /\ prevIdx[j] \in 0 .. j - 1
         /\ dp[prevIdx[j]] < kInfSegments /\ dp[j] = dp[prevIdx[j]] + 1
         /\ anchors' = <<j>> \o anchors /\ UNCHANGED <<pc, out>>
         /\ j' = prevIdx[j]
<1>1. j \in 1 .. n - 1 /\ problem \in Problems /\ dp[j] < kInfSegments
  BY DEF Backtrack, Control, Types, Path
<1>2. Linked(j)
  BY <1>1 DEF Links
<1>3. prevIdx[j] \in Window(j) /\ dp[prevIdx[j]] < kInfSegments
      /\ dp[j] = dp[prevIdx[j]] + 1
  <2>1. dp[j] # kInfSegments /\ j # 0
    BY <1>1, ProblemFacts DEF Types
  <2> QED
    BY <2>1, <1>2 DEF Linked
<1>4. prevIdx[j] \in 0 .. j - 1
  BY <1>1, <1>3, WindowFacts
<1>5. n \in Nat
  BY <1>1, ProblemFacts
<1> QED
  <2>1. ~(prevIdx[j] < 0)
    BY <1>1, <1>4, <1>5
  <2> QED
    BY <1>1, <1>3, <1>4, <2>1 DEF Backtrack

LEMMA ControlStep ==
  ASSUME Types, Control, Links, Path, [Next]_vars
  PROVE  Control'
<1>1. problem' = problem /\ n' = n /\ n \in Nat /\ problem \in Problems
      /\ problem.constant \in BOOLEAN
  BY ProblemConstant, SameProblem, ProblemFacts DEF Types
<1>2. Lo(j)' = IF j' = j THEN Lo(j) ELSE Lo(j)'
  BY <1>1 DEF Lo
<1> USE <1>1 DEF Control, Placing
<1>3. CASE UNCHANGED vars
  BY <1>3 DEF vars, Lo
<1>4. CASE HostCancels
  BY <1>4 DEF HostCancels, Lo
<1>5. CASE ReturnCancelled \/ TooFewSamples \/ ConstantShortCircuit
           \/ FitsCancelled \/ FallbackAllSamples \/ BacktrackDone
  BY <1>5 DEF ReturnCancelled, TooFewSamples, ConstantShortCircuit,
     FitsCancelled, FallbackAllSamples, BacktrackDone, Return
<1>6. CASE StartAnchors
  BY <1>6 DEF StartAnchors
<1>7. CASE StartFits
  BY <1>7 DEF StartFits
<1>8. CASE FitCandidate
  BY <1>8 DEF FitCandidate
<1>9. CASE FitsDone
  <2>1. j \in 1 .. n - 1 /\ Lo(j)' = Lo(j)
    BY <1>9 DEF FitsDone, TasksJoined, Lo
  <2>2. Lo(j) \in Lo(j) .. j
    BY <2>1, WindowFacts
  <2> QED
    BY <1>9, <2>1, <2>2 DEF FitsDone, TasksJoined
<1>10. CASE ReduceCandidate
  <2>1. Lo(j)' = Lo(j) /\ j \in 1 .. n - 1
    BY <1>10 DEF ReduceCandidate, Lo
  <2>2. Lo(j) \in 0 .. j - 1
    BY <2>1, WindowFacts
  <2> QED
    BY <1>10, <2>1, <2>2 DEF ReduceCandidate
<1>11. CASE NextAnchor
  BY <1>11 DEF NextAnchor
<1>12. CASE StartBacktrack
  BY <1>12 DEF StartBacktrack
<1>13. CASE Backtrack
  <2>1. j \in 1 .. n - 1 /\ j' \in 0 .. j - 1 /\ UNCHANGED <<pc, out>>
    BY <1>13, BacktrackStep
  <2> QED
    BY <1>13, <2>1 DEF Backtrack
<1> QED
  BY <1>3, <1>4, <1>5, <1>6, <1>7, <1>8, <1>9, <1>10, <1>11, <1>12, <1>13
     DEF Next, RunDPPlacement

------------------------------------------------------------------------------
(***************************************************************************)
(* The fit tasks.                                                          *)
(***************************************************************************)
LEMMA FitCandidateTasks ==
  ASSUME Types, Control, Tasks, FitCandidate
  PROVE  Tasks'
<1>1. problem' = problem /\ problem \in Problems /\ pc = "fitting"
      /\ pc' = "fitting" /\ j' = j /\ dp' = dp /\ j \in 1 .. n - 1
  BY DEF FitCandidate, arrays, Control, Placing, Types
<1>2. n' = n /\ n \in Nat /\ Window(j)' = Window(j)
      /\ Window(j) \subseteq 0 .. n - 1
  BY <1>1, SameProblem, ProblemFacts, WindowFacts DEF Window, Lo
<1>3. \A i \in Window(j) : Reached(i)' = Reached(i)
  BY <1>1 DEF Reached
<1>4. /\ task \in [Window(j) -> TaskStates]
      /\ candidates \subseteq {i \in Window(j) : Reached(i)}
      /\ ~cancelled => \A i \in Window(j) :
            task[i] = "finished" /\ Reached(i) => i \in candidates
  BY <1>1 DEF Tasks
<1>5. PICK i \in Window(j) : TaskReadsFlag(i) \/ TaskPolls(i) \/ TaskFits(i)
  BY DEF FitCandidate
<1>6. CASE TaskReadsFlag(i)
  BY <1>1, <1>2, <1>3, <1>4, <1>5, <1>6
     DEF TaskReadsFlag, Becomes, Tasks, TaskStates
<1>7. CASE TaskPolls(i)
  BY <1>1, <1>2, <1>3, <1>4, <1>5, <1>7
     DEF TaskPolls, Becomes, Tasks, TaskStates
<1>8. CASE TaskFits(i)
  BY <1>1, <1>2, <1>3, <1>4, <1>5, <1>8
     DEF TaskFits, Becomes, Tasks, TaskStates
<1> QED
  BY <1>5, <1>6, <1>7, <1>8

\* One reduction step changes the arrays at anchor j only.
LEMMA ReduceArrays ==
  ASSUME Types, Control, ReduceCandidate
  PROVE  /\ j \in 1 .. n - 1 /\ next \in Lo(j) .. j - 1 /\ next' = next + 1
         /\ UNCHANGED <<problem, pc, j, anchors, out>>
         /\ \A k \in 0 .. n - 1 : k # j =>
              dp'[k] = dp[k] /\ prevIdx'[k] = prevIdx[k]
              /\ anchorValue'[k] = anchorValue[k]
         /\ Wins(next) =>
              dp'[j] = dp[next] + 1 /\ prevIdx'[j] = next
              /\ anchorValue'[j] = Fit(next, j).end
         /\ ~Wins(next) => UNCHANGED <<dp, prevIdx, anchorValue>>
<1>1. j \in 1 .. n - 1 /\ next \in Lo(j) .. j - 1
  <2>1. j \in 1 .. n - 1 /\ next \in Lo(j) .. j /\ next < j
        /\ problem \in Problems
    BY DEF ReduceCandidate, Control, Placing, Types
  <2> QED
    BY <2>1, WindowFacts
<1>2. CASE Wins(next)
  <2>1. dp' = [dp EXCEPT ![j] = dp[next] + 1]
        /\ prevIdx' = [prevIdx EXCEPT ![j] = next]
        /\ anchorValue' = [anchorValue EXCEPT ![j] = Fit(next, j).end]
    BY <1>2 DEF ReduceCandidate
  <2>2. DOMAIN dp = 0 .. n - 1 /\ DOMAIN prevIdx = 0 .. n - 1
        /\ DOMAIN anchorValue = 0 .. n - 1 /\ j \in 0 .. n - 1
    BY <1>1 DEF Types
  <2>3. /\ dp'[j] = dp[next] + 1 /\ prevIdx'[j] = next
        /\ anchorValue'[j] = Fit(next, j).end
    BY <2>1, <2>2
  <2>4. \A k \in 0 .. n - 1 : k # j =>
          dp'[k] = dp[k] /\ prevIdx'[k] = prevIdx[k]
          /\ anchorValue'[k] = anchorValue[k]
    BY <2>1, <2>2
  <2> QED
    BY <1>1, <1>2, <2>3, <2>4 DEF ReduceCandidate
<1>3. CASE ~Wins(next)
  BY <1>1, <1>3 DEF ReduceCandidate, Types, arrays
<1> QED
  BY <1>1, <1>2, <1>3 DEF ReduceCandidate

LEMMA TasksStep ==
  ASSUME Types, Control, Links, Path, Tasks, [Next]_vars
  PROVE  Tasks'
<1>1. problem' = problem /\ n' = n /\ problem \in Problems /\ n \in Nat
  BY ProblemConstant, SameProblem, ProblemFacts DEF Types
<1>2. \A i : Window(i)' = Window(i)
  BY <1>1, SameProblem
<1> USE <1>1
<1>3. CASE UNCHANGED vars
  <2>1. Window(j)' = Window(j) /\ \A i : Reached(i)' = Reached(i)
    BY <1>3, <1>2 DEF vars, Reached, Window, Lo
  <2> QED
    BY <1>3, <2>1 DEF vars, Tasks
<1>4. CASE HostCancels
  <2>1. Window(j)' = Window(j) /\ \A i : Reached(i)' = Reached(i)
    BY <1>4, <1>2 DEF HostCancels, arrays, Reached, Window, Lo
  <2> QED
    BY <1>4, <2>1 DEF HostCancels, taskVars, Tasks
<1>5. CASE TooFewSamples \/ ConstantShortCircuit \/ FallbackAllSamples
           \/ BacktrackDone
  <2>1. pc' = "done" /\ UNCHANGED <<task, candidates, cancelled>>
    BY <1>5 DEF TooFewSamples, ConstantShortCircuit, FallbackAllSamples,
       BacktrackDone, Return, taskVars
  <2>2. ~cancelled
    BY <1>5 DEF TooFewSamples, ConstantShortCircuit, FallbackAllSamples,
       BacktrackDone, Tasks
  <2> QED
    BY <2>1, <2>2 DEF Tasks
<1>6. CASE ReturnCancelled \/ FitsCancelled
  <2>1. pc' = "done" /\ UNCHANGED <<task, candidates, cancelled>>
        /\ anchors' = <<>>
    BY <1>6 DEF ReturnCancelled, FitsCancelled, Return, taskVars
  <2>2. out'.notes = "cancelled"
    BY <1>6 DEF ReturnCancelled, FitsCancelled, Return
  <2> QED
    BY <2>1, <2>2 DEF Tasks
<1>7. CASE StartAnchors
  BY <1>7 DEF StartAnchors, taskVars, Tasks
<1>8. CASE StartFits
  <2>1. Window(j)' = Window(j)
    BY <1>8, <1>2 DEF StartFits, Window, Lo
  <2> QED
    BY <1>8, <2>1 DEF StartFits, Tasks, TaskStates
<1>9. CASE FitCandidate
  BY <1>9, FitCandidateTasks
<1>10. CASE FitsDone
  <2>1. Window(j)' = Window(j) /\ \A i : Reached(i)' = Reached(i)
    BY <1>10, <1>2 DEF FitsDone, arrays, Reached, Window, Lo
  <2>2. candidates = {i \in Window(j) : Reached(i)}
    BY <1>10 DEF FitsDone, TasksJoined, Tasks
  <2> QED
    BY <1>10, <2>1, <2>2 DEF FitsDone, TasksJoined, taskVars, Tasks
<1>11. CASE ReduceCandidate
  <2>1. Window(j)' = Window(j) /\ j \in 1 .. n - 1
    BY <1>11, <1>2 DEF ReduceCandidate, Window, Lo, Control, Placing
  <2>2. \A i \in Window(j) : dp'[i] = dp[i]
    <3>1. Window(j) \subseteq 0 .. j - 1
      BY <2>1, WindowFacts
    <3> QED
      BY <1>11, <2>1, <3>1, ReduceArrays
  <2>3. \A i \in Window(j) : Reached(i)' = Reached(i)
    BY <2>2 DEF Reached
  <2> QED
    BY <1>11, <2>1, <2>3 DEF ReduceCandidate, taskVars, Tasks
<1>12. CASE NextAnchor \/ StartBacktrack
  <2>1. pc' \in {"anchor", "backtrack"} /\ ~cancelled
        /\ UNCHANGED <<task, candidates, cancelled>>
    BY <1>12 DEF NextAnchor, StartBacktrack, taskVars, Tasks
  <2> QED
    BY <2>1 DEF Tasks
<1>13. CASE Backtrack
  BY <1>13, BacktrackStep DEF Backtrack, taskVars, Tasks
<1> QED
  BY <1>3, <1>4, <1>5, <1>6, <1>7, <1>8, <1>9, <1>10, <1>11, <1>12, <1>13
     DEF Next, RunDPPlacement

------------------------------------------------------------------------------
(***************************************************************************)
(* The arrays: a reduction step only touches anchor j, and no other anchor *)
(* is linked through it yet.                                               *)
(***************************************************************************)
\* Every other step leaves the arrays alone.
LEMMA ArraysChange ==
  ASSUME [Next]_vars, ~ReduceCandidate
  PROVE  UNCHANGED <<dp, dpMaxErr, prevIdx, anchorValue>>
BY DEF Next, vars, HostCancels, RunDPPlacement, ReturnCancelled, TooFewSamples,
   ConstantShortCircuit, StartAnchors, StartFits, FitCandidate, FitsCancelled,
   FitsDone, NextAnchor, FallbackAllSamples, StartBacktrack, Backtrack,
   BacktrackDone, arrays

\* The segment that wins comes from a finished anchor a chain reaches.
LEMMA WinnerFacts ==
  ASSUME Types, Control, Tasks, Links, ReduceCandidate, Wins(next)
  PROVE  /\ next \in Window(j) /\ next \in 0 .. j - 1
         /\ dp[next] < kInfSegments /\ dp[next] <= next
         /\ Fit(next, j).feasible
         /\ next > 0 => anchorValue[next] = Fit(next, j).start
<1>1. pc = "reducing" /\ problem \in Problems /\ j \in 1 .. n - 1
      /\ n \in Nat /\ kInfSegments \in Nat
  BY ReduceArrays, ProblemFacts DEF ReduceCandidate, Types
<1>2. next \in Window(j) /\ dp[next] < kInfSegments
  BY <1>1 DEF Wins, Tasks, Reached
<1>3. next \in 0 .. j - 1
  BY <1>1, <1>2, WindowFacts
<1>4. Linked(next)
  BY <1>1, <1>3 DEF Links
<1>5. dp[next] <= next
  BY <1>1, <1>2, <1>3, <1>4 DEF Linked
<1> QED
  BY <1>2, <1>3, <1>5 DEF Wins, Compatible

\* Outside the reduction, a link only depends on what does not change.
LEMMA LinkedKept ==
  ASSUME problem' = problem, UNCHANGED <<dp, prevIdx, anchorValue>>
  PROVE  \A k : Linked(k)' = Linked(k)
BY SameProblem DEF Linked

LEMMA ReduceLinks ==
  ASSUME Types, Control, Tasks, Links, ReduceCandidate
  PROVE  Links'
<1>1. /\ problem' = problem /\ n' = n /\ n \in Nat /\ pc = "reducing"
      /\ pc' = "reducing" /\ j' = j /\ j \in 1 .. n - 1
      /\ problem \in Problems /\ kInfSegments \in Nat
      /\ n <= kInfSegments
  BY ReduceArrays, SameProblem, ProblemFacts DEF ReduceCandidate, Types
<1>2. CASE ~Wins(next)
  BY <1>1, <1>2, ReduceArrays, LinkedKept DEF Links, Placing
<1>3. CASE Wins(next)
  <2>1. /\ next \in Window(j) /\ next \in 0 .. j - 1
        /\ dp[next] < kInfSegments /\ dp[next] <= next
        /\ Fit(next, j).feasible
        /\ next > 0 => anchorValue[next] = Fit(next, j).start
    BY <1>3, WinnerFacts
  <2>2. /\ \A k \in 0 .. n - 1 : k # j =>
             dp'[k] = dp[k] /\ prevIdx'[k] = prevIdx[k]
             /\ anchorValue'[k] = anchorValue[k]
        /\ dp'[j] = dp[next] + 1 /\ prevIdx'[j] = next
        /\ anchorValue'[j] = Fit(next, j).end
    BY <1>3, ReduceArrays
  <2>3. dp[next] \in Nat
    BY <1>1, <2>1 DEF Types
  <2>4. ASSUME NEW k \in 0 .. n - 1, k = j
        PROVE  Linked(k)'
    <3>1. Window(k)' = Window(k) /\ next \in Window(k)
      BY <1>1, <2>1, <2>4, SameProblem
    <3>2. dp'[next] = dp[next] /\ anchorValue'[next] = anchorValue[next]
      BY <1>1, <2>1, <2>2
    <3>3. k > 0 /\ dp[next] + 1 <= k
      BY <1>1, <2>1, <2>3, <2>4
    <3>4. prevIdx'[k] = next /\ dp'[k] = dp[next] + 1
          /\ anchorValue'[k] = Fit(next, k).end
      BY <2>2, <2>4
    <3>5. Fit(next, k).feasible
          /\ (next > 0 => anchorValue[next] = Fit(next, k).start)
      BY <2>1, <2>4
    <3> QED
      BY <1>1, <2>1, <3>1, <3>2, <3>3, <3>4, <3>5 DEF Linked, Fit
  <2>5. ASSUME NEW k \in 0 .. n - 1, k # j
        PROVE  Linked(k)'
    <3>1. Linked(k)
      BY DEF Links
    <3>2. dp'[k] = dp[k] /\ prevIdx'[k] = prevIdx[k]
          /\ anchorValue'[k] = anchorValue[k]
      BY <2>2, <2>5
    <3>3. CASE dp[k] = kInfSegments \/ (k = 0 /\ dp[k] = 0)
      BY <3>2, <3>3 DEF Linked
    <3>4. CASE dp[k] # kInfSegments /\ k > 0
      <4>1. k < j
        BY <1>1, <2>5, <3>4 DEF Links, Placing
      <4>2. prevIdx[k] \in Window(k) /\ k \in 1 .. n - 1
        BY <1>1, <3>1, <3>4, <4>1 DEF Linked
      <4>3. prevIdx[k] \in 0 .. n - 1 /\ prevIdx[k] # j
        BY <1>1, <4>1, <4>2, WindowFacts
      <4>4. dp'[prevIdx[k]] = dp[prevIdx[k]]
            /\ anchorValue'[prevIdx[k]] = anchorValue[prevIdx[k]]
        BY <2>2, <4>3
      <4>5. Window(k)' = Window(k)
        BY <1>1, SameProblem
      <4> QED
        BY <1>1, <3>1, <3>2, <3>4, <4>4, <4>5 DEF Linked, Fit
    <3> QED
      BY <1>1, <3>1, <3>3, <3>4 DEF Linked
  <2>6. dp'[0] = dp[0] /\ \A k \in j + 1 .. n - 1 : dp'[k] = dp[k]
    BY <1>1, <2>2
  <2> QED
    BY <1>1, <2>4, <2>5, <2>6 DEF Links, Placing
<1> QED
  BY <1>2, <1>3

\* Where a step that leaves the loop over the anchors running came from.
LEMMA PlacingBefore ==
  ASSUME Types, Control, Links, Path, [Next]_vars, Placing'
  PROVE  \/ Placing /\ j' = j
         \/ NextAnchor
         \/ pc = "start" /\ j' = 1 /\ pc' = "anchor" /\ n >= 2
<1> USE DEF Placing
<1>1. CASE UNCHANGED vars
  BY <1>1 DEF vars
<1>2. CASE HostCancels \/ StartFits \/ FitCandidate \/ FitsDone
           \/ ReduceCandidate
  BY <1>2 DEF HostCancels, StartFits, FitCandidate, FitsDone, TasksJoined,
     ReduceCandidate
<1>3. CASE StartAnchors
  BY <1>3 DEF StartAnchors
<1>4. CASE ReturnCancelled \/ TooFewSamples \/ ConstantShortCircuit
           \/ FitsCancelled \/ FallbackAllSamples \/ BacktrackDone
  BY <1>4 DEF ReturnCancelled, TooFewSamples, ConstantShortCircuit,
     FitsCancelled, FallbackAllSamples, BacktrackDone, Return
<1>5. CASE StartBacktrack
  BY <1>5 DEF StartBacktrack
<1>6. CASE Backtrack
  BY <1>6, BacktrackStep DEF Backtrack
<1> QED
  BY <1>1, <1>2, <1>3, <1>4, <1>5, <1>6 DEF Next, RunDPPlacement

LEMMA LinksStep ==
  ASSUME Types, Control, Tasks, Links, Path, [Next]_vars
  PROVE  Links'
<1>1. problem' = problem /\ n' = n /\ problem \in Problems /\ n \in Nat
  BY ProblemConstant, SameProblem, ProblemFacts DEF Types
<1>2. CASE ReduceCandidate
  BY <1>2, ReduceLinks
<1>3. CASE ~ReduceCandidate
  <2>1. UNCHANGED <<dp, prevIdx, anchorValue>>
    BY <1>3, ArraysChange
  <2>2. \A k : Linked(k)' = Linked(k)
    BY <1>1, <2>1, LinkedKept
  <2>3. pc' = "start" => pc = "start"
    BY <1>3 DEF Next, vars, HostCancels, RunDPPlacement, ReturnCancelled,
       TooFewSamples, ConstantShortCircuit, StartAnchors, StartFits,
       FitCandidate, FitsCancelled, FitsDone, NextAnchor, FallbackAllSamples,
       StartBacktrack, Backtrack, BacktrackDone, Return
  <2>4. Placing' => \/ Placing /\ j' = j
                    \/ Placing /\ j' = j + 1
                    \/ pc = "start" /\ j' = 1
    BY <1>3, PlacingBefore DEF NextAnchor, Placing
  <2>5. Placing' => \A k \in j' + 1 .. n - 1 : dp[k] = kInfSegments
    <3>1. Placing => j \in Nat
      BY DEF Control
    <3> QED
      BY <1>1, <2>4, <3>1 DEF Links
  <2> QED
    BY <1>1, <2>1, <2>2, <2>3, <2>5 DEF Links
<1> QED
  BY <1>2, <1>3

LEMMA ReduceSettled ==
  ASSUME Types, Control, Tasks, Links, Settled, ReduceCandidate
  PROVE  Settled'
<1>1. /\ problem' = problem /\ n' = n /\ n \in Nat /\ pc = "reducing"
      /\ pc' = "reducing" /\ j' = j /\ j \in 1 .. n - 1
      /\ problem \in Problems /\ kInfSegments \in Nat
      /\ next \in Lo(j) .. j - 1 /\ next' = next + 1 /\ Lo(j) \in 0 .. j - 1
      /\ Lo(j)' = Lo(j)
  BY ReduceArrays, SameProblem, ProblemFacts, WindowFacts
     DEF ReduceCandidate, Types, Lo
<1>2. \A k \in 0 .. n - 1 : k # j =>
        dp'[k] = dp[k] /\ anchorValue'[k] = anchorValue[k]
  BY ReduceArrays
<1>3. \A i \in 0 .. j - 1, k \in 1 .. j : Appends(i, k)' = Appends(i, k)
  BY <1>1, <1>2, SameProblem DEF Appends
<1>4. dp'[j] <= dp[j] /\ (Appends(next, j) => dp'[j] <= dp[next] + 1)
  <2>1. dp[j] \in Nat /\ dp[next] \in Nat
    BY <1>1, SMTT(30) DEF Types
  <2>2. CASE Wins(next)
    BY <2>1, <2>2, ReduceArrays DEF Wins, Better
  <2>3. CASE ~Wins(next)
    <3>1. dp' = dp
      BY <2>3, ReduceArrays
    <3>2. ASSUME Appends(next, j)
          PROVE  dp[j] <= dp[next] + 1
      <4>1. next \in candidates
        BY <1>1, <3>2 DEF Tasks, Appends, Window, Reached
      <4>2. ~Better(next)
        BY <2>3, <3>2, <4>1 DEF Wins, Appends, Compatible
      <4> QED
        BY <2>1, <4>2 DEF Better
    <3> QED
      BY <2>1, <3>1, <3>2
  <2> QED
    BY <2>2, <2>3
<1>5. \A k \in 1 .. j - 1 : \A i \in Window(k) :
        Appends(i, k) => dp[k] <= dp[i] + 1
  BY <1>1 DEF Settled, Placing
<1>6. \A i \in Lo(j) .. next - 1 : Appends(i, j) => dp[j] <= dp[i] + 1
  BY <1>1 DEF Settled
<1>7. \A k \in 1 .. j - 1 : \A i \in Window(k)' :
        Appends(i, k)' => dp'[k] <= dp'[i] + 1
  <2> SUFFICES ASSUME NEW k \in 1 .. j - 1, NEW i \in Window(k),
                      Appends(i, k)'
               PROVE  dp'[k] <= dp'[i] + 1
    BY <1>1, SameProblem
  <2>1. i \in 0 .. k - 1
    BY <1>1, WindowFacts
  <2> QED
    BY <1>1, <1>2, <1>3, <1>5, <2>1
<1>8. \A i \in Lo(j) .. next : Appends(i, j)' => dp'[j] <= dp'[i] + 1
  <2> SUFFICES ASSUME NEW i \in Lo(j) .. next, Appends(i, j)'
               PROVE  dp'[j] <= dp'[i] + 1
    OBVIOUS
  <2>1. i \in 0 .. j - 1 /\ Appends(i, j) /\ dp'[i] = dp[i]
    BY <1>1, <1>2, <1>3
  <2>2. dp[j] \in Nat /\ dp[i] \in Nat /\ dp'[j] \in Int
    <3>1. dp' \in [0 .. n - 1 -> 0 .. kInfSegments]
      BY ReduceTypes
    <3>2. dp'[j] \in 0 .. kInfSegments
      BY <1>1, <3>1
    <3>3. dp[j] \in Nat /\ dp[i] \in Nat
      BY <1>1, <2>1, SMTT(30) DEF Types
    <3> QED
      BY <1>1, <3>2, <3>3
  <2>3. CASE i = next
    BY <1>4, <2>1, <2>3
  <2>4. CASE i \in Lo(j) .. next - 1
    BY <1>4, <1>6, <2>1, <2>2, <2>4
  <2> QED
    BY <1>1, <2>3, <2>4
<1> QED
  BY <1>1, <1>7, <1>8 DEF Settled, Placing

LEMMA SettledStep ==
  ASSUME Types, Control, Tasks, Links, Path, Settled, [Next]_vars
  PROVE  Settled'
<1>1. problem' = problem /\ n' = n /\ problem \in Problems /\ n \in Nat
  BY ProblemConstant, SameProblem, ProblemFacts DEF Types
<1>2. CASE ReduceCandidate
  BY <1>2, ReduceSettled
<1>3. CASE ~ReduceCandidate
  <2>1. UNCHANGED <<dp, anchorValue>>
    BY <1>3, ArraysChange
  <2>2. \A i, k : Appends(i, k)' = Appends(i, k)
    BY <1>1, <2>1, SameProblem DEF Appends
  <2>3. Placing' => \A k \in 1 .. j' - 1 : \A i \in Window(k) :
                      Appends(i, k) => dp[k] <= dp[i] + 1
    <3> SUFFICES ASSUME Placing', NEW k \in 1 .. j' - 1, NEW i \in Window(k),
                        Appends(i, k)
                 PROVE  dp[k] <= dp[i] + 1
      OBVIOUS
    <3>1. CASE Placing /\ j' = j
      BY <3>1 DEF Settled
    <3>2. CASE NextAnchor
      <4>1. /\ pc = "reducing" /\ next = j /\ j' = j + 1 /\ Placing
            /\ j \in 1 .. n - 1
        BY <3>2 DEF NextAnchor, Placing, Control
      <4>2. CASE k = j
        <5>1. i \in Lo(j) .. next - 1
          BY <4>1, <4>2 DEF Window
        <5> QED
          BY <4>1, <4>2, <5>1 DEF Settled
      <4>3. CASE k # j
        BY <4>1, <4>3 DEF Settled
      <4> QED
        BY <4>2, <4>3
    <3>3. CASE pc = "start" /\ j' = 1
      BY <3>3
    <3> QED
      BY <3>1, <3>2, <3>3, PlacingBefore
  <2>4. pc' = "reducing" =>
          \/ pc = "reducing" /\ j' = j /\ next' = next
          \/ FitsDone
    BY <1>3 DEF Next, vars, HostCancels, RunDPPlacement, ReturnCancelled,
       TooFewSamples, ConstantShortCircuit, StartAnchors, StartFits,
       FitCandidate, FitsCancelled, NextAnchor, FallbackAllSamples,
       StartBacktrack, Backtrack, BacktrackDone, Return
  <2>5. pc' = "reducing" => \A i \in Lo(j)' .. next' - 1 :
                              Appends(i, j') => dp[j'] <= dp[i] + 1
    <3>1. CASE pc = "reducing" /\ j' = j /\ next' = next
      <4>1. Lo(j)' = Lo(j)
        BY <1>1, <3>1 DEF Lo
      <4> QED
        BY <3>1, <4>1 DEF Settled
    <3>2. CASE FitsDone
      <4>1. j \in 1 .. n - 1 /\ j' = j /\ next' = Lo(j) /\ Lo(j)' = Lo(j)
        BY <1>1, <3>2 DEF FitsDone, TasksJoined, Control, Placing, Lo
      <4>2. Lo(j) \in Int
        BY <1>1, <4>1, WindowFacts
      <4> QED
        BY <4>1, <4>2
    <3> QED
      BY <2>4, <3>1, <3>2
  <2>6. Placing' => \A k \in 1 .. j' - 1 : \A i \in Window(k)' :
                      Appends(i, k)' => dp'[k] <= dp'[i] + 1
    BY <1>1, <2>1, <2>2, <2>3, SameProblem
  <2>7. pc' = "reducing" => \A i \in Lo(j)' .. next' - 1 :
                              Appends(i, j)' => dp'[j'] <= dp'[i] + 1
    <3>1. \A i : Appends(i, j)' = Appends(i, j')
      BY <1>1, <2>1 DEF Appends, Fit
    <3> QED
      BY <2>1, <2>5, <3>1
  <2> QED
    BY <2>6, <2>7 DEF Settled
<1> QED
  BY <1>2, <1>3

------------------------------------------------------------------------------
(***************************************************************************)
(* Rival chains.                                                           *)
(***************************************************************************)
\* When an anchor's reduction ends, no chain has got there with fewer segments.
LEMMA AheadAt ==
  ASSUME Types, Control, Settled, Rivals, Exact, pc = "reducing", next = j,
         NEW k \in 1 .. n - 1, NEW s \in [0 .. k -> 0 .. n - 1], IsChain(s, k)
  PROVE  Ahead(s, k, j)
<1>1. /\ j \in 1 .. n - 1 /\ problem \in Problems /\ n \in Nat
      /\ kInfSegments \in Nat /\ n <= kInfSegments
  BY ProblemFacts DEF Types, Control, Placing
<1>2. Ahead(s, k, j - 1)
  BY DEF Rivals, Placing
<1> SUFFICES ASSUME NEW m \in 0 .. k, s[m] <= j
             PROVE  dp[s[m]] <= m
  BY DEF Ahead
<1>3. CASE s[m] <= j - 1
  BY <1>2, <1>3 DEF Ahead
<1>4. CASE s[m] = j
  <2>1. m \in 1 .. k /\ m - 1 \in 0 .. k
    BY <1>1, <1>4 DEF IsChain
  <2>2. s[m - 1] \in Window(j) /\ Fit(s[m - 1], j).feasible
    BY <1>4, <2>1 DEF IsChain
  <2>3. s[m - 1] \in 0 .. j - 1 /\ s[m - 1] \in Lo(j) .. next - 1
    BY <1>1, <2>2, WindowFacts DEF Window
  <2>4. dp[s[m - 1]] <= m - 1
    BY <1>1, <1>2, <2>1, <2>3 DEF Ahead
  <2>5. dp[s[m - 1]] \in Nat /\ dp[j] \in Nat
    <3>1. \A i \in 0 .. n - 1 : dp[i] \in Nat
      BY DpType
    <3>2. s[m - 1] \in 0 .. n - 1 /\ j \in 0 .. n - 1
      BY <1>1, <2>1
    <3> QED
      BY <3>1, <3>2
  <2>6. Appends(s[m - 1], j)
    <3>1. anchorValue[s[m - 1]] = problem.sample[s[m - 1]]
      BY <1>1, <2>3 DEF Rivals
    <3>2. Fit(s[m - 1], j).start = problem.sample[s[m - 1]]
      BY <1>1, <2>3, SMTT(30) DEF Exact
    <3> QED
      BY <1>1, <2>1, <2>2, <2>4, <2>5, <3>1, <3>2 DEF Appends
  <2>7. dp[j] <= dp[s[m - 1]] + 1
    BY <2>3, <2>6 DEF Settled
  <2> QED
    BY <1>4, <2>1, <2>4, <2>5, <2>7
<1> QED
  BY <1>1, <1>3, <1>4

LEMMA RivalsStep ==
  ASSUME Types, Control, Tasks, Links, Path, Settled, Rivals, [Next]_vars
  PROVE  Rivals'
<1>1. problem' = problem /\ n' = n /\ problem \in Problems /\ n \in Nat
      /\ Exact' = Exact
  BY ProblemConstant, SameProblem, ProblemFacts DEF Types
<1> SUFFICES ASSUME Exact PROVE Rivals'
  BY <1>1 DEF Rivals
<1>2. \A k \in 0 .. n - 1 : anchorValue[k] = problem.sample[k]
  BY DEF Rivals
<1>3. \A k \in 0 .. n - 1 : anchorValue'[k] = problem.sample[k]
  <2>1. CASE ~ReduceCandidate
    BY <1>2, <2>1, ArraysChange
  <2>2. CASE ReduceCandidate
    <3>1. j \in 1 .. n - 1 /\ (Wins(next) => next \in 0 .. j - 1)
      BY <2>2, ReduceArrays, WinnerFacts
    <3>2. Wins(next) => anchorValue'[j] = problem.sample[j]
      BY <1>1, <2>2, <3>1, ReduceArrays DEF Exact
    <3> QED
      BY <1>2, <2>2, <3>1, <3>2, ReduceArrays
  <2> QED
    BY <2>1, <2>2
<1>4. ASSUME NEW k \in 1 .. n - 1, NEW s \in [0 .. k -> 0 .. n - 1],
             IsChain(s, k), Placing'
      PROVE  \A m \in 0 .. k : s[m] <= j' - 1 => dp'[s[m]] <= m
  <2>1. CASE Placing /\ j' = j
    <3>1. Ahead(s, k, j - 1)
      BY <1>4, <2>1 DEF Rivals
    <3>2. \A i \in 0 .. n - 1 : i <= j - 1 => dp'[i] = dp[i]
      <4>1. CASE ReduceCandidate
        BY <4>1, ReduceArrays
      <4>2. CASE ~ReduceCandidate
        BY <4>2, ArraysChange
      <4> QED
        BY <4>1, <4>2
    <3> QED
      BY <1>4, <2>1, <3>1, <3>2 DEF Ahead
  <2>2. CASE NextAnchor
    <3>1. pc = "reducing" /\ next = j /\ j' = j + 1 /\ dp' = dp /\ j \in Int
      BY <2>2 DEF NextAnchor, arrays, Control, Placing
    <3>2. Ahead(s, k, j)
      BY <1>4, <3>1, AheadAt
    <3> QED
      BY <1>4, <3>1, <3>2 DEF Ahead
  <2>3. CASE pc = "start" /\ j' = 1 /\ pc' = "anchor" /\ n >= 2
    <3>1. dp' = dp /\ dp[0] = 0
      <4>1. ~ReduceCandidate
        BY <2>3 DEF ReduceCandidate
      <4> QED
        BY <1>1, <2>3, <4>1, ArraysChange DEF Links
    <3> SUFFICES ASSUME NEW m \in 0 .. k, s[m] <= 0
                 PROVE  dp[s[m]] <= m
      BY <2>3, <3>1
    <3>2. s[m] = 0
      BY <1>1, <1>4
    <3> QED
      BY <3>1, <3>2
  <2> QED
    BY <1>4, <2>1, <2>2, <2>3, PlacingBefore
<1>5. ASSUME NEW k \in 1 .. n - 1, NEW s \in [0 .. k -> 0 .. n - 1],
             IsChain(s, k), pc' = "backtrack"
      PROVE  dp'[n - 1] <= k
  <2>1. CASE pc = "backtrack"
    <3>1. ~ReduceCandidate
      BY <2>1 DEF ReduceCandidate
    <3> QED
      BY <1>5, <2>1, <3>1, ArraysChange DEF Rivals
  <2>2. CASE pc # "backtrack"
    <3>1. StartBacktrack
      BY <1>5, <2>2 DEF Next, vars, HostCancels, RunDPPlacement,
         ReturnCancelled, TooFewSamples, ConstantShortCircuit, StartAnchors,
         StartFits, FitCandidate, FitsCancelled, FitsDone, ReduceCandidate,
         NextAnchor, FallbackAllSamples, Backtrack, BacktrackDone, Return
    <3>2. pc = "reducing" /\ next = j /\ j = n - 1 /\ dp' = dp
      BY <3>1 DEF StartBacktrack, arrays
    <3>3. Ahead(s, k, n - 1)
      BY <1>5, <3>2, AheadAt
    <3>4. s[k] = n - 1 /\ k \in 0 .. k
      BY <1>1, <1>5 DEF IsChain
    <3> QED
      BY <1>1, <3>2, <3>3, <3>4 DEF Ahead
  <2> QED
    BY <2>1, <2>2
<1>6. \A k, s : Ahead(s, k, j - 1)' =
        (\A m \in 0 .. k : s[m] <= j' - 1 => dp'[s[m]] <= m)
  BY DEF Ahead
<1> QED
  BY <1>1, <1>3, <1>4, <1>5, <1>6, SameProblem, ZenonT(60) DEF Rivals

------------------------------------------------------------------------------
(***************************************************************************)
(* Backtracking.                                                           *)
(***************************************************************************)
LEMMA Pushed ==
  ASSUME NEW S, NEW a \in S, NEW q \in Seq(S)
  PROVE  /\ <<a>> \o q \in Seq(S) /\ Len(<<a>> \o q) = Len(q) + 1
         /\ (<<a>> \o q)[1] = a
         /\ \A k \in 1 .. Len(q) : (<<a>> \o q)[k + 1] = q[k]
OBVIOUS

LEMMA PathStep ==
  ASSUME Types, Control, Links, Path, [Next]_vars
  PROVE  Path'
<1>1. problem' = problem /\ n' = n /\ problem \in Problems /\ n \in Nat
  BY ProblemConstant, SameProblem, ProblemFacts DEF Types
<1> SUFFICES ASSUME pc' = "backtrack" PROVE Path'
  BY DEF Path
<1>2. ~ReduceCandidate
  BY DEF ReduceCandidate
<1>3. UNCHANGED <<dp, prevIdx>>
  BY <1>2, ArraysChange
<1>4. CASE UNCHANGED vars \/ HostCancels
  <2>1. UNCHANGED <<pc, j, anchors>>
    BY <1>4 DEF vars, HostCancels
  <2> QED
    BY <1>1, <1>3, <2>1 DEF Path
<1>5. CASE StartBacktrack
  <2>1. j' = j /\ anchors' = anchors /\ anchors = <<>> /\ j = n - 1
        /\ dp[n - 1] < kInfSegments /\ n >= 2
    BY <1>5 DEF StartBacktrack, Control, Placing
  <2>2. dp[n - 1] \in Nat
    BY <1>1, <2>1 DEF Types
  <2> QED
    BY <1>1, <1>3, <2>1, <2>2 DEF Path
<1>6. CASE Backtrack
  <2>1. /\ j \in 1 .. n - 1 /\ prevIdx[j] \in 0 .. j - 1
        /\ dp[prevIdx[j]] < kInfSegments /\ dp[j] = dp[prevIdx[j]] + 1
        /\ anchors' = <<j>> \o anchors /\ j' = prevIdx[j]
    BY <1>6, BacktrackStep
  <2>2. pc = "backtrack"
    BY <1>6 DEF Backtrack
  <2>3. /\ anchors \in Seq(1 .. n - 1)
        /\ dp[n - 1] < kInfSegments /\ dp[j] < kInfSegments
        /\ Len(anchors) = dp[n - 1] - dp[j]
        /\ anchors = <<>> => j = n - 1
        /\ anchors # <<>> =>
             anchors[Len(anchors)] = n - 1 /\ prevIdx[anchors[1]] = j
        /\ \A k \in 1 .. Len(anchors) : dp[anchors[k]] < kInfSegments
        /\ \A k \in 1 .. Len(anchors) - 1 : prevIdx[anchors[k + 1]] = anchors[k]
    BY <2>2 DEF Path
  <2>4. /\ anchors' \in Seq(1 .. n - 1) /\ Len(anchors') = Len(anchors) + 1
        /\ anchors'[1] = j
        /\ \A k \in 1 .. Len(anchors) : anchors'[k + 1] = anchors[k]
    BY <2>1, <2>3, Pushed
  <2>5. Len(anchors) \in Nat /\ (anchors = <<>> <=> Len(anchors) = 0)
    BY <2>3
  <2>6. Len(anchors') = dp[n - 1] - dp[prevIdx[j]]
    <3>1. dp[j] \in Int /\ dp[n - 1] \in Int /\ dp[prevIdx[j]] \in Int
      BY <1>1, <2>1 DEF Types
    <3> QED
      BY <2>1, <2>3, <2>4, <3>1, SMTT(30)
  <2>7. anchors' # <<>> /\ anchors'[Len(anchors')] = n - 1
    <3>1. CASE anchors = <<>>
      BY <2>3, <2>4, <2>5, <3>1
    <3>2. CASE anchors # <<>>
      BY <2>3, <2>4, <2>5, <3>2
    <3> QED
      BY <3>1, <3>2
  <2>8. \A k \in 1 .. Len(anchors') : dp[anchors'[k]] < kInfSegments
    <3> SUFFICES ASSUME NEW k \in 1 .. Len(anchors'), k # 1
                 PROVE  dp[anchors'[k]] < kInfSegments
      BY <2>3, <2>4
    <3>1. k - 1 \in 1 .. Len(anchors) /\ anchors'[k] = anchors[k - 1]
      BY <2>4, <2>5
    <3> QED
      BY <2>3, <3>1
  <2>9. \A k \in 1 .. Len(anchors') - 1 : prevIdx[anchors'[k + 1]] = anchors'[k]
    <3> SUFFICES ASSUME NEW k \in 1 .. Len(anchors') - 1
                 PROVE  prevIdx[anchors'[k + 1]] = anchors'[k]
      OBVIOUS
    <3>1. k \in 1 .. Len(anchors) /\ anchors'[k + 1] = anchors[k]
      BY <2>4, <2>5
    <3>2. CASE k = 1
      BY <2>3, <2>4, <2>5, <3>1, <3>2
    <3>3. CASE k # 1
      <4>1. k - 1 \in 1 .. Len(anchors) - 1 /\ anchors'[k] = anchors[k - 1]
        BY <2>4, <2>5, <3>1, <3>3
      <4> QED
        BY <2>3, <3>1, <4>1
    <3> QED
      BY <3>2, <3>3
  <2> QED
    BY <1>1, <1>3, <2>1, <2>3, <2>4, <2>6, <2>7, <2>8, <2>9 DEF Path
<1> QED
  BY <1>1, <1>2, <1>4, <1>5, <1>6
     DEF Next, RunDPPlacement, ReturnCancelled, TooFewSamples,
     ConstantShortCircuit, StartAnchors, StartFits, FitCandidate,
     FitsCancelled, FitsDone, NextAnchor, FallbackAllSamples, BacktrackDone,
     Return, TasksJoined

------------------------------------------------------------------------------
(***************************************************************************)
(* The result.                                                             *)
(***************************************************************************)
\* Of the steps that return, only the last one of the backtracking converges on
\* two samples or more that are not constant.
LEMMA ReturnCases ==
  ASSUME Types, Control, Links, Path, [Next]_vars, pc' = "done"
  PROVE  \/ UNCHANGED <<pc, anchors, out>>
         \/ out'.notes = "cancelled" /\ out'.converged = FALSE
         \/ n < 2 /\ out'.notes = "none"
         \/ problem.constant /\ out'.notes = "constant_short_circuit"
         \/ FallbackAllSamples /\ out'.notes = "fallback"
            /\ out'.converged = FALSE
         \/ BacktrackDone /\ out'.notes = "none" /\ out'.converged = TRUE
<1>1. CASE UNCHANGED vars
  BY <1>1 DEF vars
<1>2. CASE ReturnCancelled \/ FitsCancelled
  BY <1>2 DEF ReturnCancelled, FitsCancelled, Return
<1>3. CASE TooFewSamples
  BY <1>3 DEF TooFewSamples, Return
<1>4. CASE ConstantShortCircuit
  BY <1>4 DEF ConstantShortCircuit, Return
<1>5. CASE FallbackAllSamples
  BY <1>5 DEF FallbackAllSamples, Return
<1>6. CASE BacktrackDone
  BY <1>6 DEF BacktrackDone, Return
<1>7. CASE HostCancels \/ StartAnchors \/ StartFits \/ FitCandidate
           \/ FitsDone \/ ReduceCandidate \/ NextAnchor \/ StartBacktrack
  BY <1>7 DEF HostCancels, StartAnchors, StartFits, FitCandidate, FitsDone,
     ReduceCandidate, NextAnchor, StartBacktrack
<1>8. CASE Backtrack
  BY <1>8, BacktrackStep DEF Backtrack
<1> QED
  BY <1>1, <1>2, <1>3, <1>4, <1>5, <1>6, <1>7, <1>8 DEF Next, RunDPPlacement

LEMMA Element ==
  ASSUME NEW S, NEW q \in Seq(S), NEW i \in 1 .. Len(q)
  PROVE  q[i] \in S
OBVIOUS

\* What backtracking hands over is a chain.
LEMMA BacktrackedChain ==
  ASSUME Types, Control, Links, Path, BacktrackDone
  PROVE  /\ Len(anchors') >= 2 /\ Len(anchors') = dp[n - 1] + 1
         /\ anchors'[1] = 0 /\ anchors'[Len(anchors')] = n - 1
         /\ \A k \in 1 .. Len(anchors') - 1 :
              /\ anchors'[k] \in Window(anchors'[k + 1])
              /\ Fit(anchors'[k], anchors'[k + 1]).feasible
              /\ k > 1 => Agree(anchors'[k - 1], anchors'[k], anchors'[k + 1])
<1>1. /\ pc = "backtrack" /\ j = 0 /\ n >= 2 /\ n \in Nat
      /\ anchors' = <<0>> \o anchors /\ problem \in Problems
      /\ kInfSegments \in Nat
  BY ProblemFacts DEF BacktrackDone, Control, Return, Types
<1>2. /\ anchors \in Seq(1 .. n - 1)
      /\ Len(anchors) = dp[n - 1] - dp[0]
      /\ anchors # <<>>
      /\ anchors[Len(anchors)] = n - 1 /\ prevIdx[anchors[1]] = 0
      /\ \A k \in 1 .. Len(anchors) : dp[anchors[k]] < kInfSegments
      /\ \A k \in 1 .. Len(anchors) - 1 : prevIdx[anchors[k + 1]] = anchors[k]
  BY <1>1 DEF Path
<1>3. Len(anchors) \in Nat /\ Len(anchors) >= 1
  BY <1>2
<1>4. anchors \in Seq(Int) /\ 0 \in Int
  BY <1>1, <1>2
<1>5. /\ Len(anchors') = Len(anchors) + 1 /\ anchors'[1] = 0
      /\ \A k \in 1 .. Len(anchors) : anchors'[k + 1] = anchors[k]
  BY <1>1, <1>4, Pushed
<1>6. dp[0] = 0 /\ dp[n - 1] \in Nat
  BY <1>1, DpType DEF Links
<1>7. ASSUME NEW k \in 1 .. Len(anchors)
      PROVE  /\ anchors'[k + 1] \in 1 .. n - 1
             /\ prevIdx[anchors'[k + 1]] = anchors'[k]
             /\ dp[anchors'[k + 1]] < kInfSegments
  <2>1. anchors[k] \in 1 .. n - 1
    BY <1>2, Element
  <2>4. dp[anchors[k]] < kInfSegments
    BY <1>2
  <2>2. CASE k = 1
    BY <1>2, <1>5, <2>1, <2>2, <2>4
  <2>3. CASE k # 1
    <3>1. k - 1 \in 1 .. Len(anchors) - 1
      BY <1>3, <2>3
    <3>2. prevIdx[anchors[k]] = anchors[k - 1] /\ anchors'[k] = anchors[k - 1]
      BY <1>2, <1>3, <1>5, <3>1
    <3> QED
      BY <1>5, <2>1, <2>4, <3>2
  <2> QED
    BY <2>2, <2>3
<1>8. ASSUME NEW b \in 1 .. n - 1, dp[b] < kInfSegments
      PROVE  /\ prevIdx[b] \in Window(b) /\ Fit(prevIdx[b], b).feasible
             /\ prevIdx[b] > 0 =>
                  anchorValue[prevIdx[b]] = Fit(prevIdx[b], b).start
             /\ anchorValue[b] = Fit(prevIdx[b], b).end
  <2>1. Linked(b) /\ dp[b] # kInfSegments /\ b # 0
    BY <1>1, <1>8, DpType DEF Links
  <2> QED
    BY <2>1 DEF Linked
<1>9. ASSUME NEW k \in 1 .. Len(anchors') - 1
      PROVE  /\ anchors'[k] \in Window(anchors'[k + 1])
             /\ Fit(anchors'[k], anchors'[k + 1]).feasible
             /\ k > 1 => Agree(anchors'[k - 1], anchors'[k], anchors'[k + 1])
  <2>1. k \in 1 .. Len(anchors)
    BY <1>3, <1>5
  <2>2. /\ anchors'[k + 1] \in 1 .. n - 1
        /\ prevIdx[anchors'[k + 1]] = anchors'[k]
        /\ dp[anchors'[k + 1]] < kInfSegments
    BY <1>7, <2>1
  <2>3. /\ anchors'[k] \in Window(anchors'[k + 1])
        /\ Fit(anchors'[k], anchors'[k + 1]).feasible
        /\ anchors'[k] > 0 =>
             anchorValue[anchors'[k]] = Fit(anchors'[k], anchors'[k + 1]).start
    BY <1>8, <2>2
  <2>4. ASSUME k > 1
        PROVE  Agree(anchors'[k - 1], anchors'[k], anchors'[k + 1])
    <3>1. k - 1 \in 1 .. Len(anchors) /\ (k - 1) + 1 = k
      BY <1>3, <2>1, <2>4
    <3>2. /\ anchors'[k] \in 1 .. n - 1
          /\ prevIdx[anchors'[k]] = anchors'[k - 1]
          /\ dp[anchors'[k]] < kInfSegments
      BY <1>7, <3>1
    <3>3. anchorValue[anchors'[k]] = Fit(anchors'[k - 1], anchors'[k]).end
      BY <1>8, <3>2
    <3> QED
      BY <2>3, <3>2, <3>3 DEF Agree
  <2> QED
    BY <2>3, <2>4
<1>10. Len(anchors') >= 2 /\ Len(anchors') = dp[n - 1] + 1
       /\ anchors'[Len(anchors')] = n - 1
  BY <1>2, <1>3, <1>5, <1>6
<1> QED
  BY <1>5, <1>9, <1>10

LEMMA ResultStep ==
  ASSUME Types, Control, Links, Path, ResultIsAChain, [Next]_vars
  PROVE  ResultIsAChain'
<1>1. problem' = problem /\ n' = n /\ problem \in Problems /\ n \in Nat
      /\ problem.constant \in BOOLEAN
  BY ProblemConstant, SameProblem, ProblemFacts DEF Types
<1>2. \A k : Window(k)' = Window(k)
  BY <1>1, SameProblem
<1>3. CASE pc' # "done"
  <2>1. out'.notes = "none"
    BY <1>3, ControlStep DEF Control
  <2> QED
    BY <1>3, <2>1 DEF ResultIsAChain, Placed
<1>4. CASE UNCHANGED <<pc, anchors, out>>
  BY <1>1, <1>4 DEF ResultIsAChain, Placed, Agree, Window, Lo, Fit, n
<1>5. CASE /\ pc' = "done" /\ out'.notes # "broken"
           /\ out'.converged = FALSE \/ n < 2 \/ problem.constant
  <2>1. ~Placed'
    BY <1>1, <1>5 DEF Placed
  <2> QED
    BY <1>5, <2>1 DEF ResultIsAChain
<1>6. CASE BacktrackDone /\ out'.notes = "none"
  <2>1. \A k : Window(k)' = Window(k)
    BY <1>2
  <2> QED
    BY <1>1, <1>6, BacktrackedChain
       DEF ResultIsAChain, Placed, Agree, Window, Lo, Fit, n
<1> QED
  BY <1>3, <1>4, <1>5, <1>6, ReturnCases

LEMMA FewestStep ==
  ASSUME Types, Control, Tasks, Links, Path, Settled, Rivals, FewestKeys,
         [Next]_vars
  PROVE  FewestKeys'
<1>1. problem' = problem /\ n' = n /\ problem \in Problems /\ n \in Nat
      /\ Exact' = Exact /\ kInfSegments \in Nat /\ n <= kInfSegments
  BY ProblemConstant, SameProblem, ProblemFacts DEF Types
<1>2. \A s, k : IsChain(s, k)' = IsChain(s, k)
  BY <1>1, SameProblem
<1> SUFFICES ASSUME Exact, pc' = "done", out'.notes \in {"none", "fallback"},
                    NEW k \in 1 .. n - 1, NEW s \in [0 .. k -> 0 .. n - 1],
                    IsChain(s, k)
             PROVE  out'.converged /\ Len(anchors') <= k + 1
  BY <1>1, <1>2 DEF FewestKeys, MinimumK
<1>3. CASE UNCHANGED <<pc, anchors, out>>
  BY <1>3 DEF FewestKeys, MinimumK
<1>4. CASE n < 2
  BY <1>1, <1>4
<1>5. CASE FallbackAllSamples
  <2>1. pc = "reducing" /\ next = j /\ j = n - 1 /\ dp[n - 1] >= kInfSegments
    BY <1>5 DEF FallbackAllSamples
  <2>2. Ahead(s, k, n - 1)
    BY <2>1, AheadAt
  <2>3. s[k] = n - 1
    BY DEF IsChain
  <2>4. dp[n - 1] <= k
    BY <1>1, <2>2, <2>3 DEF Ahead
  <2> QED
    BY <1>1, <2>1, <2>4, DpType
<1>6. CASE BacktrackDone /\ out'.converged = TRUE
  <2>1. Len(anchors') = dp[n - 1] + 1
    BY <1>6, BacktrackedChain
  <2>2. dp[n - 1] <= k
    BY <1>6 DEF BacktrackDone, Rivals
  <2>3. dp[n - 1] \in Nat
    BY <1>1, DpType
  <2> QED
    BY <1>6, <2>1, <2>2, <2>3
<1> QED
  BY <1>3, <1>4, <1>5, <1>6, ReturnCases

------------------------------------------------------------------------------
LEMMA Initially ==
  ASSUME Init
  PROVE  IInv
<1>1. problem \in Problems /\ n \in Nat /\ kInfSegments \in Nat \ {0}
      /\ problem.sample \in [0 .. n - 1 -> Values]
  BY ProblemFacts DEF Init
<1>2. pc = "start" /\ j = 0 /\ anchors = <<>>
      /\ out = [notes |-> "none", converged |-> FALSE]
  BY DEF Init
<1>3. Types
  <2>1. dp \in [0 .. n - 1 -> 0 .. kInfSegments]
    BY <1>1 DEF Init
  <2>2. out \in [notes : Notes, converged : BOOLEAN]
    BY <1>2 DEF Notes
  <2>3. dpMaxErr \in [0 .. n - 1 -> Nat]
        /\ prevIdx \in [0 .. n - 1 -> -1 .. n - 1]
        /\ anchorValue \in [0 .. n - 1 -> Values]
    <3>1. -1 \in -1 .. n - 1
      BY <1>1
    <3> QED
      BY <1>1, <3>1 DEF Init
  <2>4. j \in -1 .. n /\ next \in 0 .. n
    BY <1>1 DEF Init
  <2> QED
    BY <1>1, <2>1, <2>2, <2>3, <2>4 DEF Init, Types
<1>4. Control
  BY <1>2 DEF Control, Placing
<1>5. Tasks
  BY DEF Init, Tasks
<1>6. \A k \in 0 .. n - 1 : dp[k] = IF k = 0 THEN 0 ELSE kInfSegments
  BY DEF Init
<1>7. Links
  BY <1>1, <1>2, <1>6 DEF Links, Linked, Placing
<1>8. Settled
  BY <1>2 DEF Settled, Placing
<1>9. Rivals
  <2>1. \A k \in 0 .. n - 1 : anchorValue[k] = problem.sample[k]
    BY DEF Init
  <2> QED
    BY <1>2, <2>1 DEF Rivals, Placing
<1>10. Path /\ ResultIsAChain /\ FewestKeys
  BY <1>2 DEF Path, ResultIsAChain, Placed, FewestKeys, MinimumK
<1> QED
  BY <1>3, <1>4, <1>5, <1>7, <1>8, <1>9, <1>10 DEF IInv

LEMMA Inductive ==
  ASSUME IInv, [Next]_vars
  PROVE  IInv'
BY TypesStep, ControlStep, TasksStep, LinksStep, SettledStep, RivalsStep,
   PathStep, ResultStep, FewestStep DEF IInv

\* The strengthening holds in every reachable state of every placement.
THEOREM Invariance == Spec => []IInv
<1>1. Init => IInv
  BY Initially
<1>2. IInv /\ [Next]_vars => IInv'
  BY Inductive
<1> QED
  BY <1>1, <1>2, PTL DEF Spec

\* Type correctness of RunDPPlacement, its task states and arrays included.
THEOREM TypeCorrect == Spec => []TypeOK
<1>1. IInv => TypeOK
  BY ProblemAssumption DEF IInv, Types, Tasks, TypeOK
<1> QED
  BY <1>1, Invariance, PTL

\* However the fit tasks of an anchor interleave with each other and with a
\* cancel, a reduction only ever starts from all candidates that count.
THEOREM NoHoles == Spec => []EveryReachedStartTried
<1>1. IInv => EveryReachedStartTried
  BY DEF IInv, Tasks, EveryReachedStartTried
<1> QED
  BY <1>1, Invariance, PTL

\* A task that has seen the cancel makes the placement return "cancelled".
THEOREM CancelIsFinal == Spec => []SeenCancelStops
<1>1. IInv => SeenCancelStops
  BY DEF IInv, Types, Tasks, SeenCancelStops
<1> QED
  BY <1>1, Invariance, PTL

\* A converged placement is a chain of feasible segments that agree at every
\* shared key, and backtracking never breaks.
THEOREM ConvergedIsAChain == Spec => []ResultIsAChain
<1>1. IInv => ResultIsAChain
  BY DEF IInv
<1> QED
  BY <1>1, Invariance, PTL

\* Minimum-K placement: with exact fits no chain has fewer keys than the result,
\* for every number of samples, window and table of fits.
THEOREM Minimal == Spec => []FewestKeys
<1>1. IInv => FewestKeys
  BY DEF IInv
<1> QED
  BY <1>1, Invariance, PTL

------------------------------------------------------------------------------
(***************************************************************************)
(* The greedy placement: its anchors are a chain up to the current one     *)
(* (ChainSoFar), nothing longer than the segment it tries fits (Tried),    *)
(* and where parts of feasible segments are feasible no rival chain gets   *)
(* ahead of it (StaysAhead).                                               *)
(***************************************************************************)
\* The segment between the k-th anchor and the next.
FeasibleStep(k) ==
  /\ fanchors[k + 1] \in fanchors[k] + 1 .. Greedy!Hi(fanchors[k])
  /\ Greedy!Fit(fanchors[k], fanchors[k + 1]).feasible
  /\ k > 1 => Greedy!Agree(fanchors[k - 1], fanchors[k], fanchors[k + 1])

\* What the anchors have come to, and the key value at the last.
ChainSoFar ==
  /\ fanchors \in Seq(0 .. n - 1) /\ Len(fanchors) > 0
  /\ fanchors[1] = 0 /\ fanchors[Len(fanchors)] = current
  /\ \A k \in 1 .. Len(fanchors) - 1 : FeasibleStep(k)
  /\ Len(fanchors) > 1 => Greedy!Fit(0, fanchors[2]).start = problem.sample[0]
  /\ value = IF Len(fanchors) = 1 THEN problem.sample[0]
             ELSE Greedy!Fit(fanchors[Len(fanchors) - 1], current).end

\* A segment that fits at the current anchor.
FitsTo(k) ==
  Greedy!Fit(current, k).feasible /\ Greedy!Fit(current, k).start = value

Tried ==
  /\ current < n - 1 /\ span \in current .. Greedy!Hi(current)
  /\ \A k \in span + 1 .. Greedy!Hi(current) : ~FitsTo(k)

\* After as many segments, the greedy placement is at least as far.
StaysAhead ==
  Greedy!Exact /\ Greedy!Hereditary =>
    \A k \in 1 .. n - 1 : \A s \in [0 .. k -> 0 .. n - 1] :
      Greedy!IsChain(s, k) =>
        \A m \in 0 .. k : m < Len(fanchors) => s[m] <= fanchors[m + 1]

GreedyInv ==
  /\ problem \in Problems
  /\ fpc \in {"start", "anchor", "trying", "done"}
  /\ fpc = "start" => current = 0
  /\ fpc \in {"anchor", "trying"} =>
       n >= 2 /\ ~problem.constant /\ ChainSoFar /\ StaysAhead
  /\ fpc = "trying" => Tried
  /\ GreedyIsAShortestChain
\* What the assumption says of the problem at hand.
LEMMA SpanFacts ==
  ASSUME problem \in Problems
  PROVE  /\ n \in Nat /\ Greedy!n = n
         /\ \A k \in 0 .. n - 1 : Greedy!Hi(k) \in k .. n - 1
         /\ \A a, b \in 0 .. n - 1 : a <= b => Greedy!Hi(a) <= Greedy!Hi(b)
<1>1. n \in Nat /\ Greedy!n = n /\ problem.gap \in Nat \ {0}
  BY ProblemAssumption DEF IsProblem, n, Greedy!n
<1>2. \A k : Greedy!Hi(k) = IF problem.widen \/ k + problem.gap > n - 1 THEN n - 1
                           ELSE k + problem.gap
  BY <1>1 DEF Greedy!Hi
<1> QED
  BY <1>1, <1>2

\* Of some numbers, one is the least.
LEMMA LeastOfSome ==
  ASSUME NEW T, T \subseteq Nat, T # {}
  PROVE  \E x \in T : \A y \in T : x <= y
<1> DEFINE R == OpToRel(<, Nat)
<1>1. IsWellFoundedOn(R, Nat)
  BY NatLessThanWellFounded
<1>2. PICK x \in T : \A y \in T : ~(<<y, x>> \in R)
  <2> HIDE DEF R
  <2> QED
    BY <1>1, WFMin
<1>3. \A y \in T : y < x => <<y, x>> \in R
  BY DEF OpToRel
<1>4. \A y \in T : ~(y < x)
  <2> HIDE DEF R
  <2> QED
    BY <1>2, <1>3
<1>5. x \in Nat /\ \A y \in T : y \in Nat
  OBVIOUS
<1> HIDE DEF R
<1> QED
  BY <1>4, <1>5

\* The anchors so far are samples.
LEMMA AnchorsAreSamples ==
  ASSUME ChainSoFar
  PROVE  /\ Len(fanchors) \in Nat \ {0} /\ current \in 0 .. n - 1
         /\ \A k \in 1 .. Len(fanchors) : fanchors[k] \in 0 .. n - 1
<1>1. fanchors \in Seq(0 .. n - 1) /\ Len(fanchors) > 0
      /\ fanchors[Len(fanchors)] = current
  BY DEF ChainSoFar
<1>2. \A S : \A q \in Seq(S) : Len(q) \in Nat /\ \A k \in 1 .. Len(q) : q[k] \in S
  OBVIOUS
<1>3. /\ Len(fanchors) \in Nat
      /\ \A k \in 1 .. Len(fanchors) : fanchors[k] \in 0 .. n - 1
  BY <1>1, <1>2
<1> QED
  BY <1>1, <1>3

\* With exact fits the key value at an anchor is that of its sample.
LEMMA ValueIsSample ==
  ASSUME problem \in Problems, ChainSoFar, Greedy!Exact
  PROVE  value = problem.sample[current]
<1>1. CASE Len(fanchors) = 1
  BY <1>1 DEF ChainSoFar
<1>2. CASE Len(fanchors) # 1
  <2>1. Len(fanchors) \in Nat /\ Len(fanchors) - 1 \in 1 .. Len(fanchors)
        /\ Len(fanchors) \in 1 .. Len(fanchors)
    <3>1. \A x \in Nat \ {0} : x # 1 => x - 1 \in 1 .. x /\ x \in 1 .. x
      OBVIOUS
    <3>2. Len(fanchors) \in Nat \ {0}
      BY AnchorsAreSamples
    <3> QED
      BY <1>2, <3>1, <3>2
  <2>2. fanchors[Len(fanchors) - 1] \in 0 .. n - 1 /\ current \in 0 .. n - 1
    BY <2>1, AnchorsAreSamples
  <2>3. Greedy!n = n
    BY SpanFacts
  <2> QED
    BY <1>2, <2>2, <2>3 DEF ChainSoFar, Greedy!Exact
<1> QED
  BY <1>1, <1>2

\* A rival segment that passes over the current anchor would fit from there too.
LEMMA RivalFits ==
  ASSUME problem \in Problems, ChainSoFar, Greedy!Exact, Greedy!Hereditary,
         NEW a \in 0 .. current, NEW d \in current + 1 .. n - 1,
         Greedy!Fit(a, d).feasible, d <= Greedy!Hi(a)
  PROVE  FitsTo(d) /\ d <= Greedy!Hi(current)
<1>1. /\ n \in Nat /\ Greedy!n = n /\ current \in 0 .. n - 1 /\ a \in 0 .. n - 1
      /\ d \in 0 .. n - 1 /\ a <= current
  BY AnchorsAreSamples, SpanFacts
<1>2. Greedy!Fit(current, d).feasible
  <2>1. current \in a .. d /\ d \in current + 1 .. d
    BY <1>1
  <2> QED
    BY <1>1, <2>1 DEF Greedy!Hereditary
<1>3. Greedy!Fit(current, d).start = value
  BY <1>1, ValueIsSample DEF Greedy!Exact
<1>4. Greedy!Hi(a) \in Nat /\ Greedy!Hi(current) \in Nat
      /\ Greedy!Hi(a) <= Greedy!Hi(current)
  <2>1. \A k \in 0 .. n - 1 : Greedy!Hi(k) \in k .. n - 1
    BY SpanFacts
  <2>2. Greedy!Hi(a) \in a .. n - 1 /\ Greedy!Hi(current) \in current .. n - 1
    BY <1>1, <2>1
  <2> QED
    BY <1>1, <2>2, SpanFacts
<1> QED
  BY <1>1, <1>2, <1>3, <1>4 DEF FitsTo

\* Nothing that is said of the problem changes with a step that leaves it alone.
LEMMA SameChains ==
  ASSUME problem' = problem
  PROVE  /\ n' = n /\ (Greedy!n)' = Greedy!n
         /\ \A a, b : (Greedy!Fit(a, b))' = Greedy!Fit(a, b)
         /\ \A a, b, c : (Greedy!Agree(a, b, c))' = Greedy!Agree(a, b, c)
         /\ \A k : (Greedy!Hi(k))' = Greedy!Hi(k)
         /\ \A s, k : (Greedy!IsChain(s, k))' = Greedy!IsChain(s, k)
         /\ (Greedy!Exact)' = Greedy!Exact /\ (Greedy!Hereditary)' = Greedy!Hereditary
<1>1. n' = n /\ (Greedy!n)' = Greedy!n
  BY DEF n, Greedy!n
<1>2. \A a, b : (Greedy!Fit(a, b))' = Greedy!Fit(a, b)
  BY DEF Greedy!Fit
<1>3. \A a, b, c : (Greedy!Agree(a, b, c))' = Greedy!Agree(a, b, c)
  BY <1>2 DEF Greedy!Agree
<1>4. \A k : (Greedy!Hi(k))' = Greedy!Hi(k)
  BY <1>1 DEF Greedy!Hi
<1>5. \A s, k : (Greedy!IsChain(s, k))' = Greedy!IsChain(s, k)
  BY <1>1, <1>2, <1>4 DEF Greedy!IsChain
<1>6. (Greedy!Exact)' = Greedy!Exact
  BY <1>1, <1>2 DEF Greedy!Exact
<1>7. (Greedy!Hereditary)' = Greedy!Hereditary
  BY <1>1, <1>2 DEF Greedy!Hereditary
<1> QED
  BY <1>1, <1>2, <1>3, <1>4, <1>5, <1>6, <1>7

\* A step that leaves the anchors alone leaves what is known of them alone.
LEMMA SameAnchors ==
  ASSUME problem' = problem, UNCHANGED <<fanchors, current, value>>
  PROVE  /\ ChainSoFar => ChainSoFar'
         /\ StaysAhead => StaysAhead'
         /\ \A k : FitsTo(k)' = FitsTo(k)
<1>1. \A k : FeasibleStep(k)' = FeasibleStep(k)
  BY SameChains DEF FeasibleStep
<1>2. ChainSoFar => ChainSoFar'
  BY <1>1, SameChains DEF ChainSoFar
<1>3. StaysAhead => StaysAhead'
  BY SameChains DEF StaysAhead
<1>4. \A k : FitsTo(k)' = FitsTo(k)
  BY SameChains DEF FitsTo
<1> QED
  BY <1>2, <1>3, <1>4

\* While the placement is under way, and when it has not placed a chain, there is
\* nothing to be said of its result.
LEMMA NothingPlaced ==
  ASSUME \/ fpc' # "done"
         \/ /\ fout'.notes \in {"cancelled", "constant_short_circuit"}
            /\ fout'.converged = FALSE \/ problem'.constant
         \/ n' \in Nat /\ (Greedy!n)' = n' /\ n' < 2
  PROVE  GreedyIsAShortestChain'
<1>1. (Greedy!ResultIsAChain)'
  BY DEF Greedy!ResultIsAChain, Greedy!Placed
<1>2. (Greedy!GreedyIsMinimal)'
  BY DEF Greedy!GreedyIsMinimal
<1> QED
  BY <1>1, <1>2 DEF GreedyIsAShortestChain

\* The ends of a call that places nothing.
LEMMA GreedyEarlyReturns ==
  ASSUME GreedyInv,
         Greedy!ReturnCancelled \/ Greedy!TooFewSamples \/ Greedy!ConstantShortCircuit
  PROVE  GreedyInv'
<1>1. /\ problem \in Problems /\ n \in Nat /\ Greedy!n = n
  BY SpanFacts DEF GreedyInv
<1>2. problem' = problem /\ fpc' = "done"
  BY DEF Greedy!ReturnCancelled, Greedy!TooFewSamples, Greedy!ConstantShortCircuit,
         Greedy!Return
<1>3. \/ /\ fout'.notes \in {"cancelled", "constant_short_circuit"}
         /\ fout'.converged = FALSE \/ problem'.constant
      \/ n' \in Nat /\ (Greedy!n)' = n' /\ n' < 2
  <2>1. CASE Greedy!ReturnCancelled
    BY <2>1 DEF Greedy!ReturnCancelled, Greedy!Return
  <2>2. CASE Greedy!ConstantShortCircuit
    BY <1>2, <2>2 DEF Greedy!ConstantShortCircuit, Greedy!Return
  <2>3. CASE Greedy!TooFewSamples
    BY <1>1, <1>2, <2>3, SameChains DEF Greedy!TooFewSamples
  <2> QED
    BY <2>1, <2>2, <2>3
<1>4. GreedyIsAShortestChain'
  BY <1>2, <1>3, NothingPlaced
<1> QED
  BY <1>1, <1>2, <1>4 DEF GreedyInv

\* The first anchor.
LEMMA GreedyStarts ==
  ASSUME GreedyInv, Greedy!StartAnchors
  PROVE  GreedyInv'
<1>1. /\ problem \in Problems /\ n \in Nat /\ Greedy!n = n /\ current = 0
  BY SpanFacts DEF GreedyInv, Greedy!StartAnchors
<1>2. /\ n >= 2 /\ ~problem.constant /\ fpc' = "anchor"
      /\ fanchors' = <<0>> /\ value' = problem.sample[0]
      /\ problem' = problem /\ current' = 0
  BY <1>1 DEF Greedy!StartAnchors
<1>3. n' = n
  BY <1>2, SameChains
<1>4. ChainSoFar'
  <2>1. <<0>> \in Seq(0 .. n - 1) /\ Len(<<0>>) = 1 /\ <<0>>[1] = 0
    BY <1>1, <1>2
  <2> QED
    BY <1>2, <1>3, <2>1 DEF ChainSoFar
<1>5. StaysAhead'
  <2> SUFFICES ASSUME NEW k \in 1 .. n - 1, NEW s \in [0 .. k -> 0 .. n - 1],
                      (Greedy!IsChain(s, k))', NEW m \in 0 .. k, m < Len(fanchors')
               PROVE  s[m] <= fanchors'[m + 1]
    BY <1>3 DEF StaysAhead
  <2>1. m = 0 /\ s[0] = 0
    BY <1>2 DEF Greedy!IsChain
  <2> QED
    BY <1>2, <2>1
<1>6. GreedyIsAShortestChain'
  BY <1>2, NothingPlaced
<1> QED
  BY <1>1, <1>2, <1>3, <1>4, <1>5, <1>6 DEF GreedyInv

\* Looking for a segment: the longest first, then shorter ones.
LEMMA GreedyTries ==
  ASSUME GreedyInv, Greedy!StartSpan \/ Greedy!ShortenSpan
  PROVE  GreedyInv'
<1>1. /\ problem \in Problems /\ n \in Nat /\ Greedy!n = n
      /\ fpc \in {"anchor", "trying"} /\ n >= 2 /\ ~problem.constant
      /\ ChainSoFar /\ StaysAhead
  BY SpanFacts DEF GreedyInv, Greedy!StartSpan, Greedy!ShortenSpan
<1>2. /\ problem' = problem /\ fpc' = "trying"
      /\ UNCHANGED <<fanchors, current, value>>
  BY <1>1 DEF Greedy!StartSpan, Greedy!ShortenSpan, GreedyInv
<1>3. /\ current \in 0 .. n - 1 /\ Greedy!Hi(current) \in current .. n - 1
  BY <1>1, SpanFacts, AnchorsAreSamples
<1>4. n' = n /\ (Greedy!Hi(current))' = Greedy!Hi(current)
      /\ \A k : FitsTo(k)' = FitsTo(k)
  BY <1>2, SameChains, SameAnchors
<1>5. /\ current < n - 1 /\ span' \in current .. Greedy!Hi(current)
      /\ \A k \in span' + 1 .. Greedy!Hi(current) : ~FitsTo(k)
  <2>1. CASE Greedy!StartSpan
    BY <1>1, <1>3, <2>1 DEF Greedy!StartSpan
  <2>2. CASE Greedy!ShortenSpan
    <3>1. /\ Tried /\ span > current /\ ~FitsTo(span) /\ span' = span - 1
      BY <2>2 DEF Greedy!ShortenSpan, Greedy!Fits, FitsTo, GreedyInv
    <3> QED
      BY <1>1, <1>3, <3>1 DEF Tried
  <2> QED
    BY <2>1, <2>2
<1>6. Tried'
  BY <1>2, <1>4, <1>5 DEF Tried
<1>7. ChainSoFar' /\ StaysAhead'
  BY <1>1, <1>2, SameAnchors
<1>8. GreedyIsAShortestChain'
  BY <1>2, NothingPlaced
<1> QED
  BY <1>1, <1>2, <1>4, <1>6, <1>7, <1>8 DEF GreedyInv

\* The segment taken is the longest that fits: a rival that would now be ahead
\* has a segment over the old anchor, and its rest would have fitted from there.
LEMMA GreedyAccepts ==
  ASSUME GreedyInv, Greedy!AcceptSpan
  PROVE  GreedyInv'
<1>1. /\ problem \in Problems /\ n \in Nat /\ Greedy!n = n
      /\ n >= 2 /\ ~problem.constant /\ ChainSoFar /\ StaysAhead /\ Tried
  BY SpanFacts DEF GreedyInv, Greedy!AcceptSpan
<1>2. /\ fpc' = "anchor" /\ problem' = problem /\ current' = span
      /\ value' = Greedy!Fit(current, span).end
      /\ fanchors' = Append(fanchors, span) /\ span > current /\ FitsTo(span)
  BY DEF Greedy!AcceptSpan, Greedy!Fits, FitsTo
<1> DEFINE L == Len(fanchors)
<1>3. /\ L \in Nat \ {0} /\ current \in 0 .. n - 1
      /\ \A k \in 1 .. L : fanchors[k] \in 0 .. n - 1
      /\ Greedy!Hi(current) \in current .. n - 1
  BY <1>1, AnchorsAreSamples, SpanFacts
<1>4. span \in current + 1 .. Greedy!Hi(current) /\ span \in 0 .. n - 1
  BY <1>1, <1>2, <1>3 DEF Tried
<1>5. /\ fanchors' \in Seq(0 .. n - 1) /\ Len(fanchors') = L + 1
      /\ \A k \in 1 .. L : fanchors'[k] = fanchors[k]
      /\ fanchors'[L + 1] = span
  BY <1>1, <1>2, <1>4 DEF ChainSoFar
<1>6. /\ n' = n /\ (Greedy!n)' = n
      /\ \A a, b : (Greedy!Fit(a, b))' = Greedy!Fit(a, b)
      /\ \A a, b, c : (Greedy!Agree(a, b, c))' = Greedy!Agree(a, b, c)
      /\ \A k : (Greedy!Hi(k))' = Greedy!Hi(k)
  BY <1>1, <1>2, SameChains
<1>7. fanchors[L] = current /\ fanchors[1] = 0
  BY <1>1 DEF ChainSoFar
<1> HIDE DEF L
<1>8. ASSUME NEW k \in 1 .. L
      PROVE  FeasibleStep(k)'
  <2>1. CASE k < L
    <3>1. k \in 1 .. L - 1 /\ k + 1 \in 1 .. L /\ (k > 1 => k - 1 \in 1 .. L)
      BY <1>3, <2>1
    <3>2. FeasibleStep(k)
      BY <1>1, <3>1 DEF ChainSoFar, L
    <3> QED
      BY <1>5, <1>6, <3>1, <3>2 DEF FeasibleStep
  <2>2. CASE k = L
    <3>1. fanchors'[k] = current /\ fanchors'[k + 1] = span
      BY <1>5, <1>7, <2>2
    <3>2. Greedy!Fit(current, span).feasible
          /\ Greedy!Fit(current, span).start = value
      BY <1>2 DEF FitsTo
    <3>3. k > 1 => Greedy!Agree(fanchors[k - 1], current, span)
      <4>1. k > 1 => value = Greedy!Fit(fanchors[k - 1], current).end
        BY <1>1, <1>3, <2>2 DEF ChainSoFar, L
      <4> QED
        BY <3>2, <4>1 DEF Greedy!Agree
    <3>4. k > 1 => fanchors'[k - 1] = fanchors[k - 1]
      BY <1>3, <1>5
    <3> QED
      BY <1>4, <1>6, <3>1, <3>2, <3>3, <3>4 DEF FeasibleStep
  <2> QED
    BY <1>3, <2>1, <2>2
<1>9. ChainSoFar'
  <2>1. (Greedy!Fit(0, fanchors[2]).start = problem.sample[0])'
    <3>1. CASE L = 1
      <4>1. current = 0 /\ fanchors'[2] = span /\ value = problem.sample[0]
        BY <1>1, <1>5, <1>7, <3>1 DEF ChainSoFar, L
      <4> QED
        BY <1>2, <1>6, <4>1 DEF FitsTo
    <3>2. CASE L # 1
      <4>1. L > 1 /\ 2 \in 1 .. L
        BY <1>3, <3>2
      <4>2. fanchors'[2] = fanchors[2] /\ Greedy!Fit(0, fanchors[2]).start = problem.sample[0]
        BY <1>1, <1>5, <4>1 DEF ChainSoFar, L
      <4> QED
        BY <1>2, <1>6, <4>2
    <3> QED
      BY <3>1, <3>2
  <2>2. (value = Greedy!Fit(fanchors[Len(fanchors) - 1], current).end)'
    <3>1. fanchors'[L] = current
      BY <1>3, <1>5, <1>7
    <3>2. Len(fanchors') - 1 = L
      BY <1>3, <1>5
    <3> QED
      BY <1>2, <1>6, <3>1, <3>2
  <2>3. fanchors'[1] = 0 /\ Len(fanchors') # 1 /\ Len(fanchors') > 0
        /\ Len(fanchors') - 1 = L
    BY <1>3, <1>5, <1>7
  <2> QED
    BY <1>2, <1>5, <1>6, <1>8, <2>1, <2>2, <2>3 DEF ChainSoFar
<1>10. StaysAhead'
  <2>0. /\ (Greedy!Exact)' = Greedy!Exact /\ (Greedy!Hereditary)' = Greedy!Hereditary
        /\ \A s, k : (Greedy!IsChain(s, k))' = Greedy!IsChain(s, k)
    BY <1>2, SameChains
  <2> SUFFICES ASSUME Greedy!Exact, Greedy!Hereditary,
                      NEW k \in 1 .. n - 1, NEW s \in [0 .. k -> 0 .. n - 1],
                      Greedy!IsChain(s, k), NEW m \in 0 .. k, m < L + 1
               PROVE  s[m] <= fanchors'[m + 1]
    BY <1>5, <1>6, <2>0 DEF StaysAhead
  <2>1. CASE m < L
    <3>1. s[m] <= fanchors[m + 1]
      BY <1>1, <2>1 DEF StaysAhead, L
    <3>2. m + 1 \in 1 .. L
      BY <1>3, <2>1
    <3> QED
      BY <1>5, <3>1, <3>2
  <2>2. CASE m = L
    <3>1. m - 1 \in 0 .. k /\ m \in 1 .. k /\ m - 1 < L
      BY <1>3, <2>2
    <3>2. s[m - 1] <= fanchors[(m - 1) + 1]
      BY <1>1, <3>1 DEF StaysAhead, L
    <3>3. (m - 1) + 1 = L
      BY <1>3, <2>2
    <3>4. s[m - 1] \in 0 .. current /\ s[m] \in 0 .. n - 1
      BY <1>3, <1>7, <3>1, <3>2, <3>3
    <3>5. /\ Greedy!Fit(s[m - 1], s[m]).feasible /\ s[m] <= Greedy!Hi(s[m - 1])
      <4>1. s[m] \in s[m - 1] + 1 .. Greedy!Hi(s[m - 1])
        BY <3>1 DEF Greedy!IsChain
      <4> QED
        BY <3>1, <4>1, SMTT(30) DEF Greedy!IsChain
    <3>6. SUFFICES s[m] <= span
      BY <1>5, <2>2
    <3>7. CASE s[m] > current
      <4>1. s[m] \in current + 1 .. n - 1
        BY <1>3, <3>4, <3>7
      <4>2. FitsTo(s[m]) /\ s[m] <= Greedy!Hi(current)
        BY <1>1, <3>4, <3>5, <4>1, RivalFits
      <4>3. ~(s[m] \in span + 1 .. Greedy!Hi(current))
        BY <1>1, <4>2 DEF Tried
      <4> QED
        BY <1>3, <1>4, <4>1, <4>2, <4>3
    <3>8. CASE ~(s[m] > current)
      BY <1>3, <1>4, <3>4, <3>8
    <3> QED
      BY <3>7, <3>8
  <2> QED
    BY <1>3, <2>1, <2>2
<1>11. GreedyIsAShortestChain'
  BY <1>2, NothingPlaced
<1> QED
  BY <1>1, <1>2, <1>6, <1>9, <1>10, <1>11 DEF GreedyInv

\* Nothing fits from the current anchor: no chain passes it.
LEMMA GreedyGivesUp ==
  ASSUME GreedyInv, Greedy!FallbackAllSamples
  PROVE  GreedyInv'
<1>1. /\ problem \in Problems /\ n \in Nat /\ Greedy!n = n /\ n >= 2
      /\ ChainSoFar /\ Tried /\ span = current
  BY SpanFacts DEF GreedyInv, Greedy!FallbackAllSamples
<1>2. /\ fpc' = "done" /\ problem' = problem
      /\ fout'.converged = FALSE
  BY DEF Greedy!FallbackAllSamples, Greedy!Return
<1>3. current \in 0 .. n - 1 /\ current < n - 1
  BY <1>1, AnchorsAreSamples DEF Tried
<1>4. ASSUME Greedy!Exact, Greedy!Hereditary,
             NEW k \in 1 .. n - 1, NEW s \in [0 .. k -> 0 .. n - 1],
             Greedy!IsChain(s, k)
      PROVE  FALSE
  <2> DEFINE T == {m \in 0 .. k : s[m] > current}
  <2>1. k \in T /\ T \subseteq Nat
    BY <1>1, <1>3, <1>4 DEF Greedy!IsChain
  <2>2. PICK m \in T : \A y \in T : m <= y
    <3> HIDE DEF T
    <3> QED
      BY <2>1, LeastOfSome
  <2>3. m \in 1 .. k /\ m - 1 \in 0 .. k /\ s[m] > current
    BY <1>1, <1>3, <1>4, <2>2 DEF Greedy!IsChain
  <2>4. ~(s[m - 1] > current)
    BY <2>2, <2>3
  <2> HIDE DEF T
  <2>5. s[m - 1] \in 0 .. n - 1 /\ s[m] \in 0 .. n - 1
    BY <2>3
  <2>6. s[m - 1] \in 0 .. current /\ s[m] \in current + 1 .. n - 1
    BY <1>1, <1>3, <2>3, <2>4, <2>5
  <2>7. s[m] \in s[m - 1] + 1 .. Greedy!Hi(s[m - 1])
        /\ Greedy!Fit(s[m - 1], s[m]).feasible
    BY <1>4, <2>3 DEF Greedy!IsChain
  <2>8. s[m] <= Greedy!Hi(s[m - 1])
    BY <2>7
  <2>9. FitsTo(s[m]) /\ s[m] <= Greedy!Hi(current)
    BY <1>1, <1>4, <2>6, <2>7, <2>8, RivalFits
  <2>10. Greedy!Hi(current) \in current .. n - 1
    BY <1>1, <1>3, SpanFacts
  <2>11. s[m] \in span + 1 .. Greedy!Hi(current)
    BY <1>1, <1>3, <2>6, <2>9, <2>10
  <2> QED
    BY <1>1, <2>9, <2>11 DEF Tried
<1>5. (Greedy!ResultIsAChain)'
  BY <1>2 DEF Greedy!ResultIsAChain, Greedy!Placed
<1>6. (Greedy!GreedyIsMinimal)'
  <2>1. /\ (Greedy!Exact)' = Greedy!Exact /\ (Greedy!Hereditary)' = Greedy!Hereditary
        /\ \A s, k : (Greedy!IsChain(s, k))' = Greedy!IsChain(s, k)
        /\ (Greedy!n)' = n
    BY <1>1, <1>2, SameChains
  <2> QED
    BY <1>4, <2>1 DEF Greedy!GreedyIsMinimal
<1> QED
  BY <1>1, <1>2, <1>5, <1>6 DEF GreedyInv, GreedyIsAShortestChain

\* The last sample is reached: a shorter chain would have been there before.
LEMMA GreedyArrives ==
  ASSUME GreedyInv, Greedy!PlacementDone
  PROVE  GreedyInv'
<1>1. /\ problem \in Problems /\ n \in Nat /\ Greedy!n = n /\ n >= 2
      /\ ChainSoFar /\ StaysAhead /\ current = n - 1
  BY SpanFacts DEF GreedyInv, Greedy!PlacementDone
<1>2. /\ fpc' = "done" /\ problem' = problem
      /\ fout'.converged = TRUE /\ fanchors' = fanchors
  BY DEF Greedy!PlacementDone, Greedy!Return
<1> DEFINE L == Len(fanchors)
<1>3. /\ L \in Nat \ {0} /\ \A k \in 1 .. L : fanchors[k] \in 0 .. n - 1
      /\ fanchors[1] = 0 /\ fanchors[L] = n - 1
  BY <1>1, AnchorsAreSamples DEF ChainSoFar
<1>4. L >= 2
  BY <1>1, <1>3
<1>5. \A k \in 1 .. L - 1 : FeasibleStep(k)
  BY <1>1 DEF ChainSoFar
<1>6. Greedy!Fit(0, fanchors[2]).start = problem.sample[0]
  BY <1>1, <1>4 DEF ChainSoFar
<1>7. ASSUME Greedy!Exact, Greedy!Hereditary,
             NEW k \in 1 .. n - 1, NEW s \in [0 .. k -> 0 .. n - 1],
             Greedy!IsChain(s, k)
      PROVE  L <= k + 1
  <2> SUFFICES ASSUME k + 1 < L PROVE FALSE
    BY <1>3
  <2>1. s[k] <= fanchors[k + 1]
    <3>1. k \in 0 .. k /\ k < Len(fanchors)
      BY <1>3
    <3>2. \A m \in 0 .. k : m < Len(fanchors) => s[m] <= fanchors[m + 1]
      BY <1>1, <1>7 DEF StaysAhead
    <3> QED
      BY <3>1, <3>2
  <2>2. s[k] = n - 1
    BY <1>1, <1>7 DEF Greedy!IsChain
  <2>3. k + 1 \in 1 .. L - 1 /\ k + 1 \in 1 .. L /\ k + 2 \in 1 .. L
    BY <1>3
  <2> HIDE DEF L
  <2>4. fanchors[(k + 1) + 1] \in fanchors[k + 1] + 1 .. Greedy!Hi(fanchors[k + 1])
    BY <1>5, <2>3 DEF FeasibleStep
  <2>5. (k + 1) + 1 = k + 2
    OBVIOUS
  <2>6. fanchors[k + 1] \in 0 .. n - 1 /\ fanchors[k + 2] \in 0 .. n - 1
    BY <1>3, <2>3
  <2> QED
    BY <1>1, <2>1, <2>2, <2>4, <2>5, <2>6
<1> HIDE DEF L
<1>8. (Greedy!ResultIsAChain)'
  <2>1. /\ (Greedy!n)' = n /\ Len(fanchors') = L
        /\ \A a, b : (Greedy!Fit(a, b))' = Greedy!Fit(a, b)
        /\ \A a, b, c : (Greedy!Agree(a, b, c))' = Greedy!Agree(a, b, c)
        /\ \A k : (Greedy!Hi(k))' = Greedy!Hi(k)
    BY <1>1, <1>2, SameChains DEF L
  <2> QED
    BY <1>2, <1>3, <1>4, <1>5, <1>6, <2>1 DEF Greedy!ResultIsAChain, FeasibleStep
<1>9. (Greedy!GreedyIsMinimal)'
  <2>1. /\ (Greedy!Exact)' = Greedy!Exact /\ (Greedy!Hereditary)' = Greedy!Hereditary
        /\ \A s, k : (Greedy!IsChain(s, k))' = Greedy!IsChain(s, k)
        /\ (Greedy!n)' = n /\ Len(fanchors') = L
    BY <1>1, <1>2, SameChains DEF L
  <2> QED
    BY <1>2, <1>7, <2>1 DEF Greedy!GreedyIsMinimal
<1> QED
  BY <1>1, <1>2, <1>8, <1>9 DEF GreedyInv, GreedyIsAShortestChain

\* A step that leaves the greedy placement and its problem alone.
LEMMA GreedyRests ==
  ASSUME GreedyInv, problem' = problem,
         UNCHANGED <<fpc, current, span, value, fanchors, fout>>
  PROVE  GreedyInv'
<1>1. /\ n' = n /\ (Greedy!n)' = Greedy!n
      /\ \A a, b : (Greedy!Fit(a, b))' = Greedy!Fit(a, b)
      /\ \A a, b, c : (Greedy!Agree(a, b, c))' = Greedy!Agree(a, b, c)
      /\ \A k : (Greedy!Hi(k))' = Greedy!Hi(k)
      /\ \A s, k : (Greedy!IsChain(s, k))' = Greedy!IsChain(s, k)
      /\ (Greedy!Exact)' = Greedy!Exact /\ (Greedy!Hereditary)' = Greedy!Hereditary
  BY SameChains
<1>2. /\ ChainSoFar => ChainSoFar'
      /\ StaysAhead => StaysAhead'
      /\ \A k : FitsTo(k)' = FitsTo(k)
  BY SameAnchors
<1>3. Tried => Tried'
  BY <1>1, <1>2 DEF Tried
<1>4. (Greedy!ResultIsAChain)' = Greedy!ResultIsAChain
  BY <1>1 DEF Greedy!ResultIsAChain, Greedy!Placed
<1>5. (Greedy!GreedyIsMinimal)' = Greedy!GreedyIsMinimal
  BY <1>1 DEF Greedy!GreedyIsMinimal
<1> QED
  BY <1>1, <1>2, <1>3, <1>4, <1>5 DEF GreedyInv, GreedyIsAShortestChain

\* Before either placement has begun.
LEMMA GreedyInitially == PlacementInit => GreedyInv
<1> SUFFICES ASSUME PlacementInit PROVE GreedyInv
  OBVIOUS
<1>1. problem \in Problems /\ fpc = "start" /\ current = 0
  BY DEF PlacementInit, Init, Greedy!Called
<1>2. GreedyIsAShortestChain
  BY <1>1 DEF GreedyIsAShortestChain, Greedy!ResultIsAChain, Greedy!Placed,
              Greedy!GreedyIsMinimal
<1> QED
  BY <1>1, <1>2 DEF GreedyInv

\* Each step of either.
LEMMA GreedyGoesOn == GreedyInv /\ [PlacementNext]_placementVars => GreedyInv'
<1> SUFFICES ASSUME GreedyInv, [PlacementNext]_placementVars PROVE GreedyInv'
  OBVIOUS
<1>1. CASE UNCHANGED placementVars
  BY <1>1, GreedyRests DEF placementVars, vars, greedyVars
<1>2. CASE PlacesDynamically
  <2>1. problem' = problem
    BY <1>2, ProblemConstant DEF PlacesDynamically
  <2> QED
    BY <1>2, <2>1, GreedyRests DEF PlacesDynamically, greedyVars
<1>3. CASE PlacesGreedily
  <2>1. CASE Greedy!HostCancels
    BY <2>1, GreedyRests DEF Greedy!HostCancels
  <2>2. CASE Greedy!Returned
    BY <2>2, GreedyRests DEF Greedy!Returned, Greedy!vars
  <2>3. CASE Greedy!Place
    BY <2>3, GreedyEarlyReturns, GreedyStarts, GreedyTries, GreedyAccepts,
       GreedyGivesUp, GreedyArrives DEF Greedy!Place
  <2> QED
    BY <1>3, <2>1, <2>2, <2>3 DEF PlacesGreedily, Greedy!Next
<1> QED
  BY <1>1, <1>2, <1>3 DEF PlacementNext

\* For every table of fits a converged greedy placement is a chain of legal
\* segments that agree on the keys between them; where fits are exact and every
\* part of a feasible segment is feasible, never looking back costs no key, and
\* it gives up only where there is no chain (RunForwardLongestSpanPlacement).
THEOREM GreedyIsShortest == PlacementSpec => []GreedyIsAShortestChain
<1>1. GreedyInv => GreedyIsAShortestChain
  BY DEF GreedyInv
<1> QED
  BY <1>1, GreedyInitially, GreedyGoesOn, PTL DEF PlacementSpec
==============================================================================
