--------------------------- MODULE TargetLadderLoop ---------------------------
(***************************************************************************)
(* BuildShapeFlatReplacementTargetLadder as the code runs it, one rung per *)
(* turn of the loop, for comparison with the progression in TargetLadders. *)
(***************************************************************************)
EXTENDS TargetLadders

\* push_unique.
Pushed(targets, target, last) ==
  IF target <= 0 \/ target > last THEN targets
  ELSE IF targets # <<>> /\ targets[Len(targets)] = target THEN targets
  ELSE Append(targets, target)

\* The state of the loop after each turn; more is what the break leaves.
Turns(first, last, step, budget) ==
  LET turn[k \in 0 .. budget] ==
        IF k = 0 THEN [current |-> first, targets |-> <<>>, more |-> TRUE]
        ELSE LET s == turn[k - 1]
             IN IF ~s.more \/ s.current > last \/ Len(s.targets) >= budget THEN s
                ELSE [current |-> IF s.current > last - step THEN s.current
                                  ELSE s.current + step,
                      targets |-> Pushed(s.targets, s.current, last),
                      more |-> s.current <= last - step]
  IN turn

LoopTargets(initial, sourceMin, options) ==
  LET last == MaxTarget(sourceMin, options.maximum)
      first == FirstTarget(initial, options)
      budget == Larger(1, options.candidates)
      built == Turns(first, last, Larger(1, options.step), budget)[budget].targets
  IN IF initial <= 0 \/ sourceMin <= 1 \/ first > last THEN <<>>
     ELSE IF ~options.top \/ built = <<>> \/ built[Len(built)] = last THEN built
     ELSE IF Len(built) < budget THEN Pushed(built, last, last)
     ELSE [built EXCEPT ![Len(built)] = last]

\* path_replacement_target_ladder.cpp:4 "Every returned value is <
\* source_min_vertices": and none is below what was asked for, each is above
\* the one before, and there are no more than the budget allows.
BoundedReduction(targets, initial, sourceMin, options) ==
  /\ Len(targets) <= Larger(1, options.candidates)
  /\ \A k \in DOMAIN targets :
       /\ targets[k] < sourceMin
       /\ options.maximum > 0 => targets[k] <= options.maximum
       /\ targets[k] >= initial /\ targets[k] >= options.minimum
       /\ \A j \in DOMAIN targets : j < k => targets[j] < targets[k]
==============================================================================
