--------------------------- MODULE PropertyPlacement ---------------------------
(***************************************************************************)
(* The placement of SolveProperty: the dynamic program, or by              *)
(* placement_strategy the greedy one in its stead.  Both are given the     *)
(* same samples and the same fits.                                         *)
(***************************************************************************)
EXTENDS DPPlacement

VARIABLES
  strategy,      \* cfg.placement_strategy
  fpc, current, span, value, fanchors, fout, fcancelFile

Greedy == INSTANCE ForwardPlacement WITH
  pc <- fpc, anchors <- fanchors, out <- fout, cancelFile <- fcancelFile

Strategies == {"dp", "forward_longest_span"}

dpVars == <<pc, j, taskVars, next, arrays, anchors, out, cancelFile>>
greedyVars == <<fpc, current, span, value, fanchors, fout, fcancelFile>>
placementVars == <<vars, strategy, greedyVars>>

PlacementInit == Init /\ Greedy!Called /\ strategy \in Strategies

PlacesDynamically ==
  strategy = "dp" /\ Next /\ UNCHANGED <<strategy, greedyVars>>

PlacesGreedily ==
  strategy = "forward_longest_span" /\ Greedy!Next /\ UNCHANGED <<strategy, dpVars>>

PlacementNext == PlacesDynamically \/ PlacesGreedily

PlacementSpec == PlacementInit /\ [][PlacementNext]_placementVars

\* The greedy placement's result is a chain too, whose segments agree on the
\* keys between them, and where every part of a feasible segment is feasible
\* there is no shorter one.
GreedyIsAShortestChain == Greedy!ResultIsAChain /\ Greedy!GreedyIsMinimal
==============================================================================
