----------------------------- MODULE MCPlacement -----------------------------
(***************************************************************************)
(* Both placements over small problems: the dynamic program, or the greedy *)
(* one in its stead, over every table of fits on a few samples.            *)
(***************************************************************************)
EXTENDS PropertyPlacement

------------------------------------------------------------------------------
Pairs(size) == (0 .. size - 1) \X (0 .. size - 1)
Forward(size) == {p \in Pairs(size) : p[1] < p[2]}

Infeasible == [feasible |-> FALSE, start |-> "sample", end |-> "sample",
               err |-> 0]
ExactFit(e) == [Infeasible EXCEPT !.feasible = TRUE, !.err = e]
RelaxedFit == [ExactFit(0) EXCEPT !.start = "moved", !.end = "moved"]
LandingFit == [ExactFit(0) EXCEPT !.end = "moved"]

\* Every assignment of these results to the pairs i < j.
Tables(size, fits) ==
  {[p \in Pairs(size) |-> IF p \in Forward(size) THEN t[p] ELSE Infeasible] :
     t \in [Forward(size) -> fits]}

Instances(size, isConstant, gaps, widens, fits) ==
  {[n |-> size, constant |-> isConstant, gap |-> g, widen |-> w, fit |-> f,
    sample |-> [i \in 0 .. size - 1 |-> "sample"]] :
     g \in gaps, w \in widens, f \in Tables(size, fits)}

MCValues == {"sample", "moved"}

Tiny == UNION {Instances(size, isConstant, {1}, {TRUE}, {Infeasible, ExactFit(0)}) :
                 size \in 0 .. 2, isConstant \in BOOLEAN}

\* Windows shorter than the clip, the last one widened or not; two errors far
\* enough apart to rank, two close enough to tie.
ExactProblems ==
  Instances(4, FALSE, {2}, BOOLEAN, {Infeasible, ExactFit(0), ExactFit(2)})

TieProblems ==
  Instances(4, FALSE, {3}, {FALSE}, {ExactFit(0), ExactFit(1), ExactFit(3)})

\* Relaxed fits move the key values at both ends, landing fits at one.
RelaxedProblems ==
  Instances(4, FALSE, {3}, {FALSE}, {Infeasible, ExactFit(0), RelaxedFit})

LandingProblems ==
  Instances(4, FALSE, {2}, BOOLEAN, {Infeasible, ExactFit(0), RelaxedFit, LandingFit})

\* Five samples, with tables that do and do not have the hereditary property.
LongProblems == Instances(5, FALSE, {3}, {FALSE}, {Infeasible, ExactFit(0)})

MCProblems == Tiny \cup ExactProblems \cup TieProblems \cup RelaxedProblems
              \cup LandingProblems \cup LongProblems

\* The dynamic program, with its interleavings, is spared the last two families.
ForGreedyOnly ==
  \/ n = 5
  \/ \E p \in DOMAIN problem.fit : problem.fit[p].start # problem.fit[p].end

\* The greedy placement does not look at errors.
ForDynamicOnly == \E p \in DOMAIN problem.fit : problem.fit[p].err > 0

------------------------------------------------------------------------------
MCInit ==
  /\ PlacementInit
  /\ ForGreedyOnly => strategy = "forward_longest_span"
  /\ ForDynamicOnly => strategy = "dp"

MCSpec == MCInit /\ [][PlacementNext]_placementVars
==============================================================================
