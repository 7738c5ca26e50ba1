-------------------------- MODULE PlacementProblem --------------------------
(***************************************************************************)
(* What a key placement is given: the samples of one property and the      *)
(* segments that could join two of them.  The numeric fit is a table: for  *)
(* each pair (i, k), is there a segment within tolerance, which key values *)
(* does it want at its ends, and how large is its error, counted in units  *)
(* of the 10^-12 tie width.                                                *)
(***************************************************************************)
EXTENDS Integers, Sequences

CONSTANTS
  Problems,      \* the placement problems explored
  Values         \* key values, equal when within 10^-7 of one another

FitResult == [feasible : BOOLEAN, start : Values, end : Values, err : Nat]

\* n samples; constant: holds are allowed and every sample is within tolerance
\* of the first; gap: the longest segment; widen: the caller gave no gap of its
\* own, so that the placement may look further.
IsProblem(p) ==
  /\ p.n \in Nat /\ p.gap \in Nat \ {0}
  /\ p.constant \in BOOLEAN /\ p.widen \in BOOLEAN
  /\ p.sample \in [0 .. p.n - 1 -> Values]
  /\ p.fit \in [(0 .. p.n - 1) \X (0 .. p.n - 1) -> FitResult]

ASSUME ProblemAssumption == \A p \in Problems : IsProblem(p)

VARIABLE problem      \* the arguments of the call

n == problem.n
Fit(i, k) == problem.fit[<<i, k>>]

\* Two neighbouring segments agree on the key between them.
Agree(a, b, c) == Fit(a, b).end = Fit(b, c).start

\* Every fit keeps the sample values as key values at both ends.
Exact ==
  \A i, k \in 0 .. n - 1 :
    Fit(i, k).start = problem.sample[i] /\ Fit(i, k).end = problem.sample[k]

\* Every part of a feasible segment is feasible.
Hereditary ==
  \A a, d \in 0 .. n - 1 : Fit(a, d).feasible =>
    \A b \in a .. d : \A c \in b + 1 .. d : Fit(b, c).feasible

AllSamples == [k \in 1 .. n |-> k - 1]
==============================================================================
