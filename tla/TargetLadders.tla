---------------------------- MODULE TargetLadders ----------------------------
(***************************************************************************)
(* The vertex counts a path replacement tries, in order.                   *)
(***************************************************************************)
EXTENDS Integers, Sequences, FiniteSets

Larger(a, b) == IF a >= b THEN a ELSE b
Smaller(a, b) == IF a <= b THEN a ELSE b

\* The highest legal target: below the source, and below the configured
\* maximum if there is one (0 is none).
MaxTarget(sourceMin, maximum) ==
  IF maximum > 0 THEN Smaller(sourceMin - 1, maximum) ELSE sourceMin - 1

FirstTarget(initial, options) == Larger(initial, Larger(0, options.minimum))

\* How many rungs fit from first to last, within the budget.
Rungs(first, last, options) ==
  Smaller(Larger(1, options.candidates),
          (last - first) \div Larger(1, options.step) + 1)

\* BuildShapeFlatReplacementTargetLadder: an arithmetic progression, and the
\* highest legal target as its end: as one more rung if the budget has room,
\* else in place of the last.
ShapeFlatTargets(initial, sourceMin, options) ==
  LET last == MaxTarget(sourceMin, options.maximum)
      first == FirstTarget(initial, options)
      count == Rungs(first, last, options)
      rungs == [k \in 1 .. count |-> first + (k - 1) * Larger(1, options.step)]
  IN IF initial <= 0 \/ sourceMin <= 1 \/ first > last THEN << >>
     ELSE IF ~options.top \/ rungs[count] = last THEN rungs
     ELSE IF count < Larger(1, options.candidates) THEN Append(rungs, last)
     ELSE [k \in 1 .. count |-> IF k = count THEN last ELSE rungs[k]]

\* BuildShapeFlatReplacementRetryTargetLadder.
RetryTargets(fitted, sourceMin, minimum, maximum) ==
  ShapeFlatTargets(fitted, sourceMin,
    [minimum |-> Larger(minimum, fitted), maximum |-> maximum,
     step |-> 2, candidates |-> 10, top |-> TRUE])

\* The targets from low to high in steps of two, and high itself.
LowTargets(low, high) ==
  IF low > high THEN {}
  ELSE {t \in low .. high : (t - low) % 2 = 0} \cup {high}

Ascending(S) ==
  [k \in 1 .. Cardinality(S) |->
     CHOOSE t \in S : Cardinality({u \in S : u < t}) = k - 1]

\* BuildReplacementTargetLadder: what the automatic fit found and the counts
\* from 10 to 18 above it, ascending; sources of different vertex counts may
\* keep the minimum of their counts.  The automatic fit comes first either way,
\* because the low targets start at it.
ReplacementTargets(autoMax, sourceMin, sourceMax, minimum, maximum) ==
  LET last == MaxTarget(IF sourceMax > sourceMin THEN sourceMax ELSE sourceMin,
                        maximum)
      least == Larger(minimum, 0)
      auto == Larger(Smaller(autoMax, last), least)
      low == LowTargets(Larger(10, auto), Smaller(18, last))
  IN IF sourceMin <= 1 \/ last <= 0 \/ (least > 0 /\ least > last) THEN << >>
     ELSE Ascending({t \in low \cup {auto} : t > 0})
==============================================================================
