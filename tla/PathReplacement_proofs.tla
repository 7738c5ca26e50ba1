----------------------- MODULE PathReplacement_proofs -----------------------
(***************************************************************************)
(* What a replacement may leave behind, for every source path, every       *)
(* ladder and every outcome of the solvers: never more keys than the       *)
(* baseline, never an invalid outcome in place of a valid one, and accepted *)
(* keys that are validated and belong to their samples.                    *)
(***************************************************************************)
EXTENDS PathReplacement, TargetLadderLoop, FiniteSetTheorems, TLAPS

AnySolve == Solves(Nat, Nat)
IsKeys(k) == k.solve \in AnySolve /\ k = Of(k.solve, k.vertices)

Results == [end : {"running", "unfitted", "cancelled", "fallback", "accepted"},
            accepted : BOOLEAN, fast : BOOLEAN]

\* What the properties need to know of the data.
DataOK ==
  /\ path \in PathSpace
  /\ IsKeys(keys) /\ IsKeys(baseline)
  /\ outcome \in Results

\* Until the end nothing is accepted, and the keys that are being judged are
\* those of the samples at hand.
Undecided ==
  /\ pc # "done" => outcome = Pending
  /\ pc = "solve" => fit = samples /\ samples = fitted
  /\ pc \in {"fast", "baseline", "accept"} =>
       keys.vertices = samples /\ samples = fitted
  /\ pc = "accept" => Verdict(keys.solve, fitted, baseline.solve)

\* A target that keeps to the configured numbers of vertices.
Within(target) ==
  /\ target >= path.minimum
  /\ path.maximum > 0 => target <= path.maximum

AllWithin(sequence) == \A k \in 1 .. Len(sequence) : Within(sequence[k])

\* Every target still to be tried keeps to the bounds; a retry raises the
\* minimum it passes on, so those of the retries must too.
LaddersInv ==
  /\ TypeOK
  /\ AllWithin(targets) /\ AllWithin(retryTargets)
  /\ FitsWithinConfiguredVertices

IInv == DataOK /\ Undecided /\ NeverRegresses /\ AcceptedIsValidated
------------------------------------------------------------------------------
(***************************************************************************)
(* The gates.                                                              *)
(***************************************************************************)
LEMMA SummaryType ==
  ASSUME NEW s \in AnySolve, NEW options
  PROVE  /\ Summarized(s, options) \in AnySolve
         /\ Applied(s, options) \in AnySolve
<1>1. OutlineOk(s, options) \in BOOLEAN
  BY DEF OutlineOk, AnySolve, Solves
<1>2. Summarized(s, options) \in AnySolve
  BY <1>1 DEF Summarized, AnySolve, Solves
<1> QED
  BY <1>2 DEF Applied

\* What the summary and what is written to the keys have in common.
LEMMA SummaryFields ==
  ASSUME NEW s \in AnySolve, NEW options,
         Summarized(s, options).converged
  PROVE  LET u == Summarized(s, options)
             a == Applied(s, options)
         IN /\ a.count = u.count /\ a.err = u.err /\ a.converged
            /\ u.sharp /\ a.sharp
            /\ u.checked = s.checked /\ a.checked = s.checked
            /\ s.checked => /\ a.err = a.outline /\ u.err = u.outline
                            /\ OutlineOk(a, options) /\ OutlineOk(u, options)
BY DEF Summarized, Applied, OutlineOk, AnySolve, Solves

\* A candidate that is used has converged, has no more keys than the original,
\* and is valid if the original is.
LEMMA UsesCandidateNeverRegresses ==
  ASSUME NEW c \in AnySolve, NEW o \in AnySolve, NEW fitted_, NEW source,
         NEW options, UsesCandidate(c, fitted_, o, source, options)
  PROVE  /\ c.converged /\ c.count <= o.count
         /\ IsValid(o, options) => IsValid(c, options)
<1>1. c.count \in Nat /\ o.count \in Nat
  BY DEF AnySolve, Solves
<1>2. CASE ~IsValid(o, options)
  BY <1>2 DEF UsesCandidate, IsValid
<1>3. CASE IsValid(o, options)
  BY <1>1, <1>3 DEF UsesCandidate, IsValid
<1> QED
  BY <1>2, <1>3

\* The same of the keys that go out after such a verdict.
LEMMA VerdictNeverRegresses ==
  ASSUME NEW s \in AnySolve, NEW o \in AnySolve, NEW count,
         Verdict(s, count, o)
  PROVE  LET a == Applied(s, path)
         IN /\ a.count <= o.count
            /\ IsValid(o, path) => IsValid(a, path)
            /\ a.sharp /\ a.converged
            /\ a.checked => a.err = a.outline /\ OutlineOk(a, path)
<1>1. Summarized(s, path) \in AnySolve
  BY SummaryType
<1>2. /\ Summarized(s, path).converged
      /\ Summarized(s, path).count <= o.count
      /\ IsValid(o, path) => IsValid(Summarized(s, path), path)
  BY <1>1, UsesCandidateNeverRegresses DEF Verdict
<1> QED
  BY <1>2, SummaryFields DEF IsValid
------------------------------------------------------------------------------
(***************************************************************************)
(* The ladders.                                                            *)
(***************************************************************************)

\* A rung is at least the first and at most the last target, and above the
\* rungs before it.
LEMMA RungsBetween ==
  ASSUME NEW first \in Int, NEW last \in Int, first <= last,
         NEW step \in Nat \ {0}, NEW budget \in Nat \ {0}
  PROVE  LET count == Smaller(budget, (last - first) \div step + 1)
         IN /\ count \in 1 .. budget
            /\ \A k \in 1 .. count :
                 /\ first + (k - 1) * step \in first .. last
                 /\ \A j \in 1 .. k - 1 :
                      first + (j - 1) * step < first + (k - 1) * step
<1> DEFINE q == (last - first) \div step
           count == Smaller(budget, q + 1)
<1>1. last - first \in Nat
  OBVIOUS
<1>2. q \in Nat /\ q * step <= last - first
  BY <1>1
<1>3. count \in 1 .. budget /\ count <= q + 1
  <2> HIDE DEF q
  <2> QED
    BY <1>2 DEF Smaller
<1>4. \A a, b, c \in Int : c > 0 /\ a <= b => a * c <= b * c
  OBVIOUS
<1>5. \A a, b, c \in Int : c > 0 /\ a < b => a * c < b * c
  OBVIOUS
<1>6. \A k \in 1 .. count :
        /\ (k - 1) * step \in Nat /\ (k - 1) * step <= q * step
        /\ \A j \in 1 .. k - 1 :
             (j - 1) * step \in Int /\ (j - 1) * step < (k - 1) * step
  <2> HIDE DEF q, count
  <2> TAKE k \in 1 .. count
  <2>1. k - 1 \in Nat /\ k - 1 <= q
    BY <1>2, <1>3
  <2>2. (k - 1) * step <= q * step
    BY <1>2, <1>4, <2>1
  <2>3. (k - 1) * step \in Nat
    BY <2>1
  <2>4. \A j \in 1 .. k - 1 :
          (j - 1) * step \in Int /\ (j - 1) * step < (k - 1) * step
    BY <1>5, <2>1
  <2> QED
    BY <2>2, <2>3, <2>4
<1>7. \A k \in 1 .. count :
        /\ first + (k - 1) * step \in first .. last
        /\ \A j \in 1 .. k - 1 :
             first + (j - 1) * step < first + (k - 1) * step
  <2> HIDE DEF q, count
  <2> TAKE k \in 1 .. count
  <2>1. PICK x \in Nat : x = (k - 1) * step /\ x <= q * step
    BY <1>6
  <2>2. PICK y \in Int : y = q * step /\ y <= last - first
    BY <1>2
  <2>3. first + x \in first .. last
    BY <2>1, <2>2
  <2>4. ASSUME NEW j \in 1 .. k - 1
        PROVE  first + (j - 1) * step < first + (k - 1) * step
    <3>1. PICK z \in Int : z = (j - 1) * step /\ z < x
      BY <1>6, <2>1
    <3> QED
      BY <2>1, <3>1
  <2> QED
    BY <2>1, <2>3, <2>4
<1> QED
  BY <1>3, <1>7

Options == [minimum : Int, maximum : Int, step : Int, candidates : Int,
            top : BOOLEAN]

\* path_replacement_target_ladder.cpp:4 "Every returned value is <
\* source_min_vertices": whatever it is asked for, the ladder of a retry is
\* strictly ascending, keeps to its budget, and each of its targets takes
\* vertices away without passing the bounds.
THEOREM LaddersReduce ==
  ASSUME NEW initial \in Int, NEW sourceMin \in Int, NEW options \in Options
  PROVE  /\ ShapeFlatTargets(initial, sourceMin, options) \in Seq(Nat)
         /\ BoundedReduction(ShapeFlatTargets(initial, sourceMin, options),
                             initial, sourceMin, options)
<1> DEFINE last == MaxTarget(sourceMin, options.maximum)
           first == FirstTarget(initial, options)
           step == Larger(1, options.step)
           budget == Larger(1, options.candidates)
           count == Smaller(budget, (last - first) \div step + 1)
           rungs == [k \in 1 .. count |-> first + (k - 1) * step]
           ladder == ShapeFlatTargets(initial, sourceMin, options)
<1>1. /\ last \in Int /\ last < sourceMin
      /\ options.maximum > 0 => last <= options.maximum
  BY DEF MaxTarget, Smaller, Options
<1>2. first \in Nat /\ first >= initial /\ first >= options.minimum
  BY DEF FirstTarget, Larger, Options
<1>3. step \in Nat \ {0} /\ budget \in Nat \ {0}
  BY DEF Larger, Options
<1>4. count = Rungs(first, last, options)
  BY DEF Rungs
<1>5. CASE initial <= 0 \/ sourceMin <= 1 \/ first > last
  <2>1. ladder = <<>>
    BY <1>5 DEF ShapeFlatTargets
  <2> QED
    BY <1>3, <2>1 DEF BoundedReduction
<1>6. CASE ~(initial <= 0 \/ sourceMin <= 1 \/ first > last)
  <2> DEFINE Good(f, n) ==
        /\ n \in 1 .. budget
        /\ f \in [1 .. n -> Nat]
        /\ \A k \in 1 .. n :
             /\ f[k] >= first /\ f[k] <= last
             /\ \A j \in 1 .. n : j < k => f[j] < f[k]
  <2>1. ladder = IF ~options.top \/ rungs[count] = last THEN rungs
                 ELSE IF count < budget THEN Append(rungs, last)
                 ELSE [k \in 1 .. count |-> IF k = count THEN last ELSE rungs[k]]
    BY <1>4, <1>6 DEF ShapeFlatTargets
  <2>2. /\ count \in 1 .. budget
        /\ \A k \in 1 .. count :
             /\ first + (k - 1) * step \in first .. last
             /\ \A j \in 1 .. k - 1 :
                  first + (j - 1) * step < first + (k - 1) * step
    <3>1. first \in Int /\ last \in Int /\ first <= last
      BY <1>1, <1>2, <1>6
    <3> HIDE DEF first, last, step, budget
    <3> QED
      BY <1>3, <3>1, RungsBetween
  <2>3. \A k \in 1 .. count : rungs[k] = first + (k - 1) * step
    OBVIOUS
  <2> HIDE DEF first, last, step, budget, count, rungs, ladder
  <2>4. \A k \in 1 .. count :
          /\ rungs[k] \in Nat /\ rungs[k] >= first /\ rungs[k] <= last
          /\ \A j \in 1 .. count : j < k => rungs[j] < rungs[k]
    BY <1>1, <1>2, <2>2, <2>3
  <2>5. rungs = [k \in 1 .. count |-> rungs[k]] /\ count \in Nat
    BY <2>2 DEF rungs
  <2>6. rungs \in [1 .. count -> Nat]
    BY <2>4, <2>5
  <2>7. Good(rungs, count)
    BY <2>2, <2>4, <2>6
  <2>8. last \in Nat /\ budget \in Nat
    BY <1>1, <1>2, <1>3, <1>6
  <2>9. ASSUME rungs[count] # last, count < budget
        PROVE  Good(Append(rungs, last), count + 1)
    <3>1. rungs \in Seq(Nat) /\ Len(rungs) = count
      BY <2>5, <2>6
    <3>2. /\ Append(rungs, last) \in [1 .. count + 1 -> Nat]
          /\ \A k \in 1 .. count : Append(rungs, last)[k] = rungs[k]
          /\ Append(rungs, last)[count + 1] = last
      <4>1. Append(rungs, last) \in Seq(Nat)
            /\ Len(Append(rungs, last)) = count + 1
        BY <2>8, <3>1
      <4>2. \A t \in Seq(Nat) : t \in [1 .. Len(t) -> Nat]
        OBVIOUS
      <4>3. Append(rungs, last) \in [1 .. count + 1 -> Nat]
        BY <4>1, <4>2
      <4>4. \A k \in 1 .. count : Append(rungs, last)[k] = rungs[k]
        BY <2>8, <3>1
      <4>5. Append(rungs, last)[count + 1] = last
        BY <2>8, <3>1
      <4> QED
        BY <4>3, <4>4, <4>5
    <3>3. \A k \in 1 .. count : rungs[k] < last
      BY <1>1, <2>2, <2>4, <2>8, <2>9
    <3>4. \A k \in 1 .. count + 1 : k \in 1 .. count \/ k = count + 1
      BY <2>5
    <3>5. count + 1 \in 1 .. budget
      BY <2>2, <2>8, <2>9
    <3> QED
      BY <1>1, <1>2, <1>6, <2>4, <2>5, <3>2, <3>3, <3>4, <3>5
  <2>10. ASSUME rungs[count] # last
         PROVE  Good([k \in 1 .. count |-> IF k = count THEN last ELSE rungs[k]],
                     count)
    <3> DEFINE f == [k \in 1 .. count |-> IF k = count THEN last ELSE rungs[k]]
    <3>1. f \in [1 .. count -> Nat]
      BY <2>4, <2>8
    <3>2. /\ f[count] = last
          /\ \A k \in 1 .. count : k # count => f[k] = rungs[k]
      BY <2>2, <2>5
    <3>3. \A k \in 1 .. count : k # count => rungs[k] < last
      BY <1>1, <2>2, <2>4, <2>8, <2>10
    <3> HIDE DEF f
    <3> QED
      BY <1>1, <1>2, <1>6, <2>2, <2>4, <2>8, <3>1, <3>2, <3>3
  <2>11. \E n \in Nat : Good(ladder, n)
    <3>1. CASE ~options.top \/ rungs[count] = last
      BY <2>1, <2>5, <2>7, <3>1
    <3>2. CASE ~(~options.top \/ rungs[count] = last) /\ count < budget
      <4>1. ladder = Append(rungs, last) /\ count + 1 \in Nat
        BY <2>1, <2>5, <3>2
      <4> HIDE DEF Good
      <4> QED
        BY <2>9, <3>2, <4>1
    <3>3. CASE ~(~options.top \/ rungs[count] = last) /\ ~(count < budget)
      <4>1. ladder = [k \in 1 .. count |-> IF k = count THEN last ELSE rungs[k]]
        BY <2>1, <3>3
      <4> HIDE DEF Good
      <4> QED
        BY <2>5, <2>10, <3>3, <4>1
    <3> QED
      BY <3>1, <3>2, <3>3
  <2>12. PICK n \in Nat : Good(ladder, n)
    BY <2>11
  <2>13. ladder \in Seq(Nat) /\ Len(ladder) = n /\ DOMAIN ladder = 1 .. n
    BY <2>12
  <2>14. sourceMin \in Int /\ options.maximum \in Int /\ options.minimum \in Int
    BY DEF Options
  <2>15. Len(ladder) <= budget
    BY <2>8, <2>12, <2>13
  <2>16. ASSUME NEW k \in DOMAIN ladder
         PROVE  /\ ladder[k] < sourceMin
                /\ options.maximum > 0 => ladder[k] <= options.maximum
                /\ ladder[k] >= initial /\ ladder[k] >= options.minimum
                /\ \A j \in DOMAIN ladder : j < k => ladder[j] < ladder[k]
    <3>1. /\ ladder[k] \in Nat /\ ladder[k] >= first /\ ladder[k] <= last
          /\ \A j \in DOMAIN ladder : j < k => ladder[j] < ladder[k]
      BY <2>12, <2>13
    <3> QED
      BY <1>1, <1>2, <2>8, <2>14, <3>1
  <2> QED
    BY <2>13, <2>15, <2>16 DEF BoundedReduction, budget, ladder
<1> QED
  BY <1>5, <1>6

LEMMA SmallestElement ==
  ASSUME NEW T, T \subseteq Nat, T # {}
  PROVE  \E x \in T : \A y \in T : x <= y
<1> DEFINE R == OpToRel(<, Nat)
<1>1. IsWellFoundedOn(R, Nat)
  BY NatLessThanWellFounded
<1>2. PICK x \in T : \A y \in T : ~(<<y, x>> \in R)
  <2> HIDE DEF R
  <2> QED
    BY <1>1, WFMin
<1>3. \A y \in T : y < x => <<y, x>> \in R
  BY DEF OpToRel
<1>4. \A y \in T : ~(y < x)
  <2> HIDE DEF R
  <2> QED
    BY <1>2, <1>3
<1>5. x \in Nat /\ \A y \in T : y \in Nat
  OBVIOUS
<1> HIDE DEF R
<1> QED
  BY <1>4, <1>5

\* Induction up to n, over the set of the numbers something holds of.
LEMMA IntervalInduction ==
  ASSUME NEW n \in Nat, NEW S, 0 \in S,
         \A i \in 0 .. n - 1 : i \in S => i + 1 \in S
  PROVE  0 .. n \subseteq S
<1> DEFINE T == {i \in 0 .. n : i \notin S}
<1> SUFFICES ASSUME T # {} PROVE FALSE
  OBVIOUS
<1>1. T \subseteq Nat
  OBVIOUS
<1>2. PICK x \in T : \A y \in T : x <= y
  <2> HIDE DEF T
  <2> QED
    BY <1>1, SmallestElement
<1>3. x # 0 /\ x - 1 \in 0 .. n - 1
  OBVIOUS
<1>4. x - 1 \in S
  BY <1>2, <1>3
<1> QED
  BY <1>3, <1>4

\* The ascending sequence of a set has the elements of the set.
LEMMA AscendingElements ==
  ASSUME NEW S, S \subseteq Nat, IsFiniteSet(S)
  PROVE  Ascending(S) \in Seq(S)
<1> DEFINE Below(t) == {u \in S : u < t}
           n == Cardinality(S)
           Ranks == {j \in Nat : \E t \in S : Cardinality(Below(t)) = j}
<1>1. n \in Nat /\ \A t \in S : t \in Nat
  BY FS_CardinalityType
<1>2. \A T : T \subseteq S => IsFiniteSet(T)
  BY FS_Subset
<1>3. ASSUME n > 0 PROVE 0 \in Ranks
  <2>1. S # {}
    BY <1>3, FS_EmptySet
  <2>2. PICK x \in S : \A y \in S : x <= y
    BY <2>1, SmallestElement
  <2>3. Below(x) = {}
    <3> SUFFICES ASSUME NEW u \in Below(x) PROVE FALSE
      OBVIOUS
    <3>1. u \in S /\ u < x /\ x <= u /\ u \in Nat /\ x \in Nat
      BY <1>1, <2>2
    <3> QED
      BY <3>1
  <2> QED
    BY <2>3, FS_EmptySet
<1>4. ASSUME NEW i \in 0 .. n - 2, i \in Ranks PROVE i + 1 \in Ranks
  <2>1. PICK t \in S : Cardinality(Below(t)) = i
    BY <1>4
  <2> DEFINE Above == {u \in S : u > t}
             Upto == Below(t) \cup {t}
  <2>2. IsFiniteSet(Below(t)) /\ t \notin Below(t)
    BY <1>1, <1>2
  <2>3. IsFiniteSet(Upto) /\ Cardinality(Upto) = i + 1
    <3> HIDE DEF Below
    <3> QED
      BY <2>1, <2>2, FS_AddElement
  <2>4. Above # {}
    <3> SUFFICES ASSUME Above = {} PROVE FALSE
      OBVIOUS
    <3>1. \A u \in S : u < t \/ u = t
      BY <1>1
    <3>2. S = Upto
      BY <3>1
    <3>3. n = i + 1
      BY <2>3, <3>2
    <3> QED
      BY <1>1, <1>4, <3>3
  <2>5. Above \subseteq Nat
    BY <1>1
  <2>6. PICK x \in Above : \A y \in Above : x <= y
    <3> HIDE DEF Above
    <3> QED
      BY <2>4, <2>5, SmallestElement
  <2>7. \A u \in S : u < x <=> (u < t \/ u = t)
    BY <1>1, <2>6
  <2>8. Below(x) = Upto
    BY <2>7
  <2>9. x \in S /\ Cardinality(Below(x)) = i + 1 /\ i + 1 \in Nat
    BY <1>4, <2>3, <2>6, <2>8
  <2> QED
    BY <2>9
<1>5. \A k \in 1 .. n : k - 1 \in Ranks
  <2> SUFFICES ASSUME n > 0 PROVE \A k \in 1 .. n : k - 1 \in Ranks
    BY <1>1
  <2>1. n - 1 \in Nat /\ 0 \in Ranks
    BY <1>1, <1>3
  <2>2. \A i \in 0 .. (n - 1) - 1 : i \in Ranks => i + 1 \in Ranks
    <3> HIDE DEF n, Ranks
    <3>1. \A i \in 0 .. (n - 1) - 1 : i \in 0 .. n - 2
      BY <1>1
    <3> QED
      BY <1>4, <3>1
  <2>3. 0 .. n - 1 \subseteq Ranks
    <3> HIDE DEF n, Ranks
    <3> QED
      BY <2>1, <2>2, IntervalInduction
  <2> HIDE DEF n, Ranks
  <2>4. \A k \in 1 .. n : k - 1 \in 0 .. n - 1
    BY <1>1
  <2> QED
    BY <2>3, <2>4
<1> DEFINE At(k) == CHOOSE t \in S : Cardinality(Below(t)) = k - 1
<1>6. \A k \in 1 .. n : At(k) \in S
  <2> TAKE k \in 1 .. n
  <2>1. \E t \in S : Cardinality(Below(t)) = k - 1
    BY <1>5
  <2> QED
    BY <2>1
<1>7. Ascending(S) = [k \in 1 .. n |-> At(k)]
  BY DEF Ascending
<1> HIDE DEF At, n, Below
<1>8. Ascending(S) \in [1 .. n -> S]
  BY <1>6, <1>7
<1> QED
  BY <1>1, <1>8

\* The ladder of a fit keeps to the minimum it is given and to the maximum.
LEMMA TargetsWithin ==
  ASSUME NEW auto \in Nat, NEW least \in Nat, NEW most \in Nat,
         NEW minimum \in Int, NEW maximum \in Int
  PROVE  LET ladder == ReplacementTargets(auto, least, most, minimum, maximum)
         IN /\ ladder \in Seq(Nat)
            /\ \A k \in 1 .. Len(ladder) :
                 /\ ladder[k] >= minimum
                 /\ maximum > 0 => ladder[k] <= maximum
<1> DEFINE last == MaxTarget(IF most > least THEN most ELSE least, maximum)
           floor == Larger(minimum, 0)
           start == Larger(Smaller(auto, last), floor)
           low == LowTargets(Larger(10, start), Smaller(18, last))
           all == {t \in low \cup {start} : t > 0}
           ladder == ReplacementTargets(auto, least, most, minimum, maximum)
           Good == {t \in Nat : t >= minimum /\ (maximum > 0 => t <= maximum)}
<1>1. last \in Int /\ (maximum > 0 => last <= maximum)
  BY DEF MaxTarget, Smaller
<1>2. floor \in Nat /\ floor >= minimum
  BY DEF Larger
<1>3. CASE least <= 1 \/ last <= 0 \/ (floor > 0 /\ floor > last)
  <2>1. ladder = <<>>
    BY <1>3 DEF ReplacementTargets
  <2> QED
    BY <2>1
<1>4. CASE ~(least <= 1 \/ last <= 0 \/ (floor > 0 /\ floor > last))
  <2>1. ladder = Ascending(all)
    BY <1>4 DEF ReplacementTargets
  <2>2. start \in Nat /\ start >= floor /\ start <= last
    BY <1>1, <1>2, <1>4 DEF Larger, Smaller
  <2>3. low \subseteq start .. last
    <3> HIDE DEF start, last
    <3> QED
      BY <1>1, <2>2 DEF LowTargets, Larger, Smaller
  <2>4. all \subseteq start .. last
    <3> HIDE DEF low, start, last
    <3>1. start \in start .. last
      BY <1>1, <2>2
    <3> QED
      BY <2>3, <3>1
  <2>5. start .. last \subseteq Good
    <3> HIDE DEF start, last, floor
    <3> QED
      BY <1>1, <1>2, <2>2
  <2>6. IsFiniteSet(all) /\ all \subseteq Good /\ all \subseteq Nat
    <3> HIDE DEF all, start, last
    <3>1. IsFiniteSet(start .. last) /\ \A t \in start .. last : t \in Nat
      BY <1>1, <2>2, FS_Interval, SMTT(30)
    <3> HIDE DEF Good
    <3> QED
      BY <2>4, <2>5, <3>1, FS_Subset
  <2> HIDE DEF all, ladder, last, floor, start
  <2>7. ladder \in Seq(all)
    BY <2>1, <2>6, AscendingElements
  <2>8. \A T : all \subseteq T => ladder \in Seq(T)
    BY <2>7
  <2>9. ladder \in Seq(Nat) /\ \A k \in 1 .. Len(ladder) : ladder[k] \in Good
    BY <2>6, <2>7, <2>8
  <2> QED
    BY <2>9 DEF ladder
<1> QED
  BY <1>3, <1>4

------------------------------------------------------------------------------
LEMMA InitIInv == ASSUME Init PROVE IInv
<1>1. IsKeys(NoKeys)
  BY DEF NoKeys, IsKeys, Of, AnySolve, Solves
<1>2. Pending \in Results
  BY DEF Pending, Results
<1>3. DataOK
  BY <1>1, <1>2, PathsAssumption DEF Init, DataOK
<1> QED
  BY <1>3 DEF Init, IInv, Undecided, NeverRegresses, AcceptedIsValidated, Pending

\* A step that ends without accepting, or goes on, says nothing that the two
\* properties are about.
LEMMA NothingDecided ==
  ASSUME ~outcome'.accepted, outcome'.end # "fallback", outcome'.end # "accepted"
  PROVE  NeverRegresses' /\ AcceptedIsValidated'
BY DEF NeverRegresses, AcceptedIsValidated

LEMMA FitStep ==
  ASSUME IInv, FitReplacementPathProperty \/ SolveCancelled
  PROVE  IInv'
<1> USE DEF IInv
<1>1. pc # "done" /\ outcome = Pending
  BY DEF FitReplacementPathProperty, ScanSkips, ScanReplacementInitialFrames,
     TargetFits, TargetRejected, NoTargetPassed, SolveCancelled, Undecided
<1>2. UNCHANGED <<path, keys, baseline>>
  BY DEF FitReplacementPathProperty, ScanSkips, ScanReplacementInitialFrames,
     TargetFits, TargetRejected, NoTargetPassed, SolveCancelled, outVars
<1>3. \/ pc' \in {"target", "retry", "solveRetry"} /\ outcome' = Pending
      \/ pc' = "solve" /\ outcome' = Pending /\ fit' = samples' /\ samples' = fitted'
      \/ pc' = "done" /\ \E how \in {"unfitted", "cancelled"} :
                            outcome' = [Pending EXCEPT !.end = how]
  <2>1. CASE ScanSkips
    BY <1>1, <2>1 DEF ScanSkips, Ends
  <2>2. CASE ScanReplacementInitialFrames
    BY <1>1, <2>2 DEF ScanReplacementInitialFrames
  <2>3. CASE TargetFits
    BY <1>1, <2>3 DEF TargetFits
  <2>4. CASE TargetRejected
    BY <1>1, <2>4 DEF TargetRejected
  <2>5. CASE NoTargetPassed
    BY <1>1, <2>5 DEF NoTargetPassed, Ends
  <2>6. CASE SolveCancelled
    BY <1>1, <2>6 DEF SolveCancelled, Ends
  <2> QED
    BY <2>1, <2>2, <2>3, <2>4, <2>5, <2>6 DEF FitReplacementPathProperty
<1>4. DataOK'
  <2>1. \A how \in {"unfitted", "cancelled"} :
          [Pending EXCEPT !.end = how] \in Results
    BY DEF Results, Pending
  <2>2. Pending \in Results
    BY DEF Results, Pending
  <2>3. outcome' \in Results
    BY <1>3, <2>1, <2>2
  <2> QED
    BY <1>2, <2>3 DEF DataOK
<1>5. Undecided'
  BY <1>3 DEF Undecided
<1>6. ~outcome'.accepted /\ outcome'.end # "fallback" /\ outcome'.end # "accepted"
  BY <1>3 DEF Pending
<1> QED
  BY <1>4, <1>5, <1>6, NothingDecided

LEMMA JudgeStep ==
  ASSUME IInv, \/ SolveReplacementTemporal \/ FastVertexPreferenceDeclines
               \/ SolveReplacementBaseline \/ SkipRetry \/ StartRetry
               \/ SolveRetryRejected
  PROVE  IInv'
<1> USE DEF IInv
<1>1. pc # "done" /\ outcome = Pending /\ outcome' = Pending /\ path' = path
  BY DEF SolveReplacementTemporal, FastVertexPreferenceDeclines,
     SolveReplacementBaseline, SkipRetry, StartRetry, SolveRetryRejected,
     Undecided
<1>2. NeverRegresses' /\ AcceptedIsValidated'
  <2>1. ~outcome'.accepted /\ outcome'.end # "fallback" /\ outcome'.end # "accepted"
    BY <1>1 DEF Pending
  <2> QED
    BY <2>1, NothingDecided
<1>3. CASE SolveReplacementTemporal
  <2>1. PICK solve \in KeySolves : keys' = Of(solve, fit)
    BY <1>3 DEF SolveReplacementTemporal
  <2>2. fit = samples /\ samples = fitted
    BY <1>3 DEF SolveReplacementTemporal, Undecided
  <2>3. IsKeys(Of(solve, fit)) /\ Of(solve, fit).vertices = fit
    BY PathsAssumption DEF IsKeys, AnySolve, Of
  <2> QED
    BY <1>1, <1>2, <1>3, <2>1, <2>2, <2>3
       DEF SolveReplacementTemporal, Undecided, DataOK
<1>4. CASE FastVertexPreferenceDeclines
  BY <1>1, <1>2, <1>4
     DEF FastVertexPreferenceDeclines, Undecided, DataOK, outVars
<1>5. CASE SolveReplacementBaseline
  <2>1. PICK solve \in BaselineSolves :
          /\ baseline' = Of(solve, 0)
          /\ pc' = IF Verdict(keys.solve, fitted, solve) THEN "accept" ELSE "retry"
    BY <1>5 DEF SolveReplacementBaseline
  <2>2. UNCHANGED <<keys, samples, fitted>>
    BY <1>5 DEF SolveReplacementBaseline, outVars
  <2>3. IsKeys(Of(solve, 0)) /\ Of(solve, 0).solve = solve
    BY PathsAssumption DEF IsKeys, AnySolve, Of
  <2>4. DataOK'
    BY <1>1, <2>1, <2>2, <2>3 DEF DataOK
  <2>5. pc' = "accept" => Verdict(keys.solve, fitted, solve)
    BY <2>1
  <2>6. Verdict(keys.solve, fitted, baseline.solve)'
          = Verdict(keys.solve, fitted, solve)
    BY <1>1, <2>1, <2>2, <2>3 DEF Verdict
  <2>7. pc = "baseline" /\ pc' \in {"accept", "retry"}
    BY <1>5, <2>1 DEF SolveReplacementBaseline
  <2>8. Undecided'
    BY <1>1, <2>2, <2>5, <2>6, <2>7 DEF Undecided
  <2> QED
    BY <1>2, <2>4, <2>8
<1>6. CASE StartRetry
  BY <1>1, <1>2, <1>6 DEF StartRetry, Undecided, DataOK, outVars
<1>7. CASE SolveRetryRejected
  BY <1>1, <1>2, <1>7 DEF SolveRetryRejected, Undecided, DataOK, outVars
<1>8. CASE SkipRetry
  BY <1>1, <1>2, <1>8 DEF SkipRetry, Undecided, DataOK, outVars
<1> QED
  BY <1>3, <1>4, <1>5, <1>6, <1>7, <1>8

LEMMA AcceptStep ==
  ASSUME IInv, \/ AcceptFastVertexPreference \/ SolveRetryAccepted
               \/ ApplyInitial \/ ApplyFallback
  PROVE  IInv'
<1> USE DEF IInv
<1>1. pc # "done" /\ pc' = "done" /\ outcome = Pending /\ path' = path
      /\ baseline' = baseline
  BY DEF AcceptFastVertexPreference, SolveRetryAccepted, ApplyInitial,
     ApplyFallback, Undecided, Ends
<1>2. Undecided'
  BY <1>1 DEF Undecided
<1>3. IsKeys(keys) /\ IsKeys(baseline) /\ path \in PathSpace
  BY DEF DataOK
<1>4. /\ Accepts \in Results /\ [Accepts EXCEPT !.fast = TRUE] \in Results
      /\ [outcome EXCEPT !.end = "fallback"] \in Results
  BY <1>1 DEF Accepts, Pending, Results
<1>5. CASE AcceptFastVertexPreference
  <2>1. /\ keys' = [keys EXCEPT !.solve = Summarized(keys.solve, path)]
        /\ outcome' = [Accepts EXCEPT !.fast = TRUE]
        /\ UNCHANGED <<samples, fitted>> /\ pc = "fast" /\ Prefers
    BY <1>5 DEF AcceptFastVertexPreference
  <2>2. /\ keys'.solve = Summarized(keys.solve, path)
        /\ keys'.vertices = keys.vertices /\ keys' = Of(keys'.solve, keys'.vertices)
    BY <1>3, <2>1 DEF IsKeys, Of
  <2>3. keys.solve.checked /\ Summarized(keys.solve, path).converged
    BY <2>1 DEF Prefers, PrefersVertices
  <2>4. keys'.solve \in AnySolve
    BY <1>3, <2>2, SummaryType DEF IsKeys
  <2>5. /\ keys'.solve.sharp /\ keys'.solve.converged
        /\ keys'.solve.err = keys'.solve.outline /\ OutlineOk(keys'.solve, path)
    BY <1>3, <2>2, <2>3, SummaryFields DEF IsKeys
  <2>6. DataOK'
    BY <1>1, <1>3, <1>4, <2>1, <2>2, <2>4 DEF DataOK, IsKeys
  <2>7. outcome'.fast /\ outcome'.accepted
    BY <1>1, <2>1 DEF Accepts, Pending
  <2>8. AcceptedIsValidated'
    BY <1>1, <2>1, <2>2, <2>5 DEF AcceptedIsValidated, OutlineOk, Undecided
  <2>9. NeverRegresses'
    BY <2>7 DEF NeverRegresses
  <2> QED
    BY <1>2, <2>6, <2>8, <2>9
<1>6. CASE SolveRetryAccepted \/ ApplyInitial
  <2>1. PICK s \in AnySolve :
          /\ \E count : Verdict(s, count, baseline.solve)
          /\ keys' = Of(Applied(s, path), samples') /\ samples' = fitted'
    <3>1. CASE SolveRetryAccepted
      BY <3>1, PathsAssumption DEF SolveRetryAccepted, AnySolve
    <3>2. CASE ApplyInitial
      <4>1. /\ Verdict(keys.solve, fitted, baseline.solve)
            /\ keys.vertices = samples /\ samples = fitted
        BY <3>2 DEF ApplyInitial, Undecided
      <4>2. keys' = [keys EXCEPT !.solve = Applied(keys.solve, path)]
            /\ UNCHANGED <<samples, fitted>>
        BY <3>2 DEF ApplyInitial
      <4>3. keys' = Of(Applied(keys.solve, path), keys.vertices)
        BY <1>3, <4>2 DEF IsKeys, Of
      <4> QED
        BY <1>3, <4>1, <4>2, <4>3 DEF IsKeys
    <3> QED
      BY <1>6, <3>1, <3>2
  <2>2. outcome' = Accepts
    BY <1>6 DEF SolveRetryAccepted, ApplyInitial
  <2>3. keys'.solve = Applied(s, path) /\ keys'.vertices = samples'
        /\ keys' = Of(keys'.solve, keys'.vertices)
    BY <2>1 DEF Of
  <2>4. /\ keys'.solve.count <= baseline.solve.count
        /\ IsValid(baseline.solve, path) => IsValid(keys'.solve, path)
        /\ keys'.solve.sharp /\ keys'.solve.converged
        /\ keys'.solve.checked =>
             keys'.solve.err = keys'.solve.outline /\ OutlineOk(keys'.solve, path)
    BY <1>3, <2>1, <2>3, VerdictNeverRegresses DEF IsKeys
  <2>5. DataOK'
    BY <1>1, <1>3, <1>4, <2>1, <2>2, <2>3, SummaryType DEF DataOK, IsKeys
  <2>6. NeverRegresses'
    BY <1>1, <2>4 DEF NeverRegresses, IsValid
  <2>7. AcceptedIsValidated'
    BY <1>1, <2>1, <2>3, <2>4 DEF AcceptedIsValidated, OutlineOk
  <2> QED
    BY <1>2, <2>5, <2>6, <2>7
<1>7. CASE ApplyFallback
  <2>1. keys' = baseline /\ outcome' = [outcome EXCEPT !.end = "fallback"]
    BY <1>7 DEF ApplyFallback, Ends
  <2>2. ~outcome'.accepted
    BY <1>1, <2>1 DEF Pending
  <2>3. baseline.solve.count \in Nat
    BY <1>3 DEF IsKeys, AnySolve, Solves
  <2>4. DataOK'
    BY <1>1, <1>3, <1>4, <2>1 DEF DataOK
  <2>5. NeverRegresses'
    BY <1>1, <2>1, <2>3 DEF NeverRegresses, IsValid
  <2> QED
    BY <1>2, <2>2, <2>4, <2>5 DEF AcceptedIsValidated
<1> QED
  BY <1>5, <1>6, <1>7

\* A stuttering step changes nothing.
LEMMA StutterStep == ASSUME IInv, UNCHANGED vars PROVE IInv'
BY DEF IInv, vars, outVars, fitVars, DataOK, Undecided, NeverRegresses,
   AcceptedIsValidated, Verdict

LEMMA Invariance == Spec => []IInv
<1>1. Init => IInv
  BY InitIInv
<1>2. IInv /\ [Next]_vars => IInv'
  BY FitStep, JudgeStep, AcceptStep, StutterStep
     DEF Next, FitReplacementPathProperty, ProcessPostTemporalReplacement,
         Returned
<1> QED
  BY <1>1, <1>2, PTL DEF Spec

\* The replacement never leaves more keys than the baseline, nor invalid keys
\* where the baseline is valid: neither the verdict, nor any retry, nor the
\* fallback, however many retries there are and whatever they solve to.
THEOREM ReplacementNeverRegresses == Spec => []NeverRegresses
  BY Invariance, PTL DEF IInv

\* Accepted keys carry the outcome of their own validation, not that of an
\* earlier candidate, and go out with the samples they were solved from.
THEOREM AcceptedKeysAreValidated == Spec => []AcceptedIsValidated
  BY Invariance, PTL DEF IInv

------------------------------------------------------------------------------
(***************************************************************************)
(* A fit keeps to the configured numbers of vertices.                      *)
(***************************************************************************)

\* Whatever layout fits, it has the vertices of the target at least, fewer
\* than the source, and no more than the configured maximum.
LEMMA FitsAreWithin ==
  ASSUME path \in PathSpace, NEW target \in Nat, Within(target),
         NEW count \in FitCounts(target)
  PROVE  /\ count \in Nat /\ count >= path.minimum /\ count < path.sourceMax
         /\ path.maximum > 0 => count <= path.maximum
<1>1. /\ path.sourceMin \in Nat /\ path.sourceMax \in Nat
      /\ path.minimum \in Int /\ path.maximum \in Int
  BY DEF PathSpace
<1>2. /\ count < path.sourceMax
      /\ count \in {target} \cup AdaptiveCounts(target) \cup FeatureCounts(target)
  BY DEF FitCounts, LayoutCounts
<1>3. \A c \in Int : /\ Capped(c) \in Int
                     /\ path.maximum > 0 => Capped(c) <= path.maximum
  BY <1>1 DEF Capped, Smaller
<1>4. CASE count = target
  BY <1>1, <1>2, <1>4 DEF Within
<1>5. CASE count \in AdaptiveCounts(target)
  <2> DEFINE c == Smaller(path.sourceMin - 1, target + 12)
  <2>1. c \in Int
    BY <1>1 DEF Smaller
  <2>2. count \in target + 1 .. Smaller(Capped(c), target + 4)
    BY <1>5 DEF AdaptiveCounts
  <2> HIDE DEF c
  <2> QED
    BY <1>1, <1>2, <1>3, <2>1, <2>2 DEF Smaller, Within
<1>6. CASE count \in FeatureCounts(target)
  <2> DEFINE c == Smaller(path.sourceMin - 1,
                          Larger(target, (path.sourceMin * 3) \div 4))
  <2>1. c \in Int
    BY <1>1 DEF Smaller, Larger
  <2>2. count \in target .. Smaller(Capped(c), target + 2)
    BY <1>6 DEF FeatureCounts
  <2> HIDE DEF c
  <2> QED
    BY <1>1, <1>2, <1>3, <2>1, <2>2 DEF Smaller, Within
<1> QED
  BY <1>2, <1>4, <1>5, <1>6

LEMMA LaddersAreWithin ==
  ASSUME path \in PathSpace
  PROVE  \A minimum \in Int : minimum >= path.minimum =>
           LadderFor(minimum) \in Seq(Nat) /\ AllWithin(LadderFor(minimum))
<1> TAKE minimum \in Int
<1> HAVE minimum >= path.minimum
<1>1. /\ path.autoMax \in Nat /\ path.sourceMin \in Nat
      /\ path.sourceMax \in Nat /\ path.minimum \in Int /\ path.maximum \in Int
  BY DEF PathSpace
<1> DEFINE ladder == LadderFor(minimum)
<1>2. /\ ladder \in Seq(Nat)
      /\ \A k \in 1 .. Len(ladder) :
           /\ ladder[k] >= minimum
           /\ path.maximum > 0 => ladder[k] <= path.maximum
  BY <1>1, TargetsWithin DEF LadderFor
<1> HIDE DEF ladder
<1>3. \A k \in 1 .. Len(ladder) : ladder[k] \in Nat
  BY <1>2
<1>4. AllWithin(ladder)
  BY <1>1, <1>2, <1>3 DEF AllWithin, Within
<1> QED
  BY <1>2, <1>4 DEF ladder

LEMMA RetriesAreWithin ==
  ASSUME path \in PathSpace, fitted \in Nat
  PROVE  RetryLadder \in Seq(Nat) /\ AllWithin(RetryLadder)
<1> DEFINE options == [minimum |-> Larger(path.minimum, fitted),
                       maximum |-> path.maximum,
                       step |-> 2, candidates |-> 10, top |-> TRUE]
           ladder == ShapeFlatTargets(fitted, path.sourceMin, options)
<1>1. /\ path.sourceMin \in Nat /\ path.minimum \in Int
      /\ path.maximum \in Int
  BY DEF PathSpace
<1>2. /\ options \in Options /\ options.maximum = path.maximum
      /\ options.minimum >= path.minimum
  BY <1>1 DEF Options, Larger
<1>3. RetryLadder = ladder
  BY DEF RetryLadder, RetryTargets
<1> HIDE DEF options
<1>4. /\ ladder \in Seq(Nat)
      /\ BoundedReduction(ladder, fitted, path.sourceMin, options)
  BY <1>1, <1>2, LaddersReduce
<1> HIDE DEF ladder
<1>5. /\ DOMAIN ladder = 1 .. Len(ladder)
      /\ \A k \in 1 .. Len(ladder) : ladder[k] \in Nat
  BY <1>4
<1>6. \A k \in 1 .. Len(ladder) :
        /\ ladder[k] >= options.minimum
        /\ path.maximum > 0 => ladder[k] <= path.maximum
  BY <1>2, <1>4, <1>5 DEF BoundedReduction
<1>7. options.minimum \in Int
  BY <1>2 DEF Options
<1>8. AllWithin(ladder)
  BY <1>1, <1>2, <1>5, <1>6, <1>7 DEF AllWithin, Within
<1> QED
  BY <1>3, <1>4, <1>8

LEMMA TailIsWithin ==
  ASSUME NEW s \in Seq(Nat), s # <<>>, AllWithin(s)
  PROVE  /\ Tail(s) \in Seq(Nat) /\ AllWithin(Tail(s))
         /\ Head(s) \in Nat /\ Within(Head(s))
<1>1. /\ Tail(s) \in Seq(Nat) /\ Len(Tail(s)) = Len(s) - 1
      /\ \A k \in 1 .. Len(s) - 1 : Tail(s)[k] = s[k + 1]
      /\ Head(s) = s[1] /\ 1 \in 1 .. Len(s) /\ Head(s) \in Nat
  OBVIOUS
<1>2. \A k \in 1 .. Len(s) - 1 : k + 1 \in 1 .. Len(s)
  BY <1>1
<1> QED
  BY <1>1, <1>2 DEF AllWithin

\* The fits, and the passing over and starting of retries.
LEMMA LaddersFit ==
  ASSUME IInv, LaddersInv, \/ FitReplacementPathProperty
                           \/ SkipRetry \/ StartRetry
  PROVE  LaddersInv'
<1>0. /\ path \in PathSpace /\ path.minimum \in Int
      /\ TypeOK /\ AllWithin(targets) /\ AllWithin(retryTargets)
      /\ FitsWithinConfiguredVertices
  BY DEF IInv, DataOK, PathSpace, LaddersInv
<1>1. /\ targets \in Seq(Nat) /\ retryTargets \in Seq(Nat)
      /\ fit \in Nat /\ fitted \in Nat /\ outcome \in Results
  BY <1>0 DEF TypeOK, IInv, DataOK
<1>2. UNCHANGED <<path, keys, baseline>>
  BY DEF FitReplacementPathProperty, ScanSkips, ScanReplacementInitialFrames,
     TargetFits, TargetRejected, NoTargetPassed, SkipRetry, StartRetry, outVars
<1>3. \A s : AllWithin(s)' <=> \A k \in 1 .. Len(s') : Within(s'[k])
  BY <1>2 DEF AllWithin, Within
<1> USE DEF fitVars, outVars
<1>4. CASE ScanSkips
  <2>1. outcome'.end = "unfitted"
    BY <1>1, <1>4 DEF ScanSkips, Ends, Results
  <2> QED
    BY <1>0, <1>2, <1>4, <2>1
       DEF ScanSkips, Ends, LaddersInv, TypeOK, AllWithin, Within,
           FitsWithinConfiguredVertices
<1>5. CASE ScanReplacementInitialFrames
  <2>1. targets' \in Seq(Nat) /\ AllWithin(targets)'
    <3>1. LadderFor(path.minimum) \in Seq(Nat)
          /\ AllWithin(LadderFor(path.minimum))
      BY <1>0, LaddersAreWithin
    <3>2. targets' = LadderFor(path.minimum)
      BY <1>5 DEF ScanReplacementInitialFrames
    <3> QED
      BY <1>2, <3>1, <3>2 DEF AllWithin, Within
  <2> QED
    BY <1>0, <1>2, <1>5, <2>1
       DEF ScanReplacementInitialFrames, LaddersInv, TypeOK, AllWithin, Within,
           FitsWithinConfiguredVertices
<1>6. CASE TargetFits
  <2>1. Head(targets) \in Nat /\ Within(Head(targets))
    BY <1>0, <1>1, <1>6, TailIsWithin DEF TargetFits
  <2>2. /\ fit' \in Nat /\ fit' >= path.minimum /\ fit' < path.sourceMax
        /\ path.maximum > 0 => fit' <= path.maximum
    BY <1>0, <1>6, <2>1, FitsAreWithin DEF TargetFits
  <2>3. /\ targets' = <<>> /\ retryTargets' = retryTargets
        /\ samples' \in {samples, fit'} /\ fitted' \in {fitted, fit'}
        /\ pc' \in {"retry", "solveRetry", "solve"}
        /\ retrying' = retrying /\ outcome' = outcome
    BY <1>6 DEF TargetFits
  <2> QED
    BY <1>0, <1>2, <2>2, <2>3
       DEF LaddersInv, TypeOK, AllWithin, Within, FitsWithinConfiguredVertices
<1>7. CASE TargetRejected
  <2>1. targets' \in Seq(Nat) /\ AllWithin(targets)'
    <3>1. Tail(targets) \in Seq(Nat) /\ AllWithin(Tail(targets))
          /\ targets' = Tail(targets)
      BY <1>0, <1>1, <1>7, TailIsWithin DEF TargetRejected
    <3> QED
      BY <1>2, <3>1 DEF AllWithin, Within
  <2> QED
    BY <1>0, <1>2, <1>7, <2>1
       DEF TargetRejected, LaddersInv, TypeOK, AllWithin, Within,
           FitsWithinConfiguredVertices
<1>8. CASE NoTargetPassed
  <2>1. /\ UNCHANGED <<targets, fit, retryTargets, samples, fitted, retrying>>
        /\ pc' \in {"retry", "done"}
        /\ outcome' \in {outcome, [outcome EXCEPT !.end = "unfitted"]}
    BY <1>8 DEF NoTargetPassed, Ends
  <2>2. outcome'.end \in {outcome.end, "unfitted"}
    BY <1>1, <2>1 DEF Results
  <2> QED
    BY <1>0, <1>2, <2>1, <2>2
       DEF LaddersInv, TypeOK, AllWithin, Within, FitsWithinConfiguredVertices
<1>9. CASE SkipRetry \/ StartRetry
  <2>1. /\ retryTargets # <<>> /\ retryTargets' = Tail(retryTargets)
        /\ UNCHANGED <<fit, samples, fitted, outcome>>
        /\ pc' \in {"retry", "target"} /\ retrying' \in BOOLEAN
    BY <1>0, <1>9 DEF SkipRetry, StartRetry, TypeOK
  <2>2. /\ Tail(retryTargets) \in Seq(Nat) /\ AllWithin(Tail(retryTargets))
        /\ Head(retryTargets) \in Nat /\ Head(retryTargets) >= path.minimum
    BY <1>0, <1>1, <2>1, TailIsWithin DEF Within
  <2>3. targets' \in Seq(Nat) /\ AllWithin(targets)'
    <3>1. targets' \in {targets, LadderFor(Head(retryTargets))}
      BY <1>9 DEF SkipRetry, StartRetry
    <3>2. LadderFor(Head(retryTargets)) \in Seq(Nat)
          /\ AllWithin(LadderFor(Head(retryTargets)))
      BY <1>0, <2>2, LaddersAreWithin
    <3> QED
      BY <1>0, <1>1, <1>2, <3>1, <3>2 DEF AllWithin, Within
  <2>4. retryTargets' \in Seq(Nat) /\ AllWithin(retryTargets)'
    BY <1>2, <2>1, <2>2 DEF AllWithin, Within
  <2> QED
    BY <1>0, <1>2, <2>1, <2>3, <2>4
       DEF LaddersInv, TypeOK, FitsWithinConfiguredVertices
<1> QED
  BY <1>4, <1>5, <1>6, <1>7, <1>8, <1>9 DEF FitReplacementPathProperty

\* Solving and deciding leave the fit and its ladder alone; the ladder of the
\* retries is made with the verdict.
LEMMA LaddersSolve ==
  ASSUME IInv, LaddersInv,
         \/ SolveReplacementTemporal \/ SolveCancelled
         \/ AcceptFastVertexPreference \/ FastVertexPreferenceDeclines
         \/ SolveReplacementBaseline \/ SolveRetryRejected \/ SolveRetryAccepted
         \/ ApplyInitial \/ ApplyFallback
  PROVE  LaddersInv'
<1>0. /\ path \in PathSpace
      /\ TypeOK /\ AllWithin(targets) /\ AllWithin(retryTargets)
      /\ FitsWithinConfiguredVertices
  BY DEF IInv, DataOK, LaddersInv
<1>1. /\ retryTargets \in Seq(Nat) /\ fit \in Nat /\ fitted \in Nat
      /\ samples \in Nat /\ keys.vertices \in Nat /\ baseline.vertices = 0
      /\ outcome \in Results /\ IsKeys(keys)
  BY <1>0 DEF TypeOK, IInv, DataOK
<1> USE DEF fitVars, outVars
<1>2. UNCHANGED <<path, retrying, targets, fit>>
  BY DEF SolveReplacementTemporal, SolveCancelled, AcceptFastVertexPreference,
     FastVertexPreferenceDeclines, SolveReplacementBaseline,
     SolveRetryRejected, SolveRetryAccepted, ApplyInitial, ApplyFallback
<1>3. retryTargets' \in Seq(Nat) /\ AllWithin(retryTargets)'
  <2>1. \/ retryTargets' \in {retryTargets, <<>>}
        \/ retryTargets' = RetryLadder
    BY DEF SolveReplacementTemporal, SolveCancelled,
       AcceptFastVertexPreference, FastVertexPreferenceDeclines,
       SolveReplacementBaseline, SolveRetryRejected, SolveRetryAccepted,
       ApplyInitial, ApplyFallback
  <2>2. RetryLadder \in Seq(Nat) /\ AllWithin(RetryLadder)
    BY <1>0, <1>1, RetriesAreWithin
  <2>3. <<>> \in Seq(Nat) /\ AllWithin(<<>>)
    BY DEF AllWithin
  <2> QED
    BY <1>0, <1>1, <1>2, <2>1, <2>2, <2>3 DEF AllWithin, Within
<1>4. samples' \in Nat /\ fitted' \in Nat
      /\ pc' \in {"fast", "baseline", "accept", "retry", "done"}
  BY <1>1 DEF SolveReplacementTemporal, SolveCancelled,
     AcceptFastVertexPreference, FastVertexPreferenceDeclines,
     SolveReplacementBaseline, SolveRetryRejected, SolveRetryAccepted,
     ApplyInitial, ApplyFallback, Ends
<1>5. keys'.vertices \in Nat /\ baseline'.vertices = 0
  <2>1. \A solve, n : Of(solve, n).vertices = n
    BY DEF Of
  <2>2. \A s : [keys EXCEPT !.solve = s].vertices = keys.vertices
    BY <1>1 DEF IsKeys, Of
  <2>3. baseline' = baseline \/ \E solve : baseline' = Of(solve, 0)
    BY DEF SolveReplacementTemporal, SolveCancelled,
       AcceptFastVertexPreference, FastVertexPreferenceDeclines,
       SolveReplacementBaseline, SolveRetryRejected, SolveRetryAccepted,
       ApplyInitial, ApplyFallback
  <2>4. \/ keys' \in {keys, baseline} \/ \E solve : keys' = Of(solve, fit)
        \/ \E s : keys' = [keys EXCEPT !.solve = s]
    BY DEF SolveReplacementTemporal, SolveCancelled,
       AcceptFastVertexPreference, FastVertexPreferenceDeclines,
       SolveReplacementBaseline, SolveRetryRejected, SolveRetryAccepted,
       ApplyInitial, ApplyFallback
  <2>5. baseline'.vertices = 0
    BY <1>1, <2>1, <2>3
  <2>6. keys'.vertices \in Nat
    <3>1. CASE keys' \in {keys, baseline}
      BY <1>1, <3>1
    <3>2. CASE \E solve : keys' = Of(solve, fit)
      BY <1>1, <2>1, <3>2
    <3>3. CASE \E s : keys' = [keys EXCEPT !.solve = s]
      BY <1>1, <2>2, <3>3
    <3> QED
      BY <2>4, <3>1, <3>2, <3>3
  <2> QED
    BY <2>5, <2>6
<1>6. outcome'.end \in {"running", "unfitted", "cancelled", "fallback", "accepted"}
  <2>1. \A end : [outcome EXCEPT !.end = end].end = end
    BY <1>1 DEF Results
  <2>2. Accepts.end = "accepted"
    BY <1>1 DEF Accepts, Results
  <2>3. [Accepts EXCEPT !.fast = TRUE].end = "accepted"
    BY <1>1 DEF Accepts, Results
  <2>4. \/ outcome' \in {outcome, Accepts, [Accepts EXCEPT !.fast = TRUE]}
        \/ outcome' \in {[outcome EXCEPT !.end = "cancelled"],
                        [outcome EXCEPT !.end = "fallback"]}
    BY DEF SolveReplacementTemporal, SolveCancelled,
       AcceptFastVertexPreference, FastVertexPreferenceDeclines,
       SolveReplacementBaseline, SolveRetryRejected, SolveRetryAccepted,
       ApplyInitial, ApplyFallback, Ends
  <2> QED
    BY <1>0, <2>1, <2>2, <2>3, <2>4 DEF TypeOK
<1> QED
  BY <1>0, <1>2, <1>3, <1>4, <1>5, <1>6
     DEF LaddersInv, TypeOK, AllWithin, Within, FitsWithinConfiguredVertices

LEMMA LaddersInvariance == Spec => []LaddersInv
<1>1. Init => LaddersInv
  <2> SUFFICES ASSUME Init PROVE LaddersInv
    OBVIOUS
  <2>1. NoKeys.vertices = 0 /\ Pending.end = "running"
    BY DEF NoKeys, Pending
  <2>2. TypeOK
    <3>1. targets \in Seq(Nat) /\ retryTargets \in Seq(Nat)
      BY DEF Init
    <3>2. /\ fit \in Nat /\ fitted \in Nat /\ samples \in Nat
          /\ pc = "scan" /\ retrying \in BOOLEAN
      BY DEF Init
    <3>3. keys.vertices \in Nat /\ baseline.vertices = 0
      BY <2>1 DEF Init
    <3>4. outcome.end = "running"
      BY <2>1 DEF Init
    <3> QED
      BY <3>1, <3>2, <3>3, <3>4 DEF TypeOK
  <2>3. AllWithin(targets) /\ AllWithin(retryTargets)
    BY DEF Init, AllWithin
  <2> QED
    BY <2>2, <2>3 DEF Init, LaddersInv, FitsWithinConfiguredVertices
<1>2. IInv /\ LaddersInv /\ [Next]_vars => LaddersInv'
  <2>1. LaddersInv /\ UNCHANGED vars => LaddersInv'
    BY DEF LaddersInv, TypeOK, AllWithin, Within, FitsWithinConfiguredVertices,
       vars, fitVars, outVars
  <2> QED
    BY <2>1, LaddersFit, LaddersSolve
       DEF Next, ProcessPostTemporalReplacement, Returned
<1> QED
  BY <1>1, <1>2, Invariance, PTL DEF Spec

\* Whatever layout wins, in the first fit and in every retry, which raises the
\* minimum it passes on, the configured numbers of vertices are kept.
THEOREM FitsStayWithin == Spec => []FitsWithinConfiguredVertices
  BY LaddersInvariance, PTL DEF LaddersInv
==============================================================================
