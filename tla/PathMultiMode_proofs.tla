------------------------ MODULE PathMultiMode_proofs ------------------------
(***************************************************************************)
(* What the multimode path solver keeps at every step, for every path and  *)
(* every tolerance: the anchors of a region are a shortest chain, the      *)
(* partition emitted has the fewest keys of all cuts of the path, the      *)
(* semantic split is never chosen, what is emitted follows the source, and *)
(* a cancel that is seen is the last word.                                 *)
(*                                                                         *)
(* The anchors and the partition are recurrences over samples and over     *)
(* cuts: first come the facts about these, then the invariant.             *)
(***************************************************************************)
EXTENDS PathMultiMode, FiniteSetTheorems, WellFoundedInduction, NaturalsInduction, TLAPS

------------------------------------------------------------------------------
(***************************************************************************)
(* Least, greatest, and sums.                                              *)
(***************************************************************************)
\* Of some numbers, one is the least.
LEMMA LeastOfSome ==
  ASSUME NEW T, T \subseteq Nat, T # {}
  PROVE  \E x \in T : \A y \in T : x <= y
<1> DEFINE R == OpToRel(<, Nat)
<1>1. IsWellFoundedOn(R, Nat)
  BY NatLessThanWellFounded
<1>2. PICK x \in T : \A y \in T : ~(<<y, x>> \in R)
  <2> HIDE DEF R
  <2> QED
    BY <1>1, WFMin
<1>3. \A y \in T : y < x => <<y, x>> \in R
  BY DEF OpToRel
<1>4. \A y \in T : ~(y < x)
  <2> HIDE DEF R
  <2> QED
    BY <1>2, <1>3
<1>5. x \in Nat /\ \A y \in T : y \in Nat
  OBVIOUS
<1> HIDE DEF R
<1> QED
  BY <1>4, <1>5

\* Of some numbers up to n, one is the greatest.
LEMMA GreatestOfSome ==
  ASSUME NEW n \in Nat, NEW T, T \subseteq 0 .. n, T # {}
  PROVE  \E x \in T : \A y \in T : y <= x
<1> DEFINE D == {n - y : y \in T}
<1>1. D \subseteq Nat /\ D # {}
  OBVIOUS
<1>2. PICK d \in D : \A e \in D : d <= e
  <2> HIDE DEF D
  <2> QED
    BY <1>1, LeastOfSome
<1>3. PICK x \in T : d = n - x
  OBVIOUS
<1>4. \A y \in T : n - y \in D /\ y \in 0 .. n
  OBVIOUS
<1> HIDE DEF D
<1>5. \A y \in T : n - x <= n - y
  BY <1>2, <1>3, <1>4
<1>6. \A y \in T : y <= x
  BY <1>4, <1>5
<1> QED
  BY <1>6

\* Min finds the least.
LEMMA MinIsLeast ==
  ASSUME NEW T, T \subseteq Nat, T # {}
  PROVE  Min(T) \in T /\ \A y \in T : Min(T) <= y
BY LeastOfSome DEF Min

\* Max finds the greatest.
LEMMA MaxIsGreatest ==
  ASSUME NEW n \in Nat, NEW T, T \subseteq 0 .. n, T # {}
  PROVE  Max(T) \in T /\ \A y \in T : y <= Max(T)
<1>1. \E x \in T : \A y \in T : x >= y
  <2>1. PICK x \in T : \A y \in T : y <= x
    BY GreatestOfSome
  <2>2. \A y \in T : y \in Nat
    OBVIOUS
  <2> QED
    BY <2>1, <2>2
<1>2. Max(T) \in T /\ \A y \in T : Max(T) >= y
  BY <1>1 DEF Max
<1>3. \A y \in T : y \in Nat
  OBVIOUS
<1> QED
  BY <1>2, <1>3

\* Induction up to n, over the set of the numbers something holds of.
LEMMA IntervalInduction ==
  ASSUME NEW n \in Nat, NEW S, 0 \in S,
         \A i \in 0 .. n - 1 : i \in S => i + 1 \in S
  PROVE  0 .. n \subseteq S
<1> DEFINE T == {i \in 0 .. n : i \notin S}
<1> SUFFICES ASSUME T # {} PROVE FALSE
  OBVIOUS
<1>1. T \subseteq Nat
  OBVIOUS
<1>2. PICK x \in T : \A y \in T : x <= y
  <2> HIDE DEF T
  <2> QED
    BY <1>1, LeastOfSome
<1>3. x # 0 /\ x - 1 \in 0 .. n - 1
  OBVIOUS
<1>4. x - 1 \in S
  BY <1>2, <1>3
<1> QED
  BY <1>3, <1>4

\* From a, one step after the other.
IsRun(T, a, n, next, g) ==
  /\ g \in [0 .. n -> T] /\ g[0] = a
  /\ \A k \in 1 .. n : g[k] = next[k][g[k - 1]]

\* However many steps, they can be taken.
LEMMA Repeated ==
  ASSUME NEW T, NEW a \in T, NEW n \in Nat, NEW next \in [1 .. n -> [T -> T]]
  PROVE  \E g : IsRun(T, a, n, next, g)
<1> DEFINE Started ==
             {m \in 0 .. n : \E g \in [0 .. n -> T] :
                g[0] = a /\ \A k \in 1 .. m : g[k] = next[k][g[k - 1]]}
<1>1. 0 \in Started
  <2>1. [k \in 0 .. n |-> a] \in [0 .. n -> T] /\ 0 \in 0 .. n
        /\ [k \in 0 .. n |-> a][0] = a /\ \A k \in 1 .. 0 : FALSE
    OBVIOUS
  <2> QED
    BY <2>1
<1>2. ASSUME NEW m \in 0 .. n - 1, m \in Started PROVE m + 1 \in Started
  <2>1. PICK g \in [0 .. n -> T] :
          g[0] = a /\ \A k \in 1 .. m : g[k] = next[k][g[k - 1]]
    BY <1>2
  <2> DEFINE h == [g EXCEPT ![m + 1] = next[m + 1][g[m]]]
  <2>2. /\ m \in 0 .. n /\ m + 1 \in 0 .. n /\ (m + 1) - 1 = m /\ m + 1 # 0
        /\ m + 1 \in 1 .. n
        /\ \A k \in 1 .. m + 1 : k = m + 1 \/ k \in 1 .. m
        /\ \A k \in 1 .. m : k \in 0 .. n /\ k - 1 \in 0 .. n /\ k # m + 1
                             /\ k - 1 # m + 1
    OBVIOUS
  <2>3. h \in [0 .. n -> T] /\ h[m + 1] = next[m + 1][g[m]]
        /\ \A k \in 0 .. n : k # m + 1 => h[k] = g[k]
    BY <2>2
  <2> HIDE DEF h
  <2>4. h[0] = a /\ h[m] = g[m]
    BY <2>1, <2>2, <2>3
  <2>5. \A k \in 1 .. m : h[k] = next[k][h[k - 1]]
    BY <2>1, <2>2, <2>3
  <2>6. \A k \in 1 .. m + 1 : h[k] = next[k][h[k - 1]]
    BY <2>2, <2>3, <2>4, <2>5
  <2> QED
    BY <2>2, <2>3, <2>4, <2>6
<1>3. n \in Started
  <2>1. n \in 0 .. n
    OBVIOUS
  <2> HIDE DEF Started
  <2>2. 0 .. n \subseteq Started
    BY <1>1, <1>2, IntervalInduction
  <2> QED
    BY <2>1, <2>2
<1> QED
  BY <1>3 DEF IsRun

\* Partial sums that begin with nothing end with the total.
LEMMA TotalIs ==
  ASSUME NEW s, Len(s) \in Nat, NEW f, f[0] = 0,
         \A n \in 1 .. Len(s) : f[n] = f[n - 1] + s[n]
  PROVE  TotalOf(s) = f[Len(s)]
<1> DEFINE L == Len(s)
           Val(g, n) == IF n = 0 THEN 0 ELSE g[n - 1] + s[n]
           sum == CHOOSE g : g = [n \in 0 .. L |-> Val(g, n)]
           Same == {n \in 0 .. L : sum[n] = f[n]}
<1>1. TotalOf(s) = sum[L]
  BY DEF TotalOf
<1>2. sum = [n \in 0 .. L |-> Val(sum, n)]
  <2> DEFINE g == [n \in 0 .. L |-> f[n]]
  <2>1. \A n \in 0 .. L : n # 0 => n \in 1 .. L /\ n - 1 \in 0 .. L
    OBVIOUS
  <2>2. \A n \in 0 .. L : g[n] = f[n]
    OBVIOUS
  <2> HIDE DEF g
  <2>3. \A n \in 0 .. L : f[n] = Val(g, n)
    BY <2>1, <2>2
  <2> HIDE DEF Val
  <2>4. g = [n \in 0 .. L |-> Val(g, n)]
    BY <2>3 DEF g
  <2> QED
    BY <2>4
<1>3. \A n \in 0 .. L : sum[n] = Val(sum, n)
  <2> HIDE DEF sum, Val
  <2> QED
    BY <1>2
<1> HIDE DEF sum
<1>4. 0 \in Same
  BY <1>3
<1>5. ASSUME NEW n \in 0 .. L - 1, n \in Same PROVE n + 1 \in Same
  <2>1. n + 1 \in 0 .. L /\ n + 1 \in 1 .. L /\ n + 1 # 0 /\ (n + 1) - 1 = n
    OBVIOUS
  <2>2. sum[n + 1] = sum[n] + s[n + 1] /\ f[n + 1] = f[n] + s[n + 1]
    BY <1>3, <2>1
  <2> QED
    BY <1>5, <2>1, <2>2
<1>6. L \in Same
  <2>1. L \in 0 .. L
    OBVIOUS
  <2> HIDE DEF Same
  <2>2. 0 .. L \subseteq Same
    BY <1>4, <1>5, IntervalInduction
  <2> QED
    BY <2>1, <2>2
<1> QED
  BY <1>1, <1>6

\* Numbers have partial sums.
LEMMA PartialSums ==
  ASSUME NEW n \in Nat, NEW s, \A k \in 1 .. n : s[k] \in Nat
  PROVE  \E f \in [0 .. n -> Nat] :
           f[0] = 0 /\ \A k \in 1 .. n : f[k] = f[k - 1] + s[k]
<1> DEFINE next == [k \in 1 .. n |-> [x \in Nat |-> x + s[k]]]
<1>1. next \in [1 .. n -> [Nat -> Nat]]
  OBVIOUS
<1>2. \A k \in 1 .. n, x \in Nat : next[k][x] = x + s[k]
  OBVIOUS
<1> HIDE DEF next
<1>3. PICK f \in [0 .. n -> Nat] :
        f[0] = 0 /\ \A k \in 1 .. n : f[k] = next[k][f[k - 1]]
  <2> DEFINE T == Nat
  <2>1. 0 \in T /\ next \in [1 .. n -> [T -> T]]
    BY <1>1
  <2> HIDE DEF T
  <2>2. \E f : IsRun(T, 0, n, next, f)
    BY <2>1, Repeated
  <2> QED
    BY <2>2 DEF T, IsRun
<1>4. \A k \in 1 .. n : k - 1 \in 0 .. n
  OBVIOUS
<1>5. \A k \in 1 .. n : f[k] = f[k - 1] + s[k]
  BY <1>2, <1>3, <1>4
<1> QED
  BY <1>3, <1>5

\* One more number adds to the total.
LEMMA TotalGrows ==
  ASSUME NEW n \in Nat, NEW s, NEW t, Len(s) = n, Len(t) = n + 1,
         \A k \in 1 .. n : t[k] = s[k], \A k \in 1 .. n + 1 : t[k] \in Nat
  PROVE  /\ TotalOf(s) \in Nat
         /\ TotalOf(t) = TotalOf(s) + t[n + 1]
<1>1. PICK f \in [0 .. n + 1 -> Nat] :
        f[0] = 0 /\ \A k \in 1 .. n + 1 : f[k] = f[k - 1] + t[k]
  <2> DEFINE m == n + 1
  <2>1. m \in Nat
    OBVIOUS
  <2>2. \A k \in 1 .. m : t[k] \in Nat
    OBVIOUS
  <2> HIDE DEF m
  <2>3. \E f \in [0 .. m -> Nat] :
          f[0] = 0 /\ \A k \in 1 .. m : f[k] = f[k - 1] + t[k]
    BY <2>1, <2>2, PartialSums, ZenonT(60)
  <2> QED
    BY <2>3, Zenon DEF m
<1>2. TotalOf(t) = f[n + 1]
  <2>1. Len(t) \in Nat
    OBVIOUS
  <2> QED
    BY <1>1, <2>1, TotalIs
<1>3. TotalOf(s) = f[n]
  <2>1. \A k \in 1 .. n : k \in 1 .. n + 1
    OBVIOUS
  <2>2. \A k \in 1 .. n : f[k] = f[k - 1] + s[k]
    BY <1>1, <2>1
  <2> QED
    BY <1>1, <2>2, TotalIs
<1>4. f[n] \in Nat /\ f[n + 1] = f[n] + t[n + 1]
  <2>1. n \in 0 .. n + 1 /\ n + 1 \in 1 .. n + 1 /\ (n + 1) - 1 = n
    OBVIOUS
  <2> QED
    BY <1>1, <2>1
<1> QED
  BY <1>2, <1>3, <1>4

------------------------------------------------------------------------------
(***************************************************************************)
(* The anchors of a region.                                                *)
(***************************************************************************)
\* A segment starts at an earlier sample, no further back than the gap.
LEMMA StartsAre ==
  ASSUME NEW j \in Nat \ {0}
  PROVE  StartsWithin(j) = {i \in 0 .. j - 1 : j - i <= MaxGap}
<1> DEFINE P == {0, j - MaxGap}
<1>1. MaxGap \in Nat \ {0}
  BY RegionTimingAssumption
<1>2. Max(P) = IF j - MaxGap > 0 THEN j - MaxGap ELSE 0
  <2>1. \E x \in P : \A y \in P : x >= y
    BY <1>1
  <2>2. Max(P) \in P /\ \A y \in P : Max(P) >= y
    BY <2>1 DEF Max
  <2>3. \A x \in P : x = 0 \/ x = j - MaxGap
    OBVIOUS
  <2>4. 0 \in P /\ j - MaxGap \in P
    OBVIOUS
  <2> HIDE DEF P
  <2> QED
    BY <1>1, <2>2, <2>3, <2>4
<1> HIDE DEF P
<1>3. StartsWithin(j) = Max(P) .. j - 1
  BY DEF StartsWithin, P
<1> QED
  BY <1>1, <1>2, <1>3

\* The sample before is a start.
LEMMA FeasibleStartsAre ==
  ASSUME NEW p, NEW region, NEW j \in Nat \ {0}
  PROVE  /\ FeasibleStarts(p, region, j)
              = {i \in 0 .. j - 1 : /\ j - i <= MaxGap
                                    /\ RegionSegmentFeasible(p, i, j, region)}
         /\ j - 1 \in FeasibleStarts(p, region, j)
<1>1. MaxGap \in Nat \ {0}
  BY RegionTimingAssumption
<1>2. FeasibleStarts(p, region, j)
        = {i \in 0 .. j - 1 : /\ j - i <= MaxGap
                              /\ RegionSegmentFeasible(p, i, j, region)}
  BY StartsAre DEF FeasibleStarts
<1>3. RegionSegmentFeasible(p, j - 1, j, region)
  <2>1. (j - 1) + 1 .. j - 1 = {}
    OBVIOUS
  <2> QED
    BY <2>1 DEF RegionSegmentFeasible
<1> QED
  BY <1>1, <1>2, <1>3

\* A chain goes on from one of the shortest before it.
LEMMA ExtendedFrom ==
  ASSUME NEW j \in Nat \ {0}, NEW starts, starts \subseteq 0 .. j - 1, starts # {},
         NEW chains, \A i \in starts : Len(chains[i]) \in Nat
  PROVE  \E s \in starts : /\ Extended(chains, starts, j) = Append(chains[s], j)
                           /\ \A i \in starts : Len(chains[s]) <= Len(chains[i])
<1> DEFINE lens == {Len(chains[i]) : i \in starts}
           few == {i \in starts : Len(chains[i]) = Min(lens)}
<1>1. lens \subseteq Nat /\ lens # {}
  OBVIOUS
<1>2. Min(lens) \in lens /\ \A y \in lens : Min(lens) <= y
  <2> HIDE DEF lens
  <2> QED
    BY <1>1, MinIsLeast
<1>3. few \subseteq Nat /\ few # {}
  <2>1. PICK i \in starts : Min(lens) = Len(chains[i])
    BY <1>2
  <2>2. i \in few
    BY <2>1
  <2>3. \A k \in few : k \in Nat
    OBVIOUS
  <2> HIDE DEF few
  <2> QED
    BY <2>2, <2>3
<1>4. Min(few) \in few
  <2> HIDE DEF few
  <2> QED
    BY <1>3, MinIsLeast
<1>5. Extended(chains, starts, j) = Append(chains[Min(few)], j)
  BY DEF Extended
<1>6. Min(few) \in starts /\ \A i \in starts : Len(chains[Min(few)]) <= Len(chains[i])
  <2>1. Min(few) \in starts /\ Len(chains[Min(few)]) = Min(lens)
    BY <1>4
  <2>2. \A i \in starts : Len(chains[i]) \in lens
    OBVIOUS
  <2> HIDE DEF few, lens
  <2> QED
    BY <1>2, <2>1, <2>2
<1> HIDE DEF few, lens
<1> QED
  BY <1>5, <1>6

\* Only the chains before it matter.
LEMMA ExtendedAgrees ==
  ASSUME NEW j \in Nat \ {0}, NEW starts, starts \subseteq 0 .. j - 1, starts # {},
         NEW f, NEW g, \A i \in starts : f[i] = g[i] /\ Len(g[i]) \in Nat
  PROVE  Extended(f, starts, j) = Extended(g, starts, j)
<1>1. \A lens : {i \in starts : Len(f[i]) = lens} = {i \in starts : Len(g[i]) = lens}
  OBVIOUS
<1>2. {Len(f[i]) : i \in starts} = {Len(g[i]) : i \in starts}
  OBVIOUS
<1> DEFINE lens == {Len(g[i]) : i \in starts}
           few == {i \in starts : Len(g[i]) = Min(lens)}
<1>3. Extended(f, starts, j) = Append(f[Min(few)], j)
  BY <1>1, <1>2 DEF Extended
<1>4. Extended(g, starts, j) = Append(g[Min(few)], j)
  BY DEF Extended
<1>5. Min(few) \in starts
  <2>1. lens \subseteq Nat /\ lens # {}
    OBVIOUS
  <2>2. Min(lens) \in lens
    <3> HIDE DEF lens
    <3> QED
      BY <2>1, MinIsLeast
  <2>3. PICK i \in starts : Min(lens) = Len(g[i])
    BY <2>2
  <2>4. i \in few /\ \A k \in few : k \in Nat /\ k \in starts
    BY <2>3
  <2> HIDE DEF few
  <2> QED
    BY <2>4, MinIsLeast
<1> HIDE DEF few
<1> QED
  BY <1>3, <1>4, <1>5

\* The anchors up to each of n samples go on from one another.
AreAnchors(p, region, n, c) ==
  /\ c \in [0 .. n - 1 -> Seq(Nat)] /\ c[0] = <<0>>
  /\ \A j \in 1 .. n - 1 : c[j] = Extended(c, FeasibleStarts(p, region, j), j)

\* The anchors of a region are those up to its last sample.
LEMMA AnchorChains ==
  ASSUME NEW p, NEW region, NEW n \in Nat \ {0}, SampleCount(p) = n
  PROVE  \E c : AreAnchors(p, region, n, c) /\ RegionAnchors(p, region) = c[n - 1]
<1> DEFINE Starts(j) == FeasibleStarts(p, region, j)
           Val(g, j) == IF j = 0 THEN <<0>> ELSE Extended(g, Starts(j), j)
           chain == CHOOSE g : g = [j \in 0 .. n - 1 |-> Val(g, j)]
           Started == {m \in 0 .. n - 1 : \E g \in [0 .. n - 1 -> Seq(Nat)] :
                         \A j \in 0 .. m : g[j] = Val(g, j)}
<1>1. RegionAnchors(p, region) = chain[n - 1]
  BY DEF RegionAnchors
<1>2. \A j \in 1 .. n - 1 : /\ j \in Nat \ {0} /\ Starts(j) \subseteq 0 .. j - 1
                            /\ Starts(j) # {} /\ Starts(j) \subseteq 0 .. n - 1
  BY FeasibleStartsAre
<1> HIDE DEF Starts
<1>3. ASSUME NEW j \in 1 .. n - 1, NEW f, NEW g \in [0 .. n - 1 -> Seq(Nat)],
             \A i \in 0 .. j - 1 : f[i] = g[i]
      PROVE  Extended(f, Starts(j), j) = Extended(g, Starts(j), j)
  <2>1. \A i \in Starts(j) : f[i] = g[i] /\ Len(g[i]) \in Nat
    BY <1>2, <1>3, SMTT(30)
  <2> QED
    BY <1>2, <2>1, ExtendedAgrees
<1>4. ASSUME NEW j \in 1 .. n - 1, NEW g \in [0 .. n - 1 -> Seq(Nat)]
      PROVE  Extended(g, Starts(j), j) \in Seq(Nat)
  <2>1. \A i \in Starts(j) : g[i] \in Seq(Nat) /\ Len(g[i]) \in Nat
    BY <1>2, SMTT(30)
  <2>2. \E s \in Starts(j) : /\ Extended(g, Starts(j), j) = Append(g[s], j)
                             /\ \A i \in Starts(j) : Len(g[s]) <= Len(g[i])
    <3> DEFINE starts == Starts(j)
    <3>1. j \in Nat \ {0} /\ starts \subseteq 0 .. j - 1 /\ starts # {}
          /\ \A i \in starts : Len(g[i]) \in Nat
      BY <1>2, <2>1
    <3> HIDE DEF starts
    <3>2. \E s \in starts : /\ Extended(g, starts, j) = Append(g[s], j)
                            /\ \A i \in starts : Len(g[s]) <= Len(g[i])
      BY <3>1, ExtendedFrom
    <3> QED
      BY <3>2 DEF starts
  <2>3. PICK s \in Starts(j) : Extended(g, Starts(j), j) = Append(g[s], j)
    BY <2>2
  <2> QED
    BY <1>2, <2>1, <2>3
<1>5. 0 \in Started
  <2> DEFINE g == [j \in 0 .. n - 1 |-> <<0>>]
  <2>1. <<0>> \in Seq(Nat)
    OBVIOUS
  <2>2. g \in [0 .. n - 1 -> Seq(Nat)] /\ g[0] = <<0>> /\ 0 \in 0 .. n - 1
    BY <2>1
  <2>3. \A j \in 0 .. 0 : j = 0
    OBVIOUS
  <2> HIDE DEF g
  <2>4. \A j \in 0 .. 0 : g[j] = Val(g, j)
    BY <2>2, <2>3
  <2> HIDE DEF Val
  <2> QED
    BY <2>2, <2>4
<1>6. ASSUME NEW m \in 0 .. (n - 1) - 1, m \in Started PROVE m + 1 \in Started
  <2>1. /\ m + 1 \in 1 .. n - 1 /\ m + 1 \in 0 .. n - 1 /\ (m + 1) - 1 = m /\ m + 1 # 0
        /\ \A j \in 0 .. m + 1 : j = m + 1 \/ j \in 0 .. m
        /\ \A j \in 0 .. m : j \in 0 .. n - 1 /\ j # m + 1
                             /\ \A i \in 0 .. j - 1 : i \in 0 .. m
        /\ \A j \in 0 .. m : j # 0 => j \in 1 .. n - 1
    OBVIOUS
  <2>2. PICK g \in [0 .. n - 1 -> Seq(Nat)] : \A j \in 0 .. m : g[j] = Val(g, j)
    BY <1>6
  <2> DEFINE h == [g EXCEPT ![m + 1] = Extended(g, Starts(m + 1), m + 1)]
  <2>3. /\ h \in [0 .. n - 1 -> Seq(Nat)]
        /\ h[m + 1] = Extended(g, Starts(m + 1), m + 1)
        /\ \A j \in 0 .. m : h[j] = g[j]
    <3>1. Extended(g, Starts(m + 1), m + 1) \in Seq(Nat)
      BY <1>4, <2>1
    <3> QED
      BY <2>1, <3>1
  <2> HIDE DEF h
  <2>4. \A j \in 1 .. m + 1 : Extended(h, Starts(j), j) = Extended(g, Starts(j), j)
    <3>1. \A j \in 1 .. m + 1 : j \in 1 .. n - 1 /\ \A i \in 0 .. j - 1 : h[i] = g[i]
      <4>1. \A j \in 1 .. m + 1 : j \in 1 .. n - 1 /\ \A i \in 0 .. j - 1 : i \in 0 .. m
        OBVIOUS
      <4> QED
        BY <2>3, <4>1
    <3> QED
      BY <1>3, <3>1
  <2>5. \A j \in 0 .. m + 1 : h[j] = Val(h, j)
    <3>1. ASSUME NEW j \in 0 .. m + 1 PROVE h[j] = Val(h, j)
      <4>1. CASE j = 0
        <5>1. 0 \in 0 .. m
          OBVIOUS
        <5>2. h[0] = <<0>>
          BY <2>2, <2>3, <5>1
        <5> QED
          BY <4>1, <5>2
      <4>2. CASE j = m + 1
        BY <2>1, <2>3, <2>4, <4>2
      <4>3. CASE j # 0 /\ j # m + 1
        <5>1. j \in 0 .. m /\ j \in 1 .. m + 1
          BY <4>3
        <5>2. h[j] = Extended(g, Starts(j), j)
          BY <2>2, <2>3, <4>3, <5>1
        <5> QED
          BY <2>4, <4>3, <5>1, <5>2
      <4> QED
        BY <4>1, <4>2, <4>3
    <3> HIDE DEF Val
    <3> QED
      BY <3>1
  <2> HIDE DEF Val
  <2> QED
    BY <2>1, <2>3, <2>5
<1>7. PICK g \in [0 .. n - 1 -> Seq(Nat)] : \A j \in 0 .. n - 1 : g[j] = Val(g, j)
  <2>1. n - 1 \in Nat /\ n - 1 \in 0 .. n - 1
    OBVIOUS
  <2>2. 0 .. n - 1 \subseteq Started
    <3> HIDE DEF Started
    <3> QED
      BY <1>5, <1>6, <2>1, IntervalInduction
  <2> HIDE DEF Val
  <2> QED
    BY <2>1, <2>2
<1>8. chain = [j \in 0 .. n - 1 |-> Val(chain, j)]
  <2> HIDE DEF Val
  <2>1. g = [j \in 0 .. n - 1 |-> Val(g, j)]
    BY <1>7
  <2> QED
    BY <2>1
<1>9. \A j \in 0 .. n - 1 : chain[j] = Val(chain, j)
  <2> HIDE DEF chain, Val
  <2> QED
    BY <1>8
<1> DEFINE Agrees == {m \in 0 .. n - 1 : \A j \in 0 .. m : chain[j] = g[j]}
<1> HIDE DEF chain
<1>10. 0 \in Agrees
  <2>1. 0 \in 0 .. n - 1 /\ \A j \in 0 .. 0 : j = 0
    OBVIOUS
  <2>2. chain[0] = g[0]
    BY <1>7, <1>9, <2>1
  <2> QED
    BY <2>1, <2>2
<1>11. ASSUME NEW m \in 0 .. (n - 1) - 1, m \in Agrees PROVE m + 1 \in Agrees
  <2>1. m + 1 \in 1 .. n - 1 /\ m + 1 \in 0 .. n - 1 /\ (m + 1) - 1 = m /\ m + 1 # 0
        /\ \A j \in 0 .. m + 1 : j = m + 1 \/ j \in 0 .. m
    OBVIOUS
  <2>2. Extended(chain, Starts(m + 1), m + 1) = Extended(g, Starts(m + 1), m + 1)
    BY <1>3, <1>11, <2>1
  <2>3. chain[m + 1] = g[m + 1]
    BY <1>7, <1>9, <2>1, <2>2
  <2> QED
    BY <1>11, <2>1, <2>3
<1>12. \A j \in 0 .. n - 1 : chain[j] = g[j]
  <2>1. n - 1 \in Nat /\ n - 1 \in 0 .. n - 1
    OBVIOUS
  <2>2. 0 .. n - 1 \subseteq Agrees
    <3> HIDE DEF Agrees
    <3> QED
      BY <1>10, <1>11, <2>1, IntervalInduction
  <2> QED
    BY <2>1, <2>2
<1>13. /\ g[0] = <<0>>
       /\ \A j \in 1 .. n - 1 : g[j] = Extended(g, Starts(j), j)
       /\ RegionAnchors(p, region) = g[n - 1]
  <2>1. 0 \in 0 .. n - 1 /\ n - 1 \in 0 .. n - 1
        /\ \A j \in 1 .. n - 1 : j \in 0 .. n - 1 /\ j # 0
    OBVIOUS
  <2> QED
    BY <1>1, <1>7, <1>12, <2>1
<1> QED
  BY <1>13 DEF Starts, AreAnchors

\* S goes from the first sample to j, from feasible start to feasible start.
Strung(p, region, S, j) ==
  /\ S \subseteq 0 .. j /\ {0, j} \subseteq S
  /\ \A i, k \in S : i < k /\ (i + 1 .. k - 1) \cap S = {}
                     => i \in FeasibleStarts(p, region, k)

\* The chain to j is one of these, and the shortest.
IsFewest(p, region, c, j) ==
  /\ Len(c) \in Nat /\ Strung(p, region, Range(c), j)
  /\ \A S : Strung(p, region, S, j) => Len(c) <= Cardinality(S)

\* What goes on from a shortest chain, to the shortest of its starts, is shortest.
LEMMA FewestGoesOn ==
  ASSUME NEW p, NEW region, NEW j \in Nat \ {0}, NEW c,
         \A i \in 0 .. j - 1 : c[i] \in Seq(Nat) /\ IsFewest(p, region, c[i], i),
         NEW s \in FeasibleStarts(p, region, j),
         \A i \in FeasibleStarts(p, region, j) : Len(c[s]) <= Len(c[i])
  PROVE  IsFewest(p, region, Append(c[s], j), j)
<1> DEFINE R == Range(c[s])
           d == Append(c[s], j)
<1>1. FeasibleStarts(p, region, j) \subseteq 0 .. j - 1 /\ s \in 0 .. j - 1
  BY FeasibleStartsAre
<1>2. c[s] \in Seq(Nat) /\ Len(c[s]) \in Nat /\ Strung(p, region, R, s)
  BY <1>1 DEF IsFewest
<1>3. Range(d) = R \cup {j} /\ Len(d) = Len(c[s]) + 1 /\ Len(d) \in Nat
  <2>1. Len(d) = Len(c[s]) + 1 /\ DOMAIN d = 1 .. Len(c[s]) + 1
        /\ DOMAIN c[s] = 1 .. Len(c[s])
        /\ d[Len(c[s]) + 1] = j /\ \A n \in 1 .. Len(c[s]) : d[n] = c[s][n]
    BY <1>2
  <2> DEFINE l == Len(c[s])
             e == c[s]
  <2>2. /\ l \in Nat /\ Len(d) = l + 1 /\ DOMAIN d = 1 .. l + 1
        /\ DOMAIN e = 1 .. l /\ d[l + 1] = j /\ \A n \in 1 .. l : d[n] = e[n]
    BY <1>2, <2>1
  <2> HIDE DEF d, e, l
  <2>3. \A n \in 1 .. l + 1 : n = l + 1 \/ n \in 1 .. l
    BY <2>2
  <2>4. l + 1 \in 1 .. l + 1 /\ \A n \in 1 .. l : n \in 1 .. l + 1
    BY <2>2
  <2>5. Len(d) \in Nat
    BY <2>2
  <2>6. Range(d) = Range(e) \cup {j}
    BY <2>2, <2>3, <2>4 DEF Range
  <2> QED
    BY <2>2, <2>5, <2>6 DEF e, l
<1> HIDE DEF d, R
<1>4. R \subseteq 0 .. s /\ 0 \in R /\ s \in R
      /\ \A i, k \in R : i < k /\ (i + 1 .. k - 1) \cap R = {}
                         => i \in FeasibleStarts(p, region, k)
  BY <1>2 DEF Strung
<1>5. Strung(p, region, R \cup {j}, j)
  <2>1. R \cup {j} \subseteq 0 .. j /\ {0, j} \subseteq R \cup {j}
    BY <1>1, <1>4
  <2>2. ASSUME NEW i \in R \cup {j}, NEW k \in R \cup {j}, i < k,
               (i + 1 .. k - 1) \cap (R \cup {j}) = {}
        PROVE  i \in FeasibleStarts(p, region, k)
    <3>1. i \in R /\ i \in 0 .. s
      BY <1>1, <1>4, <2>2
    <3>2. CASE k \in R
      BY <1>4, <2>2, <3>1, <3>2
    <3>3. CASE k = j
      <4>1. ~(i < s)
        <5>1. i < s => s \in i + 1 .. j - 1
          BY <1>1, <3>1
        <5> QED
          BY <1>4, <2>2, <3>3, <5>1
      <4>2. i = s
        BY <1>1, <3>1, <4>1
      <4> QED
        BY <3>3, <4>2
    <3> QED
      BY <3>2, <3>3
  <2> QED
    BY <2>1, <2>2 DEF Strung
<1>6. ASSUME NEW S, Strung(p, region, S, j)
      PROVE  Len(d) <= Cardinality(S)
  <2> DEFINE T == S \ {j}
  <2>1. S \subseteq 0 .. j /\ 0 \in S /\ j \in S
        /\ \A i, k \in S : i < k /\ (i + 1 .. k - 1) \cap S = {}
                           => i \in FeasibleStarts(p, region, k)
    BY <1>6 DEF Strung
  <2>2. T \subseteq 0 .. j - 1 /\ 0 \in T /\ j - 1 \in Nat
    BY <2>1
  <2>3. PICK i \in T : \A k \in T : k <= i
    <3> HIDE DEF T
    <3> QED
      BY <2>2, GreatestOfSome
  <2>4. i \in S /\ i \in 0 .. j - 1 /\ i < j /\ T \subseteq 0 .. i
    BY <2>2, <2>3
  <2>5. i \in FeasibleStarts(p, region, j)
    <3>1. \A k \in i + 1 .. j - 1 : k \notin S
      BY <2>3, <2>4
    <3>2. (i + 1 .. j - 1) \cap S = {}
      BY <3>1
    <3> QED
      BY <2>1, <2>4, <3>2
  <2>6. Strung(p, region, T, i)
    <3>1. {0, i} \subseteq T
      BY <2>2, <2>3
    <3>2. ASSUME NEW x \in T, NEW k \in T, x < k, (x + 1 .. k - 1) \cap T = {}
          PROVE  x \in FeasibleStarts(p, region, k)
      <4>1. j \notin x + 1 .. k - 1
        BY <2>2
      <4>2. (x + 1 .. k - 1) \cap S = {}
        BY <3>2, <4>1
      <4> QED
        BY <2>1, <3>2, <4>2
    <3> QED
      BY <2>4, <3>1, <3>2 DEF Strung
  <2>7. Len(c[i]) <= Cardinality(T) /\ Len(c[s]) <= Len(c[i]) /\ Len(c[i]) \in Nat
    BY <2>4, <2>5, <2>6 DEF IsFewest
  <2>8. Cardinality(T) = Cardinality(S) - 1 /\ Cardinality(S) \in Nat
    <3>1. IsFiniteSet(S)
      <4>1. IsFiniteSet(0 .. j) /\ S \in SUBSET (0 .. j)
        BY <2>1, FS_Interval
      <4> QED
        BY <4>1, FS_Subset
    <3> QED
      BY <2>1, <3>1, FS_RemoveElement, FS_CardinalityType
  <2> HIDE DEF T
  <2> QED
    BY <1>2, <1>3, <2>7, <2>8
<1> QED
  BY <1>3, <1>5, <1>6 DEF IsFewest, d

\* The first sample needs no other.
LEMMA FewestAtFirst ==
  ASSUME NEW p, NEW region
  PROVE  IsFewest(p, region, <<0>>, 0)
<1>1. Len(<<0>>) = 1 /\ Range(<<0>>) = {0}
  BY DEF Range
<1>2. Strung(p, region, {0}, 0)
  BY DEF Strung
<1>3. ASSUME NEW S, Strung(p, region, S, 0) PROVE 1 <= Cardinality(S)
  <2>1. S \subseteq 0 .. 0 /\ 0 \in S
    BY <1>3 DEF Strung
  <2>2. \A x \in 0 .. 0 : x = 0
    OBVIOUS
  <2>3. S = {0}
    BY <2>1, <2>2, Zenon
  <2>4. Cardinality({0}) = 1
    BY FS_Singleton
  <2> QED
    BY <2>3, <2>4
<1> QED
  BY <1>1, <1>2, <1>3 DEF IsFewest

\* The anchors of a region are the fewest there can be.
LEMMA RegionAnchorsAreFew ==
  ASSUME NEW p, NEW region, NEW n \in Nat \ {0}, SampleCount(p) = n
  PROVE  IsFewest(p, region, RegionAnchors(p, region), n - 1)
<1>0. PICK c : AreAnchors(p, region, n, c) /\ RegionAnchors(p, region) = c[n - 1]
  BY AnchorChains
<1>1. /\ c \in [0 .. n - 1 -> Seq(Nat)] /\ c[0] = <<0>>
      /\ \A j \in 1 .. n - 1 : c[j] = Extended(c, FeasibleStarts(p, region, j), j)
  BY <1>0 DEF AreAnchors
<1> DEFINE Few == {m \in 0 .. n - 1 : \A j \in 0 .. m : IsFewest(p, region, c[j], j)}
<1>2. 0 \in Few
  <2>1. 0 \in 0 .. n - 1 /\ \A j \in 0 .. 0 : j = 0
    OBVIOUS
  <2>2. IsFewest(p, region, c[0], 0)
    BY <1>1, FewestAtFirst
  <2>3. \A j \in 0 .. 0 : IsFewest(p, region, c[j], j)
    BY <2>1, <2>2, Zenon
  <2> QED
    BY <2>1, <2>3
<1>3. ASSUME NEW m \in 0 .. (n - 1) - 1, m \in Few PROVE m + 1 \in Few
  <2>1. /\ m + 1 \in 1 .. n - 1 /\ m + 1 \in 0 .. n - 1 /\ (m + 1) - 1 = m
        /\ m + 1 \in Nat \ {0}
        /\ \A j \in 0 .. m + 1 : j = m + 1 \/ j \in 0 .. m
        /\ \A j \in 0 .. m : j \in 0 .. n - 1
    OBVIOUS
  <2>2. \A i \in 0 .. (m + 1) - 1 : c[i] \in Seq(Nat) /\ IsFewest(p, region, c[i], i)
    <3>1. \A i \in 0 .. (m + 1) - 1 : i \in 0 .. m
      BY <2>1
    <3> QED
      BY <1>1, <1>3, <2>1, <3>1
  <2> DEFINE j == m + 1
             starts == FeasibleStarts(p, region, j)
  <2>3. j \in Nat \ {0} /\ c[j] = Extended(c, starts, j)
        /\ \A i \in 0 .. j - 1 : c[i] \in Seq(Nat) /\ IsFewest(p, region, c[i], i)
    BY <1>1, <2>1, <2>2
  <2> HIDE DEF j
  <2>4. starts \subseteq 0 .. j - 1 /\ starts # {}
    BY <2>3, FeasibleStartsAre
  <2>5. \A i \in starts : Len(c[i]) \in Nat
    BY <2>3, <2>4
  <2> HIDE DEF starts
  <2>6. PICK s \in starts : /\ Extended(c, starts, j) = Append(c[s], j)
                           /\ \A i \in starts : Len(c[s]) <= Len(c[i])
    BY <2>3, <2>4, <2>5, ExtendedFrom
  <2>7. IsFewest(p, region, Append(c[s], j), j)
    BY <2>3, <2>6, FewestGoesOn DEF starts
  <2>8. IsFewest(p, region, c[m + 1], m + 1)
    BY <2>3, <2>6, <2>7 DEF j
  <2> QED
    BY <1>3, <2>1, <2>8
<1>4. n - 1 \in Nat /\ n - 1 \in 0 .. n - 1
  OBVIOUS
<1>5. 0 .. n - 1 \subseteq Few
  <2> HIDE DEF Few
  <2> QED
    BY <1>2, <1>3, <1>4, IntervalInduction
<1> QED
  BY <1>0, <1>4, <1>5

------------------------------------------------------------------------------
(***************************************************************************)
(* Ways to cut the path, and the rows of the partition.                    *)
(***************************************************************************)
\* From 0 to b over c regions between the points of B, each within tolerance.
IsCut(e, B, cut, c, b) ==
  /\ cut \in [0 .. c -> B] /\ cut[0] = 0 /\ cut[c] = b
  /\ \A n \in 1 .. c : cut[n - 1] < cut[n] /\ Valid(e, <<cut[n - 1], cut[n]>>)

\* The keys of such a cut.
KeysOver(e, cut, c) == KeyCount(EmissionsOf(e, CutRegions(cut, c)))

\* What is within tolerance has a number of keys.
CountsKeys(e) ==
  \A r : Valid(e, r) => Len(e[r].keys.anchors) \in Nat

\* The numbers that a cut's keys are the sum of.
AreTerms(e, cut, c, s) ==
  /\ KeysOver(e, cut, c) = TotalOf(s) /\ Len(s) = c
  /\ \A n \in 1 .. c : s[n] = Len(e[<<cut[n - 1], cut[n]>>].keys.anchors)

\* Every cut has them.
LEMMA TermsOfKeys ==
  ASSUME NEW e, NEW cut, NEW c \in Nat
  PROVE  \E s : AreTerms(e, cut, c, s)
<1> DEFINE s == [n \in 1 .. c |-> Len(e[<<cut[n - 1], cut[n]>>].keys.anchors)]
           r == CutRegions(cut, c)
           m == EmissionsOf(e, r)
<1>1. DOMAIN r = 1 .. c /\ \A n \in 1 .. c : r[n] = <<cut[n - 1], cut[n]>>
  BY DEF CutRegions
<1> HIDE DEF r
<1>2. DOMAIN m = 1 .. c /\ \A n \in 1 .. c : m[n] = e[<<cut[n - 1], cut[n]>>]
  BY <1>1 DEF EmissionsOf
<1> HIDE DEF m
<1>3. [n \in DOMAIN m |-> Len(m[n].keys.anchors)] = s
  BY <1>2
<1>4. KeyCount(m) = TotalOf(s)
  BY <1>3 DEF KeyCount
<1>5. Len(s) = c /\ \A n \in 1 .. c :
        s[n] = Len(e[<<cut[n - 1], cut[n]>>].keys.anchors)
  OBVIOUS
<1> HIDE DEF s
<1> QED
  BY <1>4, <1>5 DEF AreTerms, KeysOver, m, r

\* No regions, no keys.
LEMMA NoCutNoKeys ==
  ASSUME NEW e, NEW cut
  PROVE  KeysOver(e, cut, 0) = 0
<1>1. PICK s : KeysOver(e, cut, 0) = TotalOf(s) /\ Len(s) = 0
  <2>1. 0 \in Nat
    OBVIOUS
  <2> QED
    BY <2>1, TermsOfKeys DEF AreTerms
<1> DEFINE f == [n \in {0} |-> 0]
<1>2. f[0] = 0 /\ \A n \in 1 .. Len(s) : f[n] = f[n - 1] + s[n]
  BY <1>1
<1> HIDE DEF f
<1>3. TotalOf(s) = f[Len(s)]
  <2>1. Len(s) \in Nat
    BY <1>1
  <2> QED
    BY <1>2, <2>1, TotalIs
<1> QED
  BY <1>1, <1>2, <1>3

\* The cut is d and one more region from s to b.
IsOneMore(e, B, cut, d, c, s, b) ==
  /\ d = [n \in 0 .. c |-> cut[n]]
  /\ IsCut(e, B, d, c, s) /\ s < b /\ Valid(e, <<s, b>>)
  /\ CutRegions(cut, c + 1) = Append(CutRegions(d, c), <<s, b>>)
  /\ CutRegions(d, c) \in Seq(B \X B)
  /\ KeysOver(e, d, c) \in Nat
  /\ KeysOver(e, cut, c + 1) = KeysOver(e, d, c) + Len(e[<<s, b>>].keys.anchors)

\* A cut is a shorter cut and one more region.
LEMMA CutSteps ==
  ASSUME NEW e, CountsKeys(e), NEW B, NEW c \in Nat, NEW b, NEW cut,
         IsCut(e, B, cut, c + 1, b)
  PROVE  \E s \in B : \E d : IsOneMore(e, B, cut, d, c, s, b)
<1> DEFINE d == [n \in 0 .. c |-> cut[n]]
<1>1. /\ c \in 0 .. c + 1 /\ c + 1 \in 1 .. c + 1 /\ (c + 1) - 1 = c /\ c \in 0 .. c
      /\ 0 \in 0 .. c /\ 0 .. c \subseteq 0 .. c + 1
      /\ \A n \in 1 .. c : n \in 0 .. c /\ n - 1 \in 0 .. c /\ n \in 1 .. c + 1
      /\ \A n \in 1 .. c + 1 : n = c + 1 \/ n \in 1 .. c
  OBVIOUS
<1>2. /\ cut \in [0 .. c + 1 -> B] /\ cut[0] = 0 /\ cut[c + 1] = b
      /\ \A n \in 1 .. c + 1 : cut[n - 1] < cut[n] /\ Valid(e, <<cut[n - 1], cut[n]>>)
  BY DEF IsCut
<1>3. d \in [0 .. c -> B] /\ \A n \in 0 .. c : d[n] = cut[n]
  BY <1>1, <1>2
<1> HIDE DEF d
<1>4. IsCut(e, B, d, c, cut[c])
  BY <1>1, <1>2, <1>3 DEF IsCut
<1>5. cut[c] \in B /\ cut[c] < b /\ Valid(e, <<cut[c], b>>)
  BY <1>1, <1>2
<1>6. /\ CutRegions(cut, c + 1) = Append(CutRegions(d, c), <<cut[c], b>>)
      /\ CutRegions(d, c) \in Seq(B \X B)
  <2> DEFINE x == CutRegions(d, c)
             y == CutRegions(cut, c + 1)
  <2>1. x \in Seq(B \X B) /\ Len(x) = c
        /\ \A n \in 1 .. c : x[n] = <<cut[n - 1], cut[n]>>
    <3>1. x = [n \in 1 .. c |-> <<d[n - 1], d[n]>>]
      BY DEF CutRegions
    <3>2. \A n \in 1 .. c : <<d[n - 1], d[n]>> \in B \X B
                            /\ <<d[n - 1], d[n]>> = <<cut[n - 1], cut[n]>>
      BY <1>1, <1>3
    <3> QED
      BY <3>1, <3>2
  <2>2. y = [n \in 1 .. c + 1 |-> <<cut[n - 1], cut[n]>>]
    BY DEF CutRegions
  <2> HIDE DEF x, y
  <2> DEFINE z == Append(x, <<cut[c], b>>)
  <2>3. /\ DOMAIN z = 1 .. c + 1 /\ z[c + 1] = <<cut[c], b>>
        /\ \A n \in 1 .. c : z[n] = x[n]
        /\ z = [n \in 1 .. c + 1 |-> z[n]]
    <3>1. <<cut[c], b>> \in B \X B
      BY <1>1, <1>2
    <3>2. z \in Seq(B \X B) /\ Len(z) = c + 1 /\ z[c + 1] = <<cut[c], b>>
          /\ \A n \in 1 .. c : z[n] = x[n]
      BY <2>1, <3>1
    <3> HIDE DEF z
    <3>3. DOMAIN z = 1 .. c + 1
      BY <3>2
    <3>4. z \in [1 .. c + 1 -> B \X B]
      BY <3>2
    <3> QED
      BY <3>2, <3>3, <3>4
  <2> HIDE DEF z
  <2>4. \A n \in 1 .. c + 1 : z[n] = <<cut[n - 1], cut[n]>>
    BY <1>1, <1>2, <2>1, <2>3
  <2>5. z = y
    <3>1. y = [n \in 1 .. c + 1 |-> z[n]]
      BY <2>2, <2>4
    <3>2. z = [n \in 1 .. c + 1 |-> z[n]]
      BY <2>3, Zenon
    <3> QED
      BY <3>1, <3>2, Zenon
  <2> QED
    BY <2>1, <2>5 DEF x, y, z
<1>7. KeysOver(e, d, c) \in Nat
      /\ KeysOver(e, cut, c + 1)
           = KeysOver(e, d, c) + Len(e[<<cut[c], b>>].keys.anchors)
  <2>1. PICK s : /\ KeysOver(e, d, c) = TotalOf(s) /\ Len(s) = c
                 /\ \A n \in 1 .. c : s[n] = Len(e[<<d[n - 1], d[n]>>].keys.anchors)
    <3>1. \E s : AreTerms(e, d, c, s)
      BY TermsOfKeys
    <3> QED
      BY <3>1 DEF AreTerms
  <2>2. PICK t : /\ KeysOver(e, cut, c + 1) = TotalOf(t) /\ Len(t) = c + 1
                 /\ \A n \in 1 .. c + 1 :
                      t[n] = Len(e[<<cut[n - 1], cut[n]>>].keys.anchors)
    <3> DEFINE m == c + 1
    <3>1. m \in Nat
      OBVIOUS
    <3> HIDE DEF m
    <3>2. \E t : AreTerms(e, cut, m, t)
      BY <3>1, TermsOfKeys
    <3> QED
      BY <3>2 DEF m, AreTerms
  <2>3. \A k \in 1 .. c : t[k] = s[k]
    BY <1>1, <1>3, <2>1, <2>2, ZenonT(30)
  <2>4. \A k \in 1 .. c + 1 : t[k] \in Nat
    BY <1>2, <2>2 DEF CountsKeys
  <2>5. TotalOf(s) \in Nat /\ TotalOf(t) = TotalOf(s) + t[c + 1]
    BY <2>1, <2>2, <2>3, <2>4, TotalGrows
  <2>6. t[c + 1] = Len(e[<<cut[c], b>>].keys.anchors)
    BY <1>1, <1>2, <2>2
  <2> QED
    BY <2>1, <2>2, <2>5, <2>6
<1> QED
  BY <1>4, <1>5, <1>6, <1>7 DEF d, IsOneMore

\* One more region after a cut.
LEMMA CutGrows ==
  ASSUME NEW e, CountsKeys(e), NEW B, NEW c \in Nat, NEW s, NEW d,
         IsCut(e, B, d, c, s), NEW b \in B, s < b, Valid(e, <<s, b>>)
  PROVE  \E cut : IsCut(e, B, cut, c + 1, b) /\ IsOneMore(e, B, cut, d, c, s, b)
<1> DEFINE cut == [n \in 0 .. c + 1 |-> IF n = c + 1 THEN b ELSE d[n]]
<1>1. /\ c \in 0 .. c /\ c + 1 \in 0 .. c + 1 /\ c # c + 1 /\ 0 # c + 1 /\ (c + 1) - 1 = c
      /\ \A n \in 0 .. c + 1 : n = c + 1 \/ n \in 0 .. c
      /\ \A n \in 0 .. c : n \in 0 .. c + 1 /\ n # c + 1
      /\ \A n \in 1 .. c : n \in 0 .. c /\ n - 1 \in 0 .. c
      /\ \A n \in 1 .. c + 1 : n = c + 1 \/ n \in 1 .. c
      /\ 0 \in 0 .. c
  OBVIOUS
<1>2. /\ d \in [0 .. c -> B] /\ d[0] = 0 /\ d[c] = s
      /\ \A n \in 1 .. c : d[n - 1] < d[n] /\ Valid(e, <<d[n - 1], d[n]>>)
  BY DEF IsCut
<1>3. cut \in [0 .. c + 1 -> B] /\ cut[c + 1] = b /\ \A n \in 0 .. c : cut[n] = d[n]
  BY <1>1, <1>2
<1> HIDE DEF cut
<1>4. IsCut(e, B, cut, c + 1, b)
  <2>1. \A n \in 1 .. c + 1 : cut[n - 1] < cut[n] /\ Valid(e, <<cut[n - 1], cut[n]>>)
    BY <1>1, <1>2, <1>3
  <2> QED
    BY <1>1, <1>2, <1>3, <2>1 DEF IsCut
<1>5. PICK z \in B : \E x : IsOneMore(e, B, cut, x, c, z, b)
  BY <1>4, CutSteps
<1>6. PICK x : IsOneMore(e, B, cut, x, c, z, b)
  BY <1>5
<1>7. x = d
  BY <1>2, <1>3, <1>6 DEF IsOneMore
<1>8. z = s
  BY <1>2, <1>6, <1>7 DEF IsCut, IsOneMore
<1> QED
  BY <1>4, <1>6, <1>7, <1>8

\* The best of some partitions is one of them, and none has a lower score.
LEMMA BestOfJoined ==
  ASSUME NEW J, J # {},
         \A q \in J : q.score \in Nat /\ Last(q.regions)[1] \in Nat
  PROVE  BestJoin(J) \in J /\ \A q \in J : BestJoin(J).score <= q.score
<1> DEFINE Scores == {q.score : q \in J}
<1>1. PICK least \in Scores : \A y \in Scores : least <= y
  <2>1. Scores \subseteq Nat /\ Scores # {}
    OBVIOUS
  <2> HIDE DEF Scores
  <2> QED
    BY <2>1, LeastOfSome
<1> DEFINE Firsts == {Last(q.regions)[1] : q \in {j \in J : j.score = least}}
<1>2. PICK first \in Firsts : \A y \in Firsts : first <= y
  <2>1. Firsts \subseteq Nat /\ Firsts # {}
    OBVIOUS
  <2> HIDE DEF Firsts
  <2> QED
    BY <2>1, LeastOfSome
<1>3. PICK p \in J : p.score = least /\ Last(p.regions)[1] = first
  BY <1>2
<1>4. \A q \in J : \/ p.score < q.score
                   \/ p.score = q.score /\ Last(p.regions)[1] <= Last(q.regions)[1]
  <2> SUFFICES ASSUME NEW q \in J, ~(p.score < q.score)
               PROVE  p.score = q.score /\ Last(p.regions)[1] <= Last(q.regions)[1]
    OBVIOUS
  <2>1. p.score <= q.score
    BY <1>1, <1>3
  <2>2. p.score = q.score
    BY <2>1
  <2> QED
    BY <1>2, <1>3, <2>2
<1> DEFINE AsGood(p_, q) ==
             \/ p_.score < q.score
             \/ p_.score = q.score /\ Last(p_.regions)[1] <= Last(q.regions)[1]
<1>5. BestJoin(J) = CHOOSE p_ \in J : \A q \in J : AsGood(p_, q)
  BY DEF BestJoin
<1>6. \E p_ \in J : \A q \in J : AsGood(p_, q)
  BY <1>4
<1>7. BestJoin(J) \in J /\ \A q \in J : AsGood(BestJoin(J), q)
  <2> HIDE DEF AsGood
  <2> QED
    BY <1>5, <1>6
<1> QED
  BY <1>7

\* What the partition pays for the keys of c regions.
ScoreOf(keys, c) == KeyScore * keys + c

\* For each point, a cut into c regions up to it with the lowest score, if there
\* is a cut.
IsBestOver(e, B, c, b, partition) ==
  /\ Reached(partition) =>
       \E cut : /\ IsCut(e, B, cut, c, b)
                /\ partition.regions = CutRegions(cut, c)
                /\ KeysOver(e, cut, c) \in Nat
                /\ partition.score = ScoreOf(KeysOver(e, cut, c), c)
  /\ \A cut : IsCut(e, B, cut, c, b) =>
       /\ Reached(partition)
       /\ partition.score <= ScoreOf(KeysOver(e, cut, c), c)

AreBest(e, B, c, row) ==
  /\ row \in [B -> [score : Int, regions : Seq(B \X B)]]
  /\ \A b \in B : IsBestOver(e, B, c, b, row[b])

\* Into no regions, only the start is reached.
LEMMA NoRegionsAreBest ==
  ASSUME NEW e, NEW B, B \subseteq Nat
  PROVE  AreBest(e, B, 0, NoRegions(B))
<1>1. NoRegions(B) \in [B -> [score : Int, regions : Seq(B \X B)]]
  <2>1. <<>> \in Seq(B \X B)
    OBVIOUS
  <2> QED
    BY <2>1 DEF NoRegions, Unreached
<1>2. ASSUME NEW b \in B PROVE IsBestOver(e, B, 0, b, NoRegions(B)[b])
  <2>1. ASSUME NEW cut, IsCut(e, B, cut, 0, b) PROVE b = 0
    BY <2>1 DEF IsCut
  <2>2. CASE b = 0
    <3> DEFINE cut == [n \in 0 .. 0 |-> 0]
    <3>1. IsCut(e, B, cut, 0, 0)
      BY <2>2 DEF IsCut
    <3>2. CutRegions(cut, 0) = <<>>
      BY DEF CutRegions
    <3>3. \A d : KeysOver(e, d, 0) = 0
      BY NoCutNoKeys
    <3>4. NoRegions(B)[b].score = 0 /\ NoRegions(B)[b].regions = <<>>
      BY <2>2 DEF NoRegions
    <3>5. Reached(NoRegions(B)[b])
      BY <3>4 DEF Reached
    <3>6. ScoreOf(0, 0) = 0
      BY DEF ScoreOf, KeyScore
    <3> HIDE DEF cut
    <3> QED
      BY <2>2, <3>1, <3>2, <3>3, <3>4, <3>5, <3>6 DEF IsBestOver
  <2>3. CASE b # 0
    <3>1. ~Reached(NoRegions(B)[b])
      BY <2>3 DEF NoRegions, Unreached, Reached
    <3> QED
      BY <2>1, <2>3, <3>1 DEF IsBestOver
  <2> QED
    BY <2>2, <2>3
<1> QED
  BY <1>1, <1>2 DEF AreBest

\* q is a cut into c regions up to b, the last of them from s.
IsJoin(e, B, c, b, s, cut, q) ==
  /\ IsCut(e, B, cut, c, b)
  /\ q.regions = CutRegions(cut, c) /\ q.regions \in Seq(B \X B)
  /\ Last(q.regions)[1] = s
  /\ KeysOver(e, cut, c) \in Nat
  /\ q.score = ScoreOf(KeysOver(e, cut, c), c) /\ q.score \in Nat
  /\ q \in [score : Int, regions : Seq(B \X B)]

\* What is joined at a point, for one more region.
LEMMA JoinedIs ==
  ASSUME NEW e, CountsKeys(e), NEW B, B \subseteq Nat, NEW c \in Nat, NEW row,
         AreBest(e, B, c, row), NEW s \in B, NEW b \in B, s < b, Reached(row[s]),
         Valid(e, <<s, b>>)
  PROVE  \E cut : IsJoin(e, B, c + 1, b, s, cut, Join(e, row[s], <<s, b>>))
<1>1. PICK d : /\ IsCut(e, B, d, c, s)
               /\ row[s].regions = CutRegions(d, c)
               /\ row[s].score = ScoreOf(KeysOver(e, d, c), c)
  BY DEF AreBest, IsBestOver
<1>2. PICK cut : IsCut(e, B, cut, c + 1, b) /\ IsOneMore(e, B, cut, d, c, s, b)
  BY <1>1, CutGrows
<1> DEFINE q == Join(e, row[s], <<s, b>>)
           k == Len(e[<<s, b>>].keys.anchors)
<1>3. /\ q.score = row[s].score + KeyScore * k + RegionPenalty
      /\ q.regions = Append(row[s].regions, <<s, b>>)
      /\ q = [score |-> q.score, regions |-> q.regions]
  BY DEF Join
<1>4. k \in Nat
  BY DEF CountsKeys
<1> HIDE DEF q, k
<1>5. /\ CutRegions(cut, c + 1) = Append(CutRegions(d, c), <<s, b>>)
      /\ CutRegions(d, c) \in Seq(B \X B)
      /\ KeysOver(e, d, c) \in Nat
      /\ KeysOver(e, cut, c + 1) = KeysOver(e, d, c) + k
  BY <1>2 DEF IsOneMore, k
<1>6. q.regions = CutRegions(cut, c + 1) /\ q.regions \in Seq(B \X B)
      /\ Last(q.regions)[1] = s
  <2>1. <<s, b>> \in B \X B
    OBVIOUS
  <2>2. q.regions = Append(CutRegions(d, c), <<s, b>>)
    BY <1>1, <1>3
  <2>3. \A x \in Seq(B \X B) : Append(x, <<s, b>>) \in Seq(B \X B)
                               /\ Last(Append(x, <<s, b>>)) = <<s, b>>
    BY <2>1 DEF Last
  <2>4. q.regions \in Seq(B \X B) /\ Last(q.regions) = <<s, b>>
    BY <1>5, <2>2, <2>3
  <2> QED
    BY <1>5, <2>2, <2>4
<1>7. KeysOver(e, cut, c + 1) \in Nat
      /\ q.score = ScoreOf(KeysOver(e, cut, c + 1), c + 1) /\ q.score \in Nat
  <2> DEFINE x == KeysOver(e, d, c)
             y == KeysOver(e, cut, c + 1)
  <2>1. x \in Nat /\ y = x + k /\ q.score = ScoreOf(x, c) + KeyScore * k + RegionPenalty
    BY <1>1, <1>3, <1>5
  <2> HIDE DEF x, y
  <2>2. y \in Nat /\ q.score = ScoreOf(y, c + 1) /\ q.score \in Nat
    BY <1>4, <2>1 DEF ScoreOf, KeyScore, RegionPenalty
  <2> QED
    BY <2>2 DEF y
<1>8. q \in [score : Int, regions : Seq(B \X B)]
  <2>1. q.score \in Int
    BY <1>7
  <2> QED
    BY <1>3, <1>6, <2>1
<1> QED
  BY <1>2, <1>6, <1>7, <1>8 DEF q, IsJoin

\* The row for one more region.
LEMMA NextRowIsBest ==
  ASSUME NEW e, CountsKeys(e), NEW B, B \subseteq Nat, NEW c \in Nat, NEW row,
         AreBest(e, B, c, row)
  PROVE  AreBest(e, B, c + 1, NextRow(e, row))
<1> DEFINE Starts(b) == {s \in B : s < b /\ Reached(row[s]) /\ Valid(e, <<s, b>>)}
           Joined(b) == {Join(e, row[s], <<s, b>>) : s \in Starts(b)}
           next == NextRow(e, row)
<1>1. DOMAIN row = B
  BY DEF AreBest
<1>2. next = [b \in B |-> BestJoin(Joined(b))]
  BY <1>1 DEF NextRow
<1> HIDE DEF next
<1>3. ASSUME NEW b \in B, Joined(b) # {}
      PROVE  /\ BestJoin(Joined(b)) \in Joined(b)
             /\ \A q \in Joined(b) : BestJoin(Joined(b)).score <= q.score
  <2> DEFINE J == Joined(b)
  <2>1. \A q \in J : q.score \in Nat /\ Last(q.regions)[1] \in Nat
    <3>1. ASSUME NEW q \in J
          PROVE  q.score \in Nat /\ Last(q.regions)[1] \in Nat
      <4>1. PICK s \in B : /\ s < b /\ Reached(row[s]) /\ Valid(e, <<s, b>>)
                           /\ q = Join(e, row[s], <<s, b>>)
        OBVIOUS
      <4>2. PICK cut : IsJoin(e, B, c + 1, b, s, cut, Join(e, row[s], <<s, b>>))
        BY <4>1, JoinedIs
      <4> QED
        BY <4>1, <4>2 DEF IsJoin
    <3> QED
      BY <3>1
  <2> HIDE DEF J
  <2>2. J # {} => BestJoin(J) \in J /\ \A q \in J : BestJoin(J).score <= q.score
    BY <2>1, BestOfJoined
  <2> QED
    BY <1>3, <2>2 DEF J
<1>4. ASSUME NEW b \in B
      PROVE  /\ next[b] \in [score : Int, regions : Seq(B \X B)]
             /\ IsBestOver(e, B, c + 1, b, next[b])
  <2>1. next[b] = BestJoin(Joined(b))
    BY <1>2
  <2>2. CASE Joined(b) = {}
    <3>1. next[b] = Unreached
      BY <2>1, <2>2 DEF BestJoin
    <3>2. ~Reached(next[b]) /\ next[b] \in [score : Int, regions : Seq(B \X B)]
      <4>1. <<>> \in Seq(B \X B)
        OBVIOUS
      <4> QED
        BY <3>1, <4>1 DEF Unreached, Reached
    <3>3. ASSUME NEW cut, IsCut(e, B, cut, c + 1, b) PROVE FALSE
      <4>1. PICK s \in B : \E d : IsOneMore(e, B, cut, d, c, s, b)
        BY <3>3, CutSteps
      <4>2. PICK d : IsOneMore(e, B, cut, d, c, s, b)
        BY <4>1
      <4>3. Reached(row[s]) /\ s < b /\ Valid(e, <<s, b>>)
        BY <4>2 DEF IsOneMore, AreBest, IsBestOver
      <4>4. Join(e, row[s], <<s, b>>) \in Joined(b)
        BY <4>3
      <4> QED
        BY <2>2, <4>4
    <3> QED
      BY <3>2, <3>3 DEF IsBestOver
  <2>3. CASE Joined(b) # {}
    <3>1. /\ next[b] \in Joined(b)
          /\ \A q \in Joined(b) : next[b].score <= q.score
      BY <1>3, <2>1, <2>3
    <3>2. PICK s \in B : /\ s < b /\ Reached(row[s]) /\ Valid(e, <<s, b>>)
                         /\ next[b] = Join(e, row[s], <<s, b>>)
      BY <3>1
    <3>3. PICK cut : IsJoin(e, B, c + 1, b, s, cut, Join(e, row[s], <<s, b>>))
      BY <3>2, JoinedIs
    <3>4. /\ IsCut(e, B, cut, c + 1, b)
          /\ next[b].regions = CutRegions(cut, c + 1)
          /\ KeysOver(e, cut, c + 1) \in Nat
          /\ next[b].score = ScoreOf(KeysOver(e, cut, c + 1), c + 1)
          /\ next[b].score \in Nat
          /\ next[b] \in [score : Int, regions : Seq(B \X B)]
      BY <3>2, <3>3 DEF IsJoin
    <3>5. Reached(next[b])
      BY <3>4 DEF Reached
    <3>6. ASSUME NEW x, IsCut(e, B, x, c + 1, b)
          PROVE  next[b].score <= ScoreOf(KeysOver(e, x, c + 1), c + 1)
      <4>1. PICK z \in B : \E d : IsOneMore(e, B, x, d, c, z, b)
        BY <3>6, CutSteps
      <4>2. PICK d : IsOneMore(e, B, x, d, c, z, b)
        BY <4>1
      <4> DEFINE k == Len(e[<<z, b>>].keys.anchors)
                 q == Join(e, row[z], <<z, b>>)
      <4>3. Reached(row[z]) /\ z < b /\ Valid(e, <<z, b>>) /\ row[z].score \in Int
            /\ row[z].score <= ScoreOf(KeysOver(e, d, c), c)
        BY <4>2 DEF IsOneMore, AreBest, IsBestOver
      <4>4. q \in Joined(b)
        BY <4>3
      <4>5. next[b].score <= q.score
        BY <3>1, <4>4
      <4>6. q.score = row[z].score + KeyScore * k + RegionPenalty
        BY DEF Join
      <4>7. k \in Nat /\ KeysOver(e, d, c) \in Nat
            /\ KeysOver(e, x, c + 1) = KeysOver(e, d, c) + k
        BY <4>2, <4>3 DEF CountsKeys, IsOneMore
      <4> HIDE DEF q, k
      <4> DEFINE m == KeysOver(e, d, c)
                 r == row[z].score
      <4>8. q.score = r + 20 * k + 1 /\ r \in Int /\ m \in Nat /\ r <= 20 * m + c
            /\ KeysOver(e, x, c + 1) = m + k
        BY <4>3, <4>6, <4>7 DEF KeyScore, RegionPenalty, ScoreOf
      <4> HIDE DEF m, r
      <4>9. q.score <= 20 * (m + k) + (c + 1) /\ q.score \in Int
        BY <4>7, <4>8
      <4>10. q.score <= ScoreOf(KeysOver(e, x, c + 1), c + 1)
             /\ ScoreOf(KeysOver(e, x, c + 1), c + 1) \in Int
        BY <4>7, <4>8, <4>9 DEF ScoreOf, KeyScore
      <4> QED
        BY <3>4, <4>5, <4>9, <4>10
    <3> QED
      BY <3>4, <3>5, <3>6 DEF IsBestOver
  <2> QED
    BY <2>2, <2>3
<1>5. next \in [B -> [score : Int, regions : Seq(B \X B)]]
  BY <1>2, <1>4
<1> QED
  BY <1>4, <1>5 DEF AreBest, next

\* For each number of regions up to n, a cut of the lowest score.
ArePartitions(e, B, v, n, P) ==
  /\ DOMAIN P = 1 .. n
  /\ \A c \in 1 .. n : P[c].score \in Int /\ IsBestOver(e, B, c, v, P[c])

\* This is what the recurrence finds.
LEMMA PartitionsAreBest ==
  ASSUME NEW e, CountsKeys(e), NEW v \in Nat, NEW B, B \subseteq 0 .. v, v \in B,
         NEW n \in Nat
  PROVE  ArePartitions(e, B, v, n, Partitions(e, B, n))
<1> DEFINE T == {r \in [B -> [score : Int, regions : Seq(B \X B)]] :
                   \E c \in Nat : AreBest(e, B, c, r)}
           next == [k \in 1 .. n |-> [r \in T |-> NextRow(e, r)]]
           Val(g, c) == IF c = 0 THEN NoRegions(B) ELSE NextRow(e, g[c - 1])
           row == CHOOSE g : g = [c \in 0 .. n |-> Val(g, c)]
<1>1. B \subseteq Nat
  OBVIOUS
<1>2. AreBest(e, B, 0, NoRegions(B))
  BY <1>1, NoRegionsAreBest
<1>3. NoRegions(B) \in T
  BY <1>2 DEF AreBest
<1>4. ASSUME NEW r \in T PROVE NextRow(e, r) \in T
  <2>1. PICK c \in Nat : AreBest(e, B, c, r)
    OBVIOUS
  <2>2. AreBest(e, B, c + 1, NextRow(e, r))
    <3> HIDE DEF T, next, Val, row
    <3> QED
      BY <1>1, <2>1, NextRowIsBest
  <2>3. c + 1 \in Nat
    OBVIOUS
  <2> QED
    BY <2>2, <2>3 DEF AreBest
<1>5. next \in [1 .. n -> [T -> T]]
      /\ \A k \in 1 .. n, r \in T : next[k][r] = NextRow(e, r)
  <2> HIDE DEF T
  <2> QED
    BY <1>4
<1>6. PICK g \in [0 .. n -> T] :
        g[0] = NoRegions(B) /\ \A k \in 1 .. n : g[k] = next[k][g[k - 1]]
  <2> DEFINE a == NoRegions(B)
  <2>1. a \in T /\ next \in [1 .. n -> [T -> T]]
    BY <1>3, <1>5
  <2> HIDE DEF a, T, next, Val, row
  <2>2. \E g : IsRun(T, a, n, next, g)
    BY <2>1, Repeated
  <2> QED
    BY <2>2 DEF a, IsRun
<1>7. \A c \in 0 .. n : g[c] = Val(g, c)
  <2>1. \A c \in 0 .. n : c # 0 => c \in 1 .. n /\ c - 1 \in 0 .. n
    OBVIOUS
  <2> HIDE DEF T, next
  <2>2. \A k \in 1 .. n : k - 1 \in 0 .. n => g[k] = NextRow(e, g[k - 1])
    BY <1>5, <1>6
  <2> QED
    BY <1>6, <2>1, <2>2
<1>8. row = [c \in 0 .. n |-> Val(row, c)]
  <2> HIDE DEF Val, T, next
  <2>1. g = [c \in 0 .. n |-> Val(g, c)]
    BY <1>6, <1>7
  <2> QED
    BY <2>1
<1>9. \A c \in 0 .. n : row[c] = Val(row, c)
  <2> HIDE DEF row, Val
  <2> QED
    BY <1>8
<1>10. Partitions(e, B, n) = [c \in 1 .. n |-> row[c][Max(B)]]
  BY DEF Partitions
<1> HIDE DEF row, T, next
<1> DEFINE Good == {c \in 0 .. n : AreBest(e, B, c, row[c])}
<1>11. 0 \in Good
  <2>1. 0 \in 0 .. n
    OBVIOUS
  <2>2. row[0] = NoRegions(B)
    BY <1>9, <2>1
  <2> QED
    BY <1>2, <2>1, <2>2
<1>12. ASSUME NEW c \in 0 .. n - 1, c \in Good PROVE c + 1 \in Good
  <2>1. c + 1 \in 0 .. n /\ c + 1 # 0 /\ (c + 1) - 1 = c /\ c \in Nat
    OBVIOUS
  <2>2. row[c + 1] = NextRow(e, row[c])
    BY <1>9, <2>1
  <2>3. AreBest(e, B, c, row[c])
    BY <1>12
  <2> DEFINE r == row[c]
  <2>4. AreBest(e, B, c + 1, NextRow(e, r))
    <3> HIDE DEF r
    <3>1. AreBest(e, B, c, r)
      BY <2>3 DEF r
    <3> QED
      BY <1>1, <2>1, <3>1, NextRowIsBest
  <2>5. AreBest(e, B, c + 1, row[c + 1])
    BY <2>2, <2>4
  <2> QED
    BY <2>1, <2>5
<1>13. \A c \in 0 .. n : AreBest(e, B, c, row[c])
  <2>1. 0 .. n \subseteq Good
    <3> HIDE DEF Good
    <3> QED
      BY <1>11, <1>12, IntervalInduction
  <2> QED
    BY <2>1
<1>14. Max(B) = v
  <2>1. Max(B) \in B /\ \A y \in B : y <= Max(B)
    BY MaxIsGreatest
  <2> DEFINE m == Max(B)
  <2>2. m \in 0 .. v /\ v <= m
    BY <2>1
  <2> HIDE DEF m
  <2>3. m = v
    BY <2>2
  <2> QED
    BY <2>3 DEF m
<1>15. ASSUME NEW c \in 1 .. n
       PROVE  /\ Partitions(e, B, n)[c].score \in Int
              /\ IsBestOver(e, B, c, v, Partitions(e, B, n)[c])
  <2>1. Partitions(e, B, n)[c] = row[c][v]
    BY <1>10, <1>14
  <2>2. c \in 0 .. n
    OBVIOUS
  <2>3. AreBest(e, B, c, row[c])
    BY <1>13, <2>2
  <2> QED
    BY <2>1, <2>3 DEF AreBest
<1> QED
  BY <1>10, <1>15 DEF ArePartitions

\* best is the reached count with the lowest score, the least of them on ties.
IsLowest(partitions, counts, best) ==
  /\ best \in counts /\ Reached(partitions[best])
  /\ \A d \in counts : Reached(partitions[d]) =>
       \/ partitions[best].score < partitions[d].score
       \/ partitions[best].score = partitions[d].score /\ best <= d

\* The best number of regions, if any number is reached.
LEMMA BestOfIsLowest ==
  ASSUME NEW partitions, NEW counts, counts \subseteq Nat \ {0},
         \A c \in counts : partitions[c].score \in Int
  PROVE  IF \E c \in counts : Reached(partitions[c])
         THEN IsLowest(partitions, counts, BestOf(partitions, counts))
         ELSE BestOf(partitions, counts) = 0
<1> DEFINE reached == {c \in counts : Reached(partitions[c])}
           AsGood(c, d) ==
             \/ partitions[c].score < partitions[d].score
             \/ partitions[c].score = partitions[d].score /\ c <= d
<1>1. BestOf(partitions, counts)
        = IF reached = {} THEN 0
          ELSE CHOOSE c \in reached : \A d \in reached : AsGood(c, d)
  BY DEF BestOf
<1>2. CASE reached = {}
  BY <1>1, <1>2
<1>3. CASE reached # {}
  <2> DEFINE Scores == {partitions[c].score : c \in reached}
  <2>1. ASSUME NEW c \in reached PROVE partitions[c].score \in Nat /\ c \in Nat
    <3> DEFINE score == partitions[c].score
    <3>1. c \in counts /\ score >= 0
      BY DEF Reached
    <3>2. score \in Int /\ c \in Nat
      BY <3>1
    <3> HIDE DEF score
    <3>3. score \in Nat
      BY <3>1, <3>2
    <3> QED
      BY <3>2, <3>3 DEF score
  <2>2. PICK least \in Scores : \A y \in Scores : least <= y
    <3>1. Scores \subseteq Nat /\ Scores # {}
      BY <1>3, <2>1
    <3> HIDE DEF Scores
    <3> QED
      BY <3>1, LeastOfSome
  <2> DEFINE Ties == {c \in reached : partitions[c].score = least}
  <2>3. PICK first \in Ties : \A c \in Ties : first <= c
    <3>1. Ties \subseteq Nat /\ Ties # {}
      BY <2>1
    <3> HIDE DEF Ties
    <3> QED
      BY <3>1, LeastOfSome
  <2>4. ASSUME NEW d \in reached PROVE AsGood(first, d)
    <3>1. partitions[first].score = least /\ first \in reached
      BY <2>3
    <3>2. least <= partitions[d].score
      BY <2>2
    <3>3. partitions[d].score = least => first <= d
      BY <2>3
    <3>4. least \in Nat /\ partitions[d].score \in Nat
      BY <2>1, <3>1
    <3> HIDE DEF reached, Scores, Ties
    <3> QED
      BY <3>1, <3>2, <3>3, <3>4
  <2>5. \E c \in reached : \A d \in reached : AsGood(c, d)
    BY <2>3, <2>4
  <2>6. LET best == BestOf(partitions, counts)
        IN best \in reached /\ \A d \in reached : AsGood(best, d)
    <3> HIDE DEF AsGood
    <3> QED
      BY <1>1, <1>3, <2>5
  <2> QED
    BY <1>3, <2>6 DEF IsLowest
<1> QED
  BY <1>2, <1>3

------------------------------------------------------------------------------
(***************************************************************************)
(* How many regions there are at most.                                     *)
(***************************************************************************)
\* With a higher score, or as high and a lower number.
AheadOf(n, score, b) ==
  {c \in 1 .. n : score[c] > score[b] \/ (score[c] = score[b] /\ c < b)}

\* Only so many of some things have fewer than that ahead of them.
LEMMA FewAreAheadOfFew ==
  ASSUME NEW n \in Nat, NEW score, \A b \in 1 .. n : score[b] \in Nat,
         NEW m \in Nat
  PROVE  LET few == {b \in 1 .. n : Cardinality(AheadOf(n, score, b)) < m}
         IN IsFiniteSet(few) /\ Cardinality(few) <= m
<1> DEFINE Before(b) == AheadOf(n, score, b)
           few == {b \in 1 .. n : Cardinality(Before(b)) < m}
           Scores == {score[b] : b \in few}
<1>1. IsFiniteSet(1 .. n) /\ IsFiniteSet(few)
  <2>1. IsFiniteSet(1 .. n)
    BY FS_Interval
  <2>2. few \in SUBSET (1 .. n)
    OBVIOUS
  <2> HIDE DEF few
  <2> QED
    BY <2>1, <2>2, FS_Subset
<1>2. CASE few = {}
  BY <1>1, <1>2, FS_EmptySet
<1>3. CASE few # {}
  <2>1. PICK least \in Scores : \A y \in Scores : least <= y
    <3>1. Scores \subseteq Nat /\ Scores # {}
      BY <1>3
    <3> HIDE DEF Scores
    <3> QED
      BY <3>1, LeastOfSome
  <2> DEFINE Ties == {b \in few : score[b] = least}
  <2>2. PICK b \in Ties : \A c \in Ties : c <= b
    <3>1. Ties \subseteq 0 .. n /\ Ties # {}
      OBVIOUS
    <3> HIDE DEF Ties
    <3> QED
      BY <3>1, GreatestOfSome
  <2>3. b \in few /\ b \in 1 .. n /\ score[b] = least
    BY <2>2
  <2>4. few \ {b} \subseteq Before(b)
    <3>1. ASSUME NEW c \in few, c # b
          PROVE  score[c] > score[b] \/ (score[c] = score[b] /\ c < b)
      <4>1. c \in 1 .. n /\ score[c] \in Scores /\ least <= score[c]
        BY <2>1
      <4>2. score[c] = least => c <= b
        BY <2>2, <3>1
      <4>3. score[c] \in Nat /\ score[b] \in Nat
        BY <2>3, <4>1
      <4> HIDE DEF few, Scores, Ties
      <4> QED
        BY <2>3, <3>1, <4>1, <4>2, <4>3
    <3> QED
      BY <2>3, <3>1 DEF AheadOf
  <2>5. IsFiniteSet(Before(b)) /\ Cardinality(Before(b)) \in Nat
    <3>1. Before(b) \in SUBSET (1 .. n)
      BY DEF AheadOf
    <3> QED
      BY <1>1, <3>1, FS_Subset, FS_CardinalityType
  <2>6. Cardinality(few \ {b}) <= Cardinality(Before(b))
    <3>1. few \ {b} \in SUBSET Before(b)
      BY <2>4
    <3> QED
      BY <2>5, <3>1, FS_Subset
  <2>7. Cardinality(few \ {b}) = Cardinality(few) - 1 /\ Cardinality(few) \in Nat
    BY <1>1, <2>3, FS_RemoveElement, FS_CardinalityType
  <2>8. Cardinality(Before(b)) < m
    BY <2>3
  <2> HIDE DEF few
  <2>9. Cardinality(few) <= m
    BY <2>5, <2>6, <2>7, <2>8
  <2> QED
    BY <1>1, <2>9 DEF few
<1> QED
  BY <1>2, <1>3

\* Moved on differently by a natural number.
LEMMA ScoresAreNumbers ==
  ASSUME NEW p, IsPath(p), NEW b \in 1 .. VertexCount(p) - 1
  PROVE  BoundaryScore(p, b) \in Nat
<1> DEFINE v == VertexCount(p)
           n == SampleCount(p)
           Moved(x, k) == p[x][k] - p[x][0]
           s == [k \in 1 .. n |-> Morph!Distance(Moved(b - 1, k - 1), Moved(b, k - 1))]
<1>1. v \in Nat \ {0} /\ n \in Nat \ {0} /\ p \in [0 .. v - 1 -> [0 .. n - 1 -> Int]]
  BY DEF IsPath
<1>2. BoundaryScore(p, b) = TotalOf(s)
  BY DEF BoundaryScore
<1>3. b \in 1 .. v - 1
  OBVIOUS
<1> HIDE DEF v, n
<1>4. \A k \in 1 .. n : s[k] \in Nat
  <2>1. b - 1 \in 0 .. v - 1 /\ b \in 0 .. v - 1 /\ 0 \in 0 .. n - 1
    BY <1>1, <1>3
  <2>2. ASSUME NEW k \in 1 .. n
        PROVE  Moved(b - 1, k - 1) \in Int /\ Moved(b, k - 1) \in Int
    <3>1. k - 1 \in 0 .. n - 1
      BY <1>1
    <3>2. p[b - 1] \in [0 .. n - 1 -> Int] /\ p[b] \in [0 .. n - 1 -> Int]
      BY <1>1, <2>1
    <3>3. p[b - 1][k - 1] \in Int /\ p[b - 1][0] \in Int
          /\ p[b][k - 1] \in Int /\ p[b][0] \in Int
      BY <2>1, <3>1, <3>2
    <3> QED
      BY <3>3
  <2> HIDE DEF Moved
  <2>3. \A x, y \in Int : Morph!Distance(x, y) \in Nat
    BY DEF Morph!Distance
  <2>4. \A k \in 1 .. n : s[k] = Morph!Distance(Moved(b - 1, k - 1), Moved(b, k - 1))
    OBVIOUS
  <2> HIDE DEF s
  <2> QED
    BY <2>2, <2>3, <2>4
<1>5. Len(s) = n
  BY <1>1
<1> HIDE DEF s
<1>6. PICK f \in [0 .. n -> Nat] : f[0] = 0 /\ \A k \in 1 .. n : f[k] = f[k - 1] + s[k]
  BY <1>1, <1>4, PartialSums
<1>7. TotalOf(s) = f[n]
  BY <1>1, <1>5, <1>6, TotalIs
<1> QED
  BY <1>1, <1>2, <1>6, <1>7

\* One region less than there are cuts.
LEMMA BetweenIs ==
  ASSUME NEW cuts, NEW m \in Nat, IsFiniteSet(cuts), Cardinality(cuts) <= m + 1
  PROVE  Len(Between(cuts)) \in Nat /\ Len(Between(cuts)) <= m
         /\ DOMAIN Between(cuts) = 1 .. Len(Between(cuts))
<1> DEFINE k == Cardinality(cuts) - 1
           b == Between(cuts)
<1>1. Cardinality(cuts) \in Nat
  BY FS_CardinalityType
<1>2. k \in Int /\ k <= m /\ DOMAIN b = 1 .. k
  BY <1>1 DEF Between
<1>3. b = [n \in 1 .. k |-> b[n]]
  BY DEF Between
<1> HIDE DEF b, k
<1>4. CASE k \in Nat
  <2>1. Len(b) = k
    BY <1>3, <1>4
  <2> QED
    BY <1>2, <1>4, <2>1 DEF b
<1>5. CASE k < 0
  <2>1. 1 .. k = {}
    BY <1>2, <1>5
  <2>2. b = <<>>
    BY <1>3, <2>1
  <2> QED
    BY <2>2 DEF b
<1> QED
  BY <1>2, <1>4, <1>5

\* A path is cut into no more regions than allowed.
LEMMA VertexRegionsAreFew ==
  ASSUME NEW p, IsPath(p)
  PROVE  Len(VertexRegions(p)) \in Nat /\ Len(VertexRegions(p)) <= MaxRegions
         /\ DOMAIN VertexRegions(p) = 1 .. Len(VertexRegions(p))
<1> DEFINE v == VertexCount(p)
           count == Min({v, MaxRegions})
           scores == [b \in 1 .. v - 1 |-> BoundaryScore(p, b)]
           Before(b) == AheadOf(v - 1, scores, b)
           few == {b \in 1 .. v - 1 : Cardinality(Before(b)) < count - 1}
           even == {(v * r) \div count : r \in 0 .. count}
<1>1. v \in Nat \ {0} /\ MaxRegions \in Nat \ {0}
  BY RegionTimingAssumption DEF IsPath
<1>2. count \in Nat \ {0} /\ count <= MaxRegions
  <2> DEFINE T == {v, MaxRegions}
  <2>1. T \subseteq Nat /\ T # {} /\ MaxRegions \in T /\ \A x \in T : x # 0
    BY <1>1
  <2> HIDE DEF T
  <2>2. Min(T) \in T /\ \A y \in T : Min(T) <= y
    BY <2>1, MinIsLeast
  <2>3. Min(T) \in Nat \ {0} /\ Min(T) <= MaxRegions
    BY <2>1, <2>2
  <2> QED
    BY <2>3 DEF T
<1>3. VertexRegions(p)
        = IF \/ count <= 1 \/ v <= 2
             \/ \A b \in DOMAIN scores : scores[b] = 0
          THEN BuildVertexRegions(v, count)
          ELSE Between({0, v} \cup few)
  <2>1. DOMAIN scores = 1 .. v - 1
    OBVIOUS
  <2> QED
    BY <2>1 DEF VertexRegions, AheadOf
<1> DEFINE m == MaxRegions
<1>4. IsFiniteSet(even) /\ Cardinality(even) <= m + 1
  <2> HIDE DEF count, v
  <2> DEFINE f == [r \in 0 .. count |-> (v * r) \div count]
  <2>1. f \in Surjection(0 .. count, even)
    BY DEF Surjection
  <2>2. IsFiniteSet(0 .. count) /\ Cardinality(0 .. count) = count + 1
    <3>1. 0 \in Int /\ count \in Int /\ ~(0 > count)
      BY <1>2
    <3> QED
      BY <1>2, <3>1, FS_Interval
  <2> HIDE DEF f, even
  <2>3. IsFiniteSet(even) /\ Cardinality(even) <= count + 1
    BY <2>1, <2>2, FS_Surjection
  <2>4. Cardinality(even) \in Nat
    BY <2>3, FS_CardinalityType
  <2> QED
    BY <1>1, <1>2, <2>3, <2>4
<1>5. count > 1 => /\ IsFiniteSet({0, v} \cup few)
                   /\ Cardinality({0, v} \cup few) <= m + 1
  <2> SUFFICES ASSUME count > 1
               PROVE  /\ IsFiniteSet({0, v} \cup few)
                      /\ Cardinality({0, v} \cup few) <= m + 1
    OBVIOUS
  <2>1. \A b \in 1 .. v - 1 : scores[b] \in Nat
    BY ScoresAreNumbers
  <2>2. v - 1 \in Nat /\ count - 1 \in Nat
    BY <1>1, <1>2
  <2>3. IsFiniteSet(few) /\ Cardinality(few) <= count - 1
    <3> DEFINE n == v - 1
               k == count - 1
    <3>1. n \in Nat /\ k \in Nat /\ \A b \in 1 .. n : scores[b] \in Nat
      BY <2>1, <2>2
    <3> HIDE DEF n, k, scores, count
    <3>2. LET some == {b \in 1 .. n : Cardinality(AheadOf(n, scores, b)) < k}
          IN IsFiniteSet(some) /\ Cardinality(some) <= k
      BY <3>1, FewAreAheadOfFew
    <3> QED
      BY <3>2 DEF n, k
  <2> HIDE DEF few
  <2>4. Cardinality(few) \in Nat
    BY <2>3, FS_CardinalityType
  <2>5. IsFiniteSet(few \cup {0}) /\ Cardinality(few \cup {0}) <= count
        /\ Cardinality(few \cup {0}) \in Nat
    <3>1. IsFiniteSet(few \cup {0})
          /\ Cardinality(few \cup {0}) \in {Cardinality(few), Cardinality(few) + 1}
      BY <2>3, FS_AddElement
    <3> HIDE DEF count
    <3> QED
      BY <1>2, <2>3, <2>4, <3>1
  <2>6. IsFiniteSet((few \cup {0}) \cup {v})
        /\ Cardinality((few \cup {0}) \cup {v}) <= count + 1
        /\ Cardinality((few \cup {0}) \cup {v}) \in Nat
    <3> DEFINE S == few \cup {0}
    <3>1. IsFiniteSet(S) /\ Cardinality(S) <= count /\ Cardinality(S) \in Nat
      BY <2>5
    <3> HIDE DEF S, v
    <3>2. IsFiniteSet(S \cup {v})
          /\ Cardinality(S \cup {v}) \in {Cardinality(S), Cardinality(S) + 1}
      BY <3>1, FS_AddElement
    <3> HIDE DEF count
    <3>3. Cardinality(S \cup {v}) <= count + 1 /\ Cardinality(S \cup {v}) \in Nat
      BY <1>2, <3>1, <3>2
    <3> QED
      BY <3>2, <3>3 DEF S
  <2>7. (few \cup {0}) \cup {v} = {0, v} \cup few
    OBVIOUS
  <2> HIDE DEF count, v
  <2> QED
    BY <1>1, <1>2, <2>6, <2>7
<1>6. m \in Nat
  BY <1>1
<1>7. Len(Between(even)) \in Nat /\ Len(Between(even)) <= m
      /\ DOMAIN Between(even) = 1 .. Len(Between(even))
  <2> HIDE DEF even, m
  <2> QED
    BY <1>4, <1>6, BetweenIs
<1>8. BuildVertexRegions(v, count) = Between(even)
  BY DEF BuildVertexRegions
<1>9. count > 1 => /\ Len(Between({0, v} \cup few)) \in Nat
                   /\ Len(Between({0, v} \cup few)) <= m
                   /\ DOMAIN Between({0, v} \cup few)
                        = 1 .. Len(Between({0, v} \cup few))
  <2> DEFINE S == {0, v} \cup few
  <2> HIDE DEF S, m
  <2>1. count > 1 => IsFiniteSet(S) /\ Cardinality(S) <= m + 1
    BY <1>5 DEF S
  <2>2. IsFiniteSet(S) /\ Cardinality(S) <= m + 1 =>
          /\ Len(Between(S)) \in Nat /\ Len(Between(S)) <= m
          /\ DOMAIN Between(S) = 1 .. Len(Between(S))
    BY <1>6, BetweenIs
  <2> QED
    BY <2>1, <2>2 DEF S
<1> HIDE DEF count, v, scores, few, even
<1> QED
  BY <1>2, <1>3, <1>7, <1>8, <1>9

\* Both ends of the path and no more points than allowed, if there are any.
LEMMA BoundariesAre ==
  ASSUME NEW p, IsPath(p), Boundaries(p) # {}
  PROVE  /\ Boundaries(p) \subseteq 0 .. VertexCount(p)
         /\ 0 \in Boundaries(p) /\ VertexCount(p) \in Boundaries(p)
         /\ VertexCount(p) \in Nat \ {0}
         /\ IsFiniteSet(Boundaries(p)) /\ Cardinality(Boundaries(p)) \in 0 .. 20
<1> DEFINE v == VertexCount(p)
           B == Boundaries(p)
           ends == {0, v} \cup
                   ((UNION {{r[1], r[2]} : r \in Range(VertexRegions(p))}) \cap 0 .. v)
           near == {b + d : b \in ends \ {0, v}, d \in {-1, 1}} \cap 1 .. v - 1
<1>1. v \in Nat \ {0}
  BY DEF IsPath
<1>2. B = IF Cardinality(ends) > MaxBoundaryPoints THEN {}
          ELSE IF Cardinality(ends \cup near) > MaxBoundaryPoints THEN ends
          ELSE ends \cup near
  BY DEF Boundaries
<1>3. ends \subseteq 0 .. v /\ 0 \in ends /\ v \in ends
  <2> HIDE DEF v
  <2> QED
    BY <1>1
<1>4. near \subseteq 0 .. v
  <2> HIDE DEF v, ends
  <2> QED
    BY <1>1
<1> HIDE DEF ends, near, B
<1>5. B # {}
  BY DEF B
<1>6. B \subseteq 0 .. v /\ 0 \in B /\ v \in B /\ ~(Cardinality(B) > MaxBoundaryPoints)
  <2> HIDE DEF v
  <2>1. CASE B = ends
    BY <1>2, <1>3, <1>5, <2>1
  <2>2. CASE B = ends \cup near /\ ~(Cardinality(B) > MaxBoundaryPoints)
    BY <1>3, <1>4, <2>2
  <2> QED
    BY <1>2, <1>5, <2>1, <2>2
<1>7. IsFiniteSet(B) /\ Cardinality(B) \in Nat
  <2>1. IsFiniteSet(0 .. v)
    BY <1>1, FS_Interval
  <2>2. B \in SUBSET (0 .. v)
    BY <1>6
  <2> QED
    BY <2>1, <2>2, FS_Subset, FS_CardinalityType
<1>8. Cardinality(B) \in 0 .. 20
  BY <1>6, <1>7, BoundaryAssumption
<1> QED
  BY <1>1, <1>6, <1>7, <1>8 DEF B

\* How many regions a path may be cut into at these points.
LimitOf(B) == Min({MaxRegions, Cardinality(B) - 1})

\* At least one, and too few for their penalties to outweigh a key.
LEMMA LimitIs ==
  ASSUME NEW v \in Nat \ {0}, NEW B, 0 \in B, v \in B, IsFiniteSet(B),
         Cardinality(B) \in 0 .. 20
  PROVE  /\ LimitOf(B) \in 1 .. 19
         /\ LimitOf(B) = MaxRegions \/ LimitOf(B) = Cardinality(B) - 1
<1> DEFINE k == Cardinality(B) - 1
           T == {MaxRegions, k}
<1>1. Cardinality(B) >= 2
  <2>1. IsFiniteSet({0}) /\ Cardinality({0}) = 1
    BY FS_Singleton
  <2>2. Cardinality({0} \cup {v}) = 2 /\ {0} \cup {v} \in SUBSET B
    <3>1. v \notin {0}
      OBVIOUS
    <3> QED
      BY <2>1, <3>1, FS_AddElement
  <2>3. Cardinality({0} \cup {v}) <= Cardinality(B)
    BY <2>2, FS_Subset
  <2> QED
    BY <2>2, <2>3
<1>2. k \in 1 .. 19
  BY <1>1
<1> HIDE DEF k
<1>3. MaxRegions \in Nat \ {0}
  BY RegionTimingAssumption
<1>4. T \subseteq Nat /\ T # {} /\ k \in T
  BY <1>2, <1>3
<1>5. \A x \in T : x = MaxRegions \/ x = k
  OBVIOUS
<1> HIDE DEF T
<1>6. Min(T) \in T /\ \A y \in T : Min(T) <= y
  BY <1>4, MinIsLeast
<1>7. Min(T) \in 1 .. 19 /\ (Min(T) = MaxRegions \/ Min(T) = k)
  <2> DEFINE m == Min(T)
  <2>1. m <= k /\ (m = MaxRegions \/ m = k)
    BY <1>4, <1>5, <1>6
  <2> HIDE DEF m
  <2>2. m \in 1 .. 19
    BY <1>2, <1>3, <2>1
  <2> QED
    BY <2>1, <2>2 DEF m
<1> QED
  BY <1>7 DEF T, k, LimitOf

\* A cut has no more regions than there are gaps between the points.
LEMMA CutFits ==
  ASSUME NEW e, NEW v \in Nat, NEW B, B \subseteq 0 .. v, IsFiniteSet(B),
         NEW c \in Nat, NEW b, NEW cut, IsCut(e, B, cut, c, b)
  PROVE  c <= Cardinality(B) - 1
<1>1. cut \in [0 .. c -> B] /\ \A n \in 1 .. c : cut[n - 1] < cut[n]
  BY DEF IsCut
<1>2. \A n \in 0 .. c : cut[n] \in Nat
  <2>1. B \subseteq Nat
    OBVIOUS
  <2> QED
    BY <1>1, <2>1
<1> DEFINE Up == {m \in 0 .. c : \A i \in 0 .. m, k \in 0 .. m : i < k => cut[i] < cut[k]}
<1>3. 0 \in Up
  OBVIOUS
<1>4. ASSUME NEW m \in 0 .. c - 1, m \in Up PROVE m + 1 \in Up
  <2>1. /\ m + 1 \in 0 .. c /\ m + 1 \in 1 .. c /\ (m + 1) - 1 = m /\ m \in 0 .. m
        /\ m \in 0 .. c
        /\ \A i \in 0 .. m + 1 : i = m + 1 \/ i \in 0 .. m
        /\ \A i \in 0 .. m : i \in 0 .. c /\ (i = m \/ i < m) /\ ~(m + 1 < i)
        /\ ~(m + 1 < m + 1)
    OBVIOUS
  <2>2. cut[m] < cut[m + 1] /\ cut[m] \in Nat /\ cut[m + 1] \in Nat
    BY <1>1, <1>2, <2>1
  <2>3. \A i \in 0 .. m : i < m => cut[i] < cut[m]
    BY <1>4, <2>1
  <2>4. \A i \in 0 .. m : cut[i] < cut[m + 1]
    BY <1>2, <2>1, <2>2, <2>3
  <2>5. \A i \in 0 .. m + 1, k \in 0 .. m + 1 : i < k => cut[i] < cut[k]
    BY <1>4, <2>1, <2>4
  <2> QED
    BY <2>1, <2>5
<1>5. c \in Up
  <2>1. c \in 0 .. c
    OBVIOUS
  <2> HIDE DEF Up
  <2>2. 0 .. c \subseteq Up
    BY <1>3, <1>4, IntervalInduction
  <2> QED
    BY <2>1, <2>2
<1>6. cut \in Injection(0 .. c, B)
  <2>1. \A i, k \in 0 .. c : cut[i] = cut[k] => i = k
    <3>1. \A i, k \in 0 .. c : i < k => cut[i] < cut[k]
      BY <1>5
    <3>2. ASSUME NEW i \in 0 .. c, NEW k \in 0 .. c, cut[i] = cut[k] PROVE i = k
      <4>1. i < k \/ k < i \/ i = k
        OBVIOUS
      <4> HIDE DEF Up
      <4> QED
        BY <1>2, <3>1, <3>2, <4>1
    <3> QED
      BY <3>2
  <2> QED
    BY <1>1, <2>1 DEF Injection, IsInjective
<1>7. Cardinality(0 .. c) <= Cardinality(B) /\ Cardinality(B) \in Nat
  BY <1>6, FS_Injection, FS_CardinalityType
<1>8. Cardinality(0 .. c) = c + 1
  <2>1. 0 \in Int /\ c \in Int /\ ~(0 > c)
    OBVIOUS
  <2> QED
    BY <2>1, FS_Interval
<1> QED
  BY <1>7, <1>8

------------------------------------------------------------------------------
(***************************************************************************)
(* The best partition, and the split that never pays.                      *)
(***************************************************************************)
\* The keys of a cut are a number.
LEMMA KeysAreNumbers ==
  ASSUME NEW e, CountsKeys(e), NEW B, NEW c \in Nat, NEW b, NEW cut,
         IsCut(e, B, cut, c, b)
  PROVE  KeysOver(e, cut, c) \in Nat
<1>1. \A n \in 1 .. c : Len(e[<<cut[n - 1], cut[n]>>].keys.anchors) \in Nat
  BY DEF IsCut, CountsKeys
<1>2. \E s : AreTerms(e, cut, c, s)
  BY TermsOfKeys
<1>3. PICK s : /\ KeysOver(e, cut, c) = TotalOf(s) /\ Len(s) = c
               /\ \A n \in 1 .. c :
                    s[n] = Len(e[<<cut[n - 1], cut[n]>>].keys.anchors)
  BY <1>2 DEF AreTerms
<1>4. \A n \in 1 .. c : s[n] \in Nat
  BY <1>1, <1>3
<1>5. PICK f \in [0 .. c -> Nat] : f[0] = 0 /\ \A k \in 1 .. c : f[k] = f[k - 1] + s[k]
  BY <1>4, PartialSums
<1>6. TotalOf(s) = f[c]
  BY <1>3, <1>5, TotalIs
<1> QED
  BY <1>3, <1>5, <1>6

\* Of all cuts into at most limit regions, with the fewest keys, and of those
\* with the fewest regions.
IsBestCut(e, B, v, limit, cut, c) ==
  /\ c \in 1 .. limit /\ IsCut(e, B, cut, c, v)
  /\ KeysOver(e, cut, c) \in Nat
  /\ \A d \in 1 .. limit : \A y : IsCut(e, B, y, d, v) =>
       \/ KeysOver(e, cut, c) < KeysOver(e, y, d)
       \/ KeysOver(e, cut, c) = KeysOver(e, y, d) /\ c <= d

\* Its regions.
AreBestRegions(e, B, v, limit, regions, c) ==
  \E cut : IsBestCut(e, B, v, limit, cut, c) /\ regions = CutRegions(cut, c)

\* What is reached is a cut, and a cut is reached with no higher score.
LEMMA ReachedIsCut ==
  ASSUME NEW e, CountsKeys(e), NEW B, NEW v, NEW n, NEW P,
         ArePartitions(e, B, v, n, P), NEW c \in 1 .. n
  PROVE  /\ P[c].score \in Int
         /\ Reached(P[c]) =>
              \E cut : /\ IsCut(e, B, cut, c, v) /\ P[c].regions = CutRegions(cut, c)
                       /\ KeysOver(e, cut, c) \in Nat
                       /\ P[c].score = ScoreOf(KeysOver(e, cut, c), c)
         /\ \A y : IsCut(e, B, y, c, v) =>
              /\ Reached(P[c]) /\ P[c].score <= ScoreOf(KeysOver(e, y, c), c)
              /\ KeysOver(e, y, c) \in Nat
<1>1. P[c].score \in Int /\ IsBestOver(e, B, c, v, P[c])
  BY DEF ArePartitions
<1>2. \A y : IsCut(e, B, y, c, v) => KeysOver(e, y, c) \in Nat
  <2>1. c \in Nat
    OBVIOUS
  <2> QED
    BY <2>1, KeysAreNumbers
<1> QED
  BY <1>1, <1>2 DEF IsBestOver

\* The partition with the lowest score is a best cut.
LEMMA BestIsBestCut ==
  ASSUME NEW e, CountsKeys(e), NEW B, NEW v, NEW n \in 1 .. 19, NEW P,
         ArePartitions(e, B, v, n, P), NEW best, best = BestOf(P, 1 .. n), best # 0
  PROVE  AreBestRegions(e, B, v, n, P[best].regions, best)
<1>1. 1 .. n \subseteq 1 .. 19
  OBVIOUS
<1>2. ASSUME NEW c \in 1 .. n
      PROVE  /\ P[c].score \in Int
             /\ Reached(P[c]) =>
                  \E cut : /\ IsCut(e, B, cut, c, v) /\ P[c].regions = CutRegions(cut, c)
                           /\ KeysOver(e, cut, c) \in Nat
                           /\ P[c].score = ScoreOf(KeysOver(e, cut, c), c)
             /\ \A y : IsCut(e, B, y, c, v) =>
                  /\ Reached(P[c]) /\ P[c].score <= ScoreOf(KeysOver(e, y, c), c)
                  /\ KeysOver(e, y, c) \in Nat
  BY ReachedIsCut
<1>3. IsLowest(P, 1 .. n, best)
  <2> DEFINE counts == 1 .. n
  <2>1. counts \subseteq Nat \ {0} /\ \A c \in counts : P[c].score \in Int
    BY <1>2
  <2>2. best = BestOf(P, counts)
    OBVIOUS
  <2> HIDE DEF counts
  <2>3. IsLowest(P, counts, best)
    BY <2>1, <2>2, BestOfIsLowest
  <2> QED
    BY <2>3 DEF counts
<1>4. best \in 1 .. n /\ Reached(P[best])
  BY <1>3 DEF IsLowest
<1>5. PICK cut : /\ IsCut(e, B, cut, best, v) /\ P[best].regions = CutRegions(cut, best)
                 /\ KeysOver(e, cut, best) \in Nat
                 /\ P[best].score = ScoreOf(KeysOver(e, cut, best), best)
  BY <1>2, <1>4
<1>6. ASSUME NEW d \in 1 .. n, NEW y, IsCut(e, B, y, d, v)
      PROVE  \/ KeysOver(e, cut, best) < KeysOver(e, y, d)
             \/ KeysOver(e, cut, best) = KeysOver(e, y, d) /\ best <= d
  <2> DEFINE k == KeysOver(e, cut, best)
             l == KeysOver(e, y, d)
  <2>1. k \in Nat /\ l \in Nat /\ best \in 1 .. 19 /\ d \in 1 .. 19
    <3>1. k \in Nat
      BY <1>5
    <3>2. l \in Nat
      BY <1>2, <1>6
    <3> HIDE DEF k, l
    <3> QED
      BY <1>1, <1>4, <3>1, <3>2
  <2>2. Reached(P[d]) /\ P[d].score <= ScoreOf(l, d) /\ P[d].score \in Int
    BY <1>2, <1>6
  <2>3. \/ P[best].score < P[d].score
        \/ P[best].score = P[d].score /\ best <= d
    BY <1>3, <2>2 DEF IsLowest
  <2>4. P[best].score = ScoreOf(k, best)
    BY <1>5
  <2> HIDE DEF k, l
  <2>5. ScoreOf(k, best) \in Int /\ ScoreOf(l, d) \in Int
    BY <2>1 DEF ScoreOf, KeyScore
  <2>6. \/ ScoreOf(k, best) < ScoreOf(l, d)
        \/ ScoreOf(k, best) = ScoreOf(l, d) /\ best <= d
    BY <2>2, <2>3, <2>4, <2>5
  <2>7. k < l \/ (k = l /\ best <= d)
    BY <2>1, <2>6, SMTT(30) DEF ScoreOf, KeyScore
  <2> QED
    BY <2>7 DEF k, l
<1> QED
  BY <1>4, <1>5, <1>6 DEF IsBestCut, AreBestRegions

\* Regions within tolerance that cover the path are a cut of it.
LEMMA CoversIsCut ==
  ASSUME NEW p, NEW e, NEW B, DOMAIN e \subseteq Intervals(B), 0 \in B,
         NEW regions, NEW m \in Nat, Len(regions) = m, DOMAIN regions = 1 .. m,
         Covers(p, regions), \A r \in Range(regions) : Valid(e, r)
  PROVE  \E cut : IsCut(e, B, cut, m, VertexCount(p))
<1> DEFINE v == VertexCount(p)
           cut == [n \in 0 .. m |-> IF n = 0 THEN 0 ELSE regions[n][2]]
<1>1. /\ m > 0 /\ regions[1][1] = 0 /\ regions[m][2] = v
      /\ \A n \in 1 .. m : /\ regions[n][1] < regions[n][2]
                           /\ n < m => regions[n][2] = regions[n + 1][1]
  BY DEF Covers
<1>2. \A n \in 1 .. m : regions[n] \in B \X B /\ Valid(e, regions[n])
  <2>1. \A n \in 1 .. m : regions[n] \in Range(regions)
    BY DEF Range
  <2> QED
    BY <2>1 DEF Valid, Intervals
<1> HIDE DEF v
<1>3. \A n \in 1 .. m : regions[n] = <<regions[n][1], regions[n][2]>>
                        /\ regions[n][1] \in B /\ regions[n][2] \in B
  BY <1>2
<1>4. cut \in [0 .. m -> B] /\ cut[0] = 0 /\ \A n \in 1 .. m : cut[n] = regions[n][2]
  <2>1. \A n \in 0 .. m : n = 0 \/ n \in 1 .. m
    OBVIOUS
  <2>2. \A n \in 1 .. m : n \in 0 .. m /\ n # 0
    OBVIOUS
  <2> QED
    BY <1>3, <2>1, <2>2
<1> HIDE DEF cut
<1>5. \A n \in 1 .. m : cut[n - 1] = regions[n][1]
  <2>1. ASSUME NEW n \in 1 .. m PROVE cut[n - 1] = regions[n][1]
    <3>1. CASE n = 1
      BY <1>1, <1>4, <3>1
    <3>2. CASE n # 1
      <4>1. n - 1 \in 1 .. m /\ n - 1 < m /\ (n - 1) + 1 = n
        BY <3>2
      <4> QED
        BY <1>1, <1>4, <4>1
    <3> QED
      BY <3>1, <3>2
  <2> QED
    BY <2>1
<1>6. cut[m] = v
  BY <1>1, <1>4
<1>7. \A n \in 1 .. m : cut[n - 1] < cut[n] /\ Valid(e, <<cut[n - 1], cut[n]>>)
  BY <1>1, <1>2, <1>3, <1>4, <1>5, ZenonT(30)
<1> QED
  BY <1>4, <1>6, <1>7 DEF IsCut, v

\* The keys of the whole path as one region.
LEMMA WholeIsCut ==
  ASSUME NEW e, CountsKeys(e), NEW B, NEW v, NEW cut, IsCut(e, B, cut, 1, v)
  PROVE  KeysOver(e, cut, 1) = Len(e[<<0, v>>].keys.anchors)
<1>1. PICK s : \E d : IsOneMore(e, B, cut, d, 0, s, v)
  <2> DEFINE c == 0
  <2>1. c \in Nat /\ IsCut(e, B, cut, c + 1, v)
    OBVIOUS
  <2> HIDE DEF c
  <2>2. \E s \in B : \E d : IsOneMore(e, B, cut, d, c, s, v)
    BY <2>1, CutSteps
  <2> QED
    BY <2>2 DEF c
<1>2. PICK d : IsOneMore(e, B, cut, d, 0, s, v)
  BY <1>1
<1>3. s = 0 /\ Valid(e, <<s, v>>)
      /\ KeysOver(e, cut, 1) = KeysOver(e, d, 0) + Len(e[<<s, v>>].keys.anchors)
  BY <1>2 DEF IsOneMore, IsCut
<1>4. KeysOver(e, d, 0) = 0
  BY NoCutNoKeys
<1>5. Len(e[<<s, v>>].keys.anchors) \in Nat
  BY <1>3 DEF CountsKeys
<1> QED
  BY <1>3, <1>4, <1>5

\* Where the whole path as one region is a best cut, no split has fewer keys, and
\* there is another split whenever the base regions are within tolerance.
LEMMA NoSplitPays ==
  ASSUME NEW p, IsPath(p), Boundaries(p) # {}, NEW e, CountsKeys(e),
         DOMAIN e \subseteq Intervals(Boundaries(p)),
         NEW P, P = Partitions(e, Boundaries(p), LimitOf(Boundaries(p))),
         BestOf(P, DOMAIN P) = 1
  PROVE  SemanticSplit(p, e, P) = <<>>
<1> DEFINE B == Boundaries(p)
           v == VertexCount(p)
           n == LimitOf(B)
<1>1. /\ B \subseteq 0 .. v /\ 0 \in B /\ v \in B /\ v \in Nat \ {0}
      /\ IsFiniteSet(B) /\ Cardinality(B) \in 0 .. 20
  BY BoundariesAre
<1> HIDE DEF B, v
<1>2. n \in 1 .. 19 /\ (n = MaxRegions \/ n = Cardinality(B) - 1)
  BY <1>1, LimitIs
<1>3. P = Partitions(e, B, n) /\ DOMAIN e \subseteq Intervals(B)
  BY DEF B
<1> HIDE DEF n
<1>4. n \in Nat /\ 1 \in 1 .. n
  BY <1>2
<1>5. ArePartitions(e, B, v, n, P)
  <2>1. v \in Nat
    BY <1>1
  <2>2. ArePartitions(e, B, v, n, Partitions(e, B, n))
    BY <1>1, <1>4, <2>1, PartitionsAreBest
  <2> QED
    BY <1>3, <2>2
<1>6. ASSUME NEW c \in 1 .. n
      PROVE  /\ P[c].score \in Int
             /\ Reached(P[c]) =>
                  \E cut : /\ IsCut(e, B, cut, c, v) /\ P[c].regions = CutRegions(cut, c)
                           /\ KeysOver(e, cut, c) \in Nat
                           /\ P[c].score = ScoreOf(KeysOver(e, cut, c), c)
             /\ \A y : IsCut(e, B, y, c, v) =>
                  /\ Reached(P[c]) /\ P[c].score <= ScoreOf(KeysOver(e, y, c), c)
                  /\ KeysOver(e, y, c) \in Nat
  BY <1>5, ReachedIsCut
<1>7. DOMAIN P = 1 .. n
  BY <1>5 DEF ArePartitions
<1>8. PICK whole : IsBestCut(e, B, v, n, whole, 1)
  <2> DEFINE best == 1
  <2>1. best = BestOf(P, 1 .. n) /\ best # 0
    BY <1>7
  <2> HIDE DEF best
  <2>2. AreBestRegions(e, B, v, n, P[best].regions, best)
    BY <1>2, <1>5, <2>1, BestIsBestCut
  <2> QED
    BY <2>2 DEF best, AreBestRegions
<1> DEFINE full == Len(e[Whole(p)].keys.anchors)
           several == BestOf(P, DOMAIN P \ {1})
           counts == 1 .. n \ {1}
<1>9. KeysOver(e, whole, 1) = full
  BY <1>8, WholeIsCut DEF IsBestCut, Whole, v
<1>10. IF \E c \in counts : Reached(P[c])
       THEN IsLowest(P, counts, several) ELSE several = 0
  <2>1. counts \subseteq Nat \ {0} /\ \A c \in counts : P[c].score \in Int
    BY <1>6
  <2>2. several = BestOf(P, counts)
    BY <1>7
  <2> HIDE DEF counts, several
  <2> QED
    BY <2>1, <2>2, BestOfIsLowest
<1> HIDE DEF several
<1>11. ASSUME several # 0
       PROVE  /\ several # 1
              /\ ~(KeyCount(EmissionsOf(e, P[several].regions)) < full)
  <2>1. several \in 1 .. n /\ several # 1 /\ Reached(P[several])
    BY <1>10, <1>11 DEF IsLowest
  <2>2. PICK cut : /\ IsCut(e, B, cut, several, v)
                   /\ P[several].regions = CutRegions(cut, several)
                   /\ KeysOver(e, cut, several) \in Nat
    BY <1>6, <2>1
  <2>3. \/ full < KeysOver(e, cut, several)
        \/ full = KeysOver(e, cut, several) /\ 1 <= several
    BY <1>8, <1>9, <2>1, <2>2 DEF IsBestCut
  <2>4. full \in Nat
    BY <1>8, <1>9 DEF IsBestCut
  <2>5. KeyCount(EmissionsOf(e, P[several].regions)) = KeysOver(e, cut, several)
    BY <2>2 DEF KeysOver
  <2> HIDE DEF full
  <2> QED
    BY <2>1, <2>2, <2>3, <2>4, <2>5
<1> DEFINE base == VertexRegions(p)
<1>12. ASSUME several = 0, Len(base) >= 2, \A r \in Range(base) : Valid(e, r),
              Covers(p, base)
       PROVE  FALSE
  <2> DEFINE m == Len(base)
  <2>1. m \in Nat /\ m <= MaxRegions /\ DOMAIN base = 1 .. m /\ m >= 2
    BY <1>12, VertexRegionsAreFew
  <2>2. PICK cut : IsCut(e, B, cut, m, v)
    <3> HIDE DEF base
    <3> QED
      BY <1>1, <1>3, <1>12, <2>1, CoversIsCut DEF v
  <2> HIDE DEF base, m
  <2>3. m <= Cardinality(B) - 1
    <3>1. v \in Nat
      BY <1>1
    <3> QED
      BY <1>1, <2>1, <2>2, <3>1, CutFits
  <2>4. m \in 1 .. n /\ m # 1
    BY <1>1, <1>2, <2>1, <2>3
  <2>5. Reached(P[m])
    BY <1>6, <2>2, <2>4
  <2>6. \E c \in counts : Reached(P[c])
    BY <2>4, <2>5
  <2>7. several \in counts
    <3> HIDE DEF counts
    <3> QED
      BY <1>10, <2>6 DEF IsLowest
  <2> QED
    BY <1>12, <2>7
<1>13. SemanticSplit(p, e, P)
         = IF several # 0 /\ several # 1
           THEN IF /\ Covers(p, P[several].regions)
                   /\ KeyCount(EmissionsOf(e, P[several].regions)) < full
                THEN P[several].regions ELSE <<>>
           ELSE IF Len(base) >= 2 /\ \A r \in Range(base) : Valid(e, r)
                THEN IF /\ Covers(p, base)
                        /\ 2 * KeyCount(EmissionsOf(e, base)) <= 3 * full
                     THEN base ELSE <<>>
                ELSE <<>>
  BY DEF SemanticSplit, several
<1> HIDE DEF base, full
<1> QED
  BY <1>11, <1>12, <1>13

------------------------------------------------------------------------------
(***************************************************************************)
(* What is emitted follows the path.                                       *)
(***************************************************************************)
\* The regions cover the path, and the keys of each follow its samples.
FollowsPath(p, regions, emissions) ==
  LET last == Len(regions)
  IN /\ last > 0 /\ DOMAIN regions = 1 .. last
     /\ regions[1][1] = 0 /\ regions[last][2] = VertexCount(p)
     /\ \A n \in 1 .. last - 1 : regions[n][2] = regions[n + 1][1]
     /\ \A n \in 1 .. last, k \in DOMAIN p[0] :
          ErrorAt(p, regions[n], emissions[n].keys, k) <= RegionTolerance * Unit

\* Whatever is within tolerance is close to the region's samples.
EmitsWithin(p, e) ==
  \A r \in DOMAIN e : e[r].ok => Reconstructs(p, r, e[r].keys)

\* These have a number of keys.
LEMMA EmissionsCountKeys ==
  ASSUME NEW p, NEW e, EmitsWithin(p, e)
  PROVE  CountsKeys(e)
<1> SUFFICES ASSUME NEW r, Valid(e, r) PROVE Len(e[r].keys.anchors) \in Nat
  BY DEF CountsKeys
<1>1. e[r].keys.anchors \in Seq(DOMAIN p[0])
  BY DEF EmitsWithin, Reconstructs, Valid
<1> QED
  BY <1>1

\* The keys that a placement or the refined anchors give.
LEMMA EmitsReconstructs ==
  ASSUME NEW ok, NEW p, NEW r, NEW keys, Emits(ok, p, r, keys).ok
  PROVE  Reconstructs(p, r, Emits(ok, p, r, keys).keys)
<1>1. Emits(ok, p, r, keys).ok = (ok /\ Reconstructs(p, r, keys))
  BY Zenon DEF Emits
<1>2. Emits(ok, p, r, keys).keys = keys
  BY Zenon DEF Emits
<1> QED
  BY <1>1, <1>2

\* A placement is emitted or not.
LEMMA PlacedKeysAre ==
  ASSUME NEW p, NEW r, NEW relaxed, NEW budget
  PROVE  \E ok, keys : PlacedKeys(p, r, relaxed, budget) = Emits(ok, p, r, keys)
BY Zenon DEF PlacedKeys

\* Temporal keys within tolerance.
LEMMA TemporalReconstructs ==
  ASSUME NEW p, NEW r, NEW budget, TemporalKeys(p, r, budget).ok
  PROVE  Reconstructs(p, r, TemporalKeys(p, r, budget).keys)
<1>1. PICK relaxed \in BOOLEAN :
        TemporalKeys(p, r, budget) = PlacedKeys(p, r, relaxed, budget)
  BY Zenon DEF TemporalKeys
<1>2. PICK ok, keys : TemporalKeys(p, r, budget) = Emits(ok, p, r, keys)
  BY <1>1, PlacedKeysAre
<1> QED
  BY <1>2, EmitsReconstructs

\* A region's emission within tolerance.
LEMMA EmissionReconstructs ==
  ASSUME NEW p, NEW r, NEW budget, Emission(p, r, budget).ok
  PROVE  Reconstructs(p, r, Emission(p, r, budget).keys)
<1>1. NoEmission.ok = FALSE
  BY DEF NoEmission
<1>2. \/ Emission(p, r, budget) = NoEmission
      \/ Emission(p, r, budget) = TemporalKeys(p, r, budget)
      \/ Emission(p, r, budget)
           = Emits(TRUE, p, r, LinearKeys(p, RefineAnchors(p, r)))
  BY Zenon DEF Emission
<1> QED
  BY <1>1, <1>2, TemporalReconstructs, EmitsReconstructs, Zenon

\* A cut within tolerance follows the path.
LEMMA CutFollows ==
  ASSUME NEW p, NEW e, EmitsWithin(p, e), NEW B, NEW c \in Nat \ {0}, NEW cut,
         IsCut(e, B, cut, c, VertexCount(p))
  PROVE  FollowsPath(p, CutRegions(cut, c), EmissionsOf(e, CutRegions(cut, c)))
<1> DEFINE r == CutRegions(cut, c)
           m == EmissionsOf(e, r)
<1>1. /\ cut[0] = 0 /\ cut[c] = VertexCount(p)
      /\ \A n \in 1 .. c : Valid(e, <<cut[n - 1], cut[n]>>)
  BY DEF IsCut
<1>2. r = [n \in 1 .. c |-> <<cut[n - 1], cut[n]>>]
  BY DEF CutRegions
<1> HIDE DEF r
<1>3. Len(r) = c /\ DOMAIN r = 1 .. c
      /\ \A n \in 1 .. c : r[n] = <<cut[n - 1], cut[n]>>
  BY <1>2
<1>4. \A n \in 1 .. c : m[n] = e[<<cut[n - 1], cut[n]>>]
  BY <1>3 DEF EmissionsOf
<1> HIDE DEF m
<1>5. r[1][1] = 0 /\ r[c][2] = VertexCount(p)
  <2>1. 1 \in 1 .. c /\ c \in 1 .. c /\ 1 - 1 = 0
    OBVIOUS
  <2> QED
    BY <1>1, <1>3, <2>1
<1>6. \A n \in 1 .. c - 1 : r[n][2] = r[n + 1][1]
  <2>1. \A n \in 1 .. c - 1 : n \in 1 .. c /\ n + 1 \in 1 .. c /\ (n + 1) - 1 = n
    OBVIOUS
  <2> QED
    BY <1>3, <2>1
<1>7. \A n \in 1 .. c, k \in DOMAIN p[0] :
        ErrorAt(p, r[n], m[n].keys, k) <= RegionTolerance * Unit
  BY <1>1, <1>3, <1>4 DEF EmitsWithin, Reconstructs, Valid
<1> QED
  BY <1>3, <1>5, <1>6, <1>7 DEF FollowsPath, r, m

\* The regions around a vertex are a sequence.
LEMMA OutlierSlotRegionsAre ==
  ASSUME NEW p, NEW slot
  PROVE  /\ Len(OutlierSlotRegions(p, slot)) \in Nat
         /\ DOMAIN OutlierSlotRegions(p, slot)
              = 1 .. Len(OutlierSlotRegions(p, slot))
<1> DEFINE a == <<0, slot>>
           b == <<slot, slot + 1>>
           c == <<slot + 1, VertexCount(p)>>
           S == {a, b, c}
           x == IF slot > 0 THEN <<a>> ELSE <<>>
           z == IF slot + 1 < VertexCount(p) THEN <<c>> ELSE <<>>
<1>1. x \in Seq(S) /\ <<b>> \in Seq(S) /\ z \in Seq(S)
  <2>1. a \in S /\ b \in S /\ c \in S
    OBVIOUS
  <2> HIDE DEF a, b, c, S
  <2>2. <<>> \in Seq(S) /\ \A y \in S : <<y>> \in Seq(S)
    OBVIOUS
  <2> QED
    BY <2>1, <2>2
<1>2. OutlierSlotRegions(p, slot) = (x \o <<b>>) \o z
  BY DEF OutlierSlotRegions
<1> HIDE DEF a, b, c, x, z, S
<1>3. (x \o <<b>>) \o z \in Seq(S)
  BY <1>1
<1> QED
  BY <1>2, <1>3

\* A vertex on its own, if that is chosen, follows the path too.
LEMMA OutlierFollows ==
  ASSUME NEW p, NEW e, EmitsWithin(p, e), NEW budget,
         OutlierPartition(p, e, budget).regions # <<>>
  PROVE  LET o == OutlierPartition(p, e, budget)
         IN FollowsPath(p, o.regions, o.emissions)
<1> DEFINE o == OutlierPartition(p, e, budget)
<1>1. NoOutlier.regions = <<>>
  BY DEF NoOutlier
<1>2. PICK slot, regions, emissions :
        /\ o = [regions |-> regions, emissions |-> emissions]
        /\ regions = OutlierSlotRegions(p, slot)
        /\ emissions = [n \in DOMAIN regions |-> EmissionFor(p, e, regions[n], budget)]
        /\ \A m \in Range(emissions) : m.ok
        /\ Covers(p, regions)
  <2> DEFINE keys == e[Whole(p)].keys
             slots == OutlierSlots(p, Whole(p), keys)
             Split(rank, regions, emissions) ==
               [rank |-> rank, regions |-> regions, emissions |-> emissions,
                keys |-> KeyCount(emissions)]
             Evaluated(rank, regions) ==
               Split(rank, regions,
                     [n \in DOMAIN regions |-> EmissionFor(p, e, regions[n], budget)])
             Error(x) == MaxEmissionError(p, x.regions, x.emissions)
             AsGood(x, y) ==
               \/ x.keys < y.keys
               \/ /\ x.keys = y.keys
                  /\ \/ Error(x) < Error(y)
                     \/ Error(x) = Error(y) /\ x.rank <= y.rank
             Best(valid) == {x \in valid : \A y \in valid : AsGood(x, y)}
             all == {Evaluated(n, OutlierSlotRegions(p, slots[n])) :
                       n \in 1 .. Min({CandidateSlots, Len(slots)})}
             valids == {t \in all : /\ \A m \in Range(t.emissions) : m.ok
                                    /\ Covers(p, t.regions)}
             fewer == {x \in Best(valids) : x.keys < Len(keys.anchors)}
             found == {[regions |-> x.regions, emissions |-> x.emissions] : x \in fewer}
  <2>1. o = IF fewer = {} THEN NoOutlier ELSE CHOOSE f \in found : TRUE
    BY DEF OutlierPartition
  <2> HIDE DEF AsGood, keys, slots
  <2>2. fewer # {} /\ o \in found
    <3> HIDE DEF fewer, o
    <3> QED
      BY <1>1, <2>1 DEF o
  <2>3. PICK x \in fewer : o = [regions |-> x.regions, emissions |-> x.emissions]
    <3> HIDE DEF fewer, o
    <3> QED
      BY <2>2
  <2>4. x \in valids
    <3> HIDE DEF valids
    <3> QED
      BY <2>3
  <2>5. x \in all /\ (\A m \in Range(x.emissions) : m.ok) /\ Covers(p, x.regions)
    <3> HIDE DEF all
    <3> QED
      BY <2>4
  <2>6. PICK n : x = Evaluated(n, OutlierSlotRegions(p, slots[n]))
    <3> HIDE DEF Evaluated
    <3> QED
      BY <2>5
  <2>7. x.regions = OutlierSlotRegions(p, slots[n])
        /\ x.emissions = [k \in DOMAIN x.regions |->
                            EmissionFor(p, e, x.regions[k], budget)]
    BY <2>6
  <2> HIDE DEF o
  <2> QED
    BY <2>3, <2>5, <2>7
<1>3. Len(regions) \in Nat /\ DOMAIN regions = 1 .. Len(regions)
  BY <1>2, OutlierSlotRegionsAre
<1>4. ASSUME NEW n \in 1 .. Len(regions)
      PROVE  Reconstructs(p, regions[n], emissions[n].keys)
  <2>1. emissions[n] = EmissionFor(p, e, regions[n], budget)
    BY <1>2, <1>3
  <2>2. emissions[n].ok
    BY <1>2, <1>3 DEF Range
  <2>3. CASE Valid(e, regions[n])
    BY <2>1, <2>3 DEF EmissionFor, EmitsWithin, Valid
  <2>4. CASE ~Valid(e, regions[n])
    <3>1. emissions[n] = Emission(p, regions[n], budget)
      BY <2>1, <2>4 DEF EmissionFor
    <3>2. Emission(p, regions[n], budget).ok
      BY <2>2, <3>1
    <3> QED
      BY <3>1, <3>2, EmissionReconstructs
  <2> QED
    BY <2>3, <2>4
<1>5. \A n \in 1 .. Len(regions), k \in DOMAIN p[0] :
        ErrorAt(p, regions[n], emissions[n].keys, k) <= RegionTolerance * Unit
  BY <1>4 DEF Reconstructs
<1>6. /\ Len(regions) > 0 /\ regions[1][1] = 0
      /\ regions[Len(regions)][2] = VertexCount(p)
      /\ \A n \in 1 .. Len(regions) - 1 : regions[n][2] = regions[n + 1][1]
  <2>1. \A n \in 1 .. Len(regions) - 1 : n \in 1 .. Len(regions) /\ n < Len(regions)
    BY <1>3
  <2> QED
    BY <1>2, <1>3, <2>1 DEF Covers
<1> QED
  BY <1>2, <1>3, <1>5, <1>6 DEF FollowsPath

------------------------------------------------------------------------------
(***************************************************************************)
(* The inductive invariant.                                                *)
(***************************************************************************)
TemporalStages == {"regions", "anchoring", "recombining", "timing", "deciding"}
EmittingStages == {"intervals", "emitting", "output"}

\* Each entry point goes through stages of its own.
Stages ==
  /\ call \in Calls
  /\ pc \in TemporalStages => call.entry = "temporal"
  /\ pc \in EmittingStages => call.entry \in {"subpaths", "summary"}
  /\ pc \in TemporalStages \cup EmittingStages \cup {"done"}

\* The regions that get an emission.
Candidates ==
  IF call.entry = "subpaths" THEN Intervals(Boundaries(path)) ELSE {Whole(path)}

\* What was found for a region so far, and which regions are left.
Solving ==
  /\ pc \in {"regions", "anchoring"} =>
       \A r \in DOMAIN solved : solved[r] = RegionAnchors(path, r)
  /\ pc \in EmittingStages => EmitsWithin(path, solved)
  /\ pc \in {"intervals", "emitting"} => DOMAIN solved \cup left = Candidates
  /\ pc = "emitting" => left # {}

\* What has been chosen.
\* The semantic split is never chosen: the whole path is one region only if no
\* partition into several, the base regions among them, has fewer keys.
SplitNeverPays == out.notes # "semantic_split"

Output ==
  /\ pc = "output" => FollowsPath(path, out.regions, out.emissions)
  /\ pc \notin {"output", "done"} => out = Nothing
  /\ FewestKeysInAll /\ SplitNeverPays /\ EmittedFollowsSource

\* A call that goes on after a cancel has nothing to return yet, and in the
\* output it has a region to poll before.
Cancelling ==
  /\ seen => cancelFile
  /\ seen => pc \in EmittingStages \cup {"done"}
  /\ pc = "output" => out.converged = FALSE
  /\ pc = "output" /\ seen => left # {}
  /\ SeenCancelNeverConverges

IInv == Stages /\ Solving /\ Output /\ Cancelling

\* The first of some regions is one of them.
LEMMA FirstIsOne ==
  ASSUME NEW T, T \subseteq Nat \X Nat, T # {}
  PROVE  First(T) \in T
<1> DEFINE Firsts == {r[1] : r \in T}
<1>1. PICK a \in Firsts : \A y \in Firsts : a <= y
  <2>1. Firsts \subseteq Nat /\ Firsts # {}
    OBVIOUS
  <2> HIDE DEF Firsts
  <2> QED
    BY <2>1, LeastOfSome
<1> DEFINE Seconds == {r[2] : r \in {s \in T : s[1] = a}}
<1>2. PICK b \in Seconds : \A y \in Seconds : b <= y
  <2>1. Seconds \subseteq Nat /\ Seconds # {}
    OBVIOUS
  <2> HIDE DEF Seconds
  <2> QED
    BY <2>1, LeastOfSome
<1>3. PICK r \in T : r[1] = a /\ r[2] = b
  BY <1>2
<1>4. \A s \in T : r[1] < s[1] \/ (r[1] = s[1] /\ r[2] <= s[2])
  <2>1. ASSUME NEW s \in T PROVE a < s[1] \/ (a = s[1] /\ b <= s[2])
    <3>1. a <= s[1] /\ s[1] \in Nat /\ a \in Nat
      BY <1>1, <1>3
    <3>2. s[1] = a => b <= s[2]
      BY <1>2
    <3> HIDE DEF Firsts, Seconds
    <3> QED
      BY <3>1, <3>2
  <2> QED
    BY <1>3, <2>1
<1> QED
  BY <1>4 DEF First

\* A call has a path.
LEMMA CallHasPath ==
  ASSUME Stages
  PROVE  IsPath(path) /\ VertexCount(path) \in Nat \ {0}
BY CallsAssumption DEF Stages, IsCall, IsPath, path

\* The regions that get an emission lie in the path.
LEMMA CandidatesAreRegions ==
  ASSUME Stages
  PROVE  Candidates \subseteq Nat \X Nat
<1>1. IsPath(path) /\ VertexCount(path) \in Nat \ {0}
  BY CallHasPath
<1>2. Boundaries(path) \subseteq Nat
  <2>1. CASE Boundaries(path) = {}
    BY <2>1
  <2>2. CASE Boundaries(path) # {}
    <3> DEFINE v == VertexCount(path)
    <3>1. v \in Nat /\ Boundaries(path) \subseteq 0 .. v
      BY <1>1, <2>2, BoundariesAre
    <3> HIDE DEF v
    <3> QED
      BY <3>1
  <2> QED
    BY <2>1, <2>2
<1>3. Intervals(Boundaries(path)) \subseteq Nat \X Nat
  <2> DEFINE B == Boundaries(path)
  <2>1. B \subseteq Nat
    BY <1>2
  <2> HIDE DEF B
  <2>2. Intervals(B) \subseteq Nat \X Nat
    BY <2>1 DEF Intervals
  <2> QED
    BY <2>2 DEF B
<1>4. Whole(path) \in Nat \X Nat
  <2> DEFINE v == VertexCount(path)
  <2>1. v \in Nat
    BY <1>1
  <2> HIDE DEF v
  <2>2. <<0, v>> \in Nat \X Nat
    BY <2>1
  <2> QED
    BY <2>2 DEF Whole, v
<1> QED
  BY <1>3, <1>4 DEF Candidates

\* Some stages only look at what did not change.
LEMMA OutputStays ==
  ASSUME Output, UNCHANGED <<call, pc, solved, out>>
  PROVE  Output'
<1>1. FewestKeysInAll'
  BY DEF Output, FewestKeysInAll, RegionLimit, Cuts, path
<1>2. EmittedFollowsSource'
  BY DEF Output, EmittedFollowsSource, Samples, path
<1> QED
  BY <1>1, <1>2 DEF Output, SplitNeverPays, path, Nothing

\* Before the output nothing is chosen.
LEMMA NothingChosen ==
  ASSUME Output, pc' \notin {"output", "done"}, out = Nothing, out' = out
  PROVE  Output'
BY DEF Output, FewestKeysInAll, EmittedFollowsSource, SplitNeverPays, Nothing

\* A call that begins has found nothing yet.
LEMMA Initially == Init => IInv
<1> SUFFICES ASSUME Init PROVE IInv
  OBVIOUS
<1> USE DEF Init
<1>1. call.entry \in {"temporal", "subpaths", "summary"}
  BY CallsAssumption DEF IsCall
<1>2. pc = IF call.entry = "temporal" THEN "regions" ELSE "intervals"
  OBVIOUS
<1>3. Stages
  BY <1>1, <1>2 DEF Stages, TemporalStages, EmittingStages
<1>4. DOMAIN solved = {}
  OBVIOUS
<1>5. pc = "intervals" => left = Candidates
  BY <1>1, <1>2 DEF Candidates
<1>6. Solving
  BY <1>2, <1>4, <1>5 DEF Solving, EmitsWithin
<1>7. Output
  BY <1>2 DEF Output, FewestKeysInAll, EmittedFollowsSource, SplitNeverPays, Nothing
<1>8. Cancelling
  BY <1>2 DEF Cancelling, SeenCancelNeverConverges
<1> QED
  BY <1>3, <1>6, <1>7, <1>8 DEF IInv

\* The branch the host and the loops share.
LEMMA LoopKeeps ==
  ASSUME IInv, HostCancels \/ ReturnCancelled \/ BeginRegion \/ Returned
  PROVE  IInv'
<1> USE DEF TemporalStages, EmittingStages
<1>1. CASE HostCancels
  <2>1. UNCHANGED <<call, pc, left, solved, anchors, out, seen>>
    BY <1>1 DEF HostCancels
  <2>2. Stages' /\ Solving'
    BY <2>1 DEF IInv, Stages, Solving, Candidates, path
  <2>3. Output'
    BY <2>1, OutputStays DEF IInv
  <2>4. Cancelling'
    BY <1>1, <2>1 DEF HostCancels, IInv, Cancelling, SeenCancelNeverConverges
  <2> QED
    BY <2>2, <2>3, <2>4 DEF IInv
<1>2. CASE ReturnCancelled
  <2>1. /\ pc' = "done" /\ UNCHANGED <<call, left, solved, anchors, cancelFile>>
        /\ out' = [Nothing EXCEPT !.notes = "cancelled"] /\ seen' = TRUE /\ cancelFile
    BY <1>2 DEF ReturnCancelled, Return
  <2>2. out'.converged = FALSE /\ out'.notes = "cancelled" /\ out'.emissions = <<>>
    BY <2>1 DEF Nothing
  <2>3. Stages' /\ Solving'
    BY <2>1 DEF IInv, Stages, Solving
  <2>4. Output'
    BY <2>1, <2>2 DEF Output, FewestKeysInAll, EmittedFollowsSource, SplitNeverPays
  <2>5. Cancelling'
    BY <2>1, <2>2 DEF Cancelling, SeenCancelNeverConverges
  <2> QED
    BY <2>3, <2>4, <2>5 DEF IInv
<1>3. CASE BeginRegion
  <2>1. PICK loop \in DOMAIN Inside : Polls(loop) /\ pc' = Inside[loop]
    BY <1>3 DEF BeginRegion
  <2>2. /\ pc \in {"regions", "recombining", "intervals"}
        /\ pc' \in {"anchoring", "timing", "emitting"}
        /\ pc' = "emitting" <=> pc = "intervals"
        /\ pc' = "anchoring" <=> pc = "regions"
        /\ left # {}
        /\ UNCHANGED <<call, left, solved, anchors, out, cancelFile, seen>>
    BY <1>3, <2>1 DEF Inside, Polls, BeginRegion
  <2>3. Stages'
    BY <2>2 DEF IInv, Stages
  <2>4. Solving'
    BY <2>2 DEF IInv, Solving, Candidates, path
  <2>5. Output'
    BY <2>2, NothingChosen DEF IInv, Output
  <2>6. Cancelling'
    BY <2>2 DEF IInv, Cancelling, SeenCancelNeverConverges
  <2> QED
    BY <2>3, <2>4, <2>5, <2>6 DEF IInv
<1>4. CASE Returned
  <2>1. UNCHANGED vars
    BY <1>4 DEF Returned
  <2>2. Stages' /\ Solving' /\ Cancelling'
    BY <2>1 DEF vars, IInv, Stages, Solving, Candidates, path, Cancelling,
                SeenCancelNeverConverges
  <2>3. Output'
    BY <2>1, OutputStays DEF vars, IInv
  <2> QED
    BY <2>2, <2>3 DEF IInv
<1> QED
  BY <1>1, <1>2, <1>3, <1>4

\* A return of the whole path's keys, or of none.
LEMMA TemporalReturns ==
  ASSUME IInv, pc \in TemporalStages, pc' = "done", UNCHANGED call,
         out'.notes # "semantic_split", out'.emissions = <<>>,
         seen' => cancelFile', seen' => ~out'.converged
  PROVE  IInv'
<1> USE DEF TemporalStages, EmittingStages
<1>1. call'.entry = "temporal"
  BY DEF IInv, Stages
<1>2. Stages' /\ Solving'
  BY <1>1 DEF IInv, Stages, Solving
<1>3. Output'
  BY <1>1 DEF Output, FewestKeysInAll, EmittedFollowsSource, SplitNeverPays
<1>4. Cancelling'
  BY DEF Cancelling, SeenCancelNeverConverges
<1> QED
  BY <1>2, <1>3, <1>4 DEF IInv

\* A step to another of its stages.
LEMMA TemporalGoesOn ==
  ASSUME IInv, pc \in TemporalStages, pc' \in {"recombining", "deciding"},
         UNCHANGED <<call, out, cancelFile, seen>>
  PROVE  IInv'
<1> USE DEF TemporalStages, EmittingStages
<1>1. Stages' /\ Solving'
  BY DEF IInv, Stages, Solving
<1>2. Output'
  BY NothingChosen DEF IInv, Output
<1>3. Cancelling'
  BY DEF IInv, Cancelling, SeenCancelNeverConverges
<1> QED
  BY <1>1, <1>2, <1>3 DEF IInv

\* The timing of the whole path: a cancel that is seen ends the call.
LEMMA TemporalKeeps ==
  ASSUME IInv, SolveMultiModeTemporal
  PROVE  IInv'
<1>1. seen /\ pc \in TemporalStages => FALSE
  BY DEF IInv, Cancelling, TemporalStages, EmittingStages
<1>2. CASE AnchorsCancelled \/ TimingCancelled
  <2>1. /\ pc \in TemporalStages /\ pc' = "done" /\ UNCHANGED <<call, cancelFile>>
        /\ cancelFile /\ \E notes \in {"region_failed", "cancelled"} :
                           out' = [Nothing EXCEPT !.notes = notes]
    BY <1>2 DEF AnchorsCancelled, TimingCancelled, Return, TemporalStages
  <2>2. out'.notes # "semantic_split" /\ out'.emissions = <<>> /\ ~out'.converged
    BY <2>1 DEF Nothing
  <2> QED
    BY <2>1, <2>2, TemporalReturns
<1>3. CASE RegionBudgetExceeded \/ ValidationTooLarge
  <2>1. /\ pc \in TemporalStages /\ pc' = "done" /\ UNCHANGED <<call, cancelFile, seen>>
        /\ \/ out' = [Nothing EXCEPT !.notes = "region_budget"]
           \/ out' = [Nothing EXCEPT !.notes = "validation_budget", !.keys = UnionKeys]
    BY <1>3 DEF RegionBudgetExceeded, ValidationTooLarge, RegionsSolved, Return,
                TemporalStages
  <2>2. out'.notes # "semantic_split" /\ out'.emissions = <<>> /\ ~out'.converged
    BY <2>1 DEF Nothing
  <2> QED
    BY <1>1, <2>1, <2>2, TemporalReturns
<1>4. CASE SolveRegionAnchors
  <2>1. /\ pc = "anchoring" /\ pc' = "regions"
        /\ UNCHANGED <<call, out, cancelFile, seen>>
        /\ Keep(RegionAnchors(path, Region))
    BY <1>4 DEF SolveRegionAnchors
  <2>2. Stages'
    BY <2>1 DEF IInv, Stages, TemporalStages, EmittingStages
  <2>3. \A r \in DOMAIN solved' : solved'[r] = RegionAnchors(path, r)
    BY <2>1 DEF IInv, Solving, Keep
  <2>4. Solving'
    <3>1. path' = path
      BY <2>1 DEF path
    <3> QED
      BY <2>1, <2>3, <3>1 DEF Solving, EmittingStages
  <2>5. Output'
    BY <2>1, NothingChosen DEF IInv, Output
  <2>6. Cancelling'
    BY <2>1 DEF IInv, Cancelling, SeenCancelNeverConverges, EmittingStages
  <2> QED
    BY <2>2, <2>4, <2>5, <2>6 DEF IInv
<1>5. CASE NothingToRecombine \/ StartRecombining \/ TimeRegion \/ RejectRecombined
  <2>1. /\ pc \in TemporalStages /\ pc' \in {"recombining", "deciding"}
        /\ UNCHANGED <<call, out, cancelFile, seen>>
    BY <1>5 DEF NothingToRecombine, StartRecombining, TimeRegion, RejectRecombined,
                RegionsSolved, RegionsTimed, TemporalStages
  <2> QED
    BY <2>1, TemporalGoesOn
<1>6. CASE AcceptRecombined \/ DecideUnion
  <2>1. /\ pc \in TemporalStages /\ pc' = "done" /\ UNCHANGED <<call, cancelFile, seen>>
        /\ \E notes \in {"recombined", "key_budget", "union"} :
             \E converged, keys :
               out' = [Nothing EXCEPT !.notes = notes, !.converged = converged,
                                      !.keys = keys]
    <3>1. CASE AcceptRecombined
      BY <3>1 DEF AcceptRecombined, RegionsTimed, Return, TemporalStages
    <3>2. CASE DecideUnion
      BY <3>2 DEF DecideUnion, Return, TemporalStages
    <3> QED
      BY <1>6, <3>1, <3>2
  <2>2. out'.notes # "semantic_split" /\ out'.emissions = <<>>
    BY <2>1 DEF Nothing
  <2> QED
    BY <1>1, <2>1, <2>2, TemporalReturns
<1> QED
  BY <1>2, <1>3, <1>4, <1>5, <1>6 DEF SolveMultiModeTemporal

------------------------------------------------------------------------------
(***************************************************************************)
(* The choice among the partitions.                                        *)
(***************************************************************************)
\* Every region has its emission, and there is a partition.
Chooses ==
  /\ IInv /\ IntervalsSolved
  /\ Cardinality(DOMAIN solved) > 0 /\ Chosen # <<>>

Best == BestOf(Found, DOMAIN Found)

\* What was found for the regions of either entry point.
LEMMA AllAreSolved ==
  ASSUME Chooses
  PROVE  /\ DOMAIN solved = Candidates /\ EmitsWithin(path, solved)
         /\ CountsKeys(solved) /\ IsPath(path) /\ out = Nothing
         /\ call.entry \in {"subpaths", "summary"}
<1>1. IsPath(path)
  BY CallHasPath DEF Chooses, IInv
<1>2. pc = "intervals" /\ left = {}
  BY DEF Chooses, IntervalsSolved
<1>3. DOMAIN solved = Candidates /\ EmitsWithin(path, solved)
  BY <1>2 DEF Chooses, IInv, Solving, EmittingStages
<1>4. CountsKeys(solved)
  BY <1>3, EmissionsCountKeys
<1>5. out = Nothing /\ call.entry \in {"subpaths", "summary"}
  BY <1>2 DEF Chooses, IInv, Stages, Output, EmittingStages
<1> QED
  BY <1>1, <1>3, <1>4, <1>5

\* The regions of the partition with the lowest score.
LEMMA ChosenIs == Chosen = IF Best = 0 THEN <<>> ELSE Found[Best].regions
BY DEF Chosen, Best

\* The regions chosen are a best cut of the path.
LEMMA ChosenIsBest ==
  ASSUME Chooses, call.entry = "subpaths"
  PROVE  /\ AreBestRegions(solved, Boundaries(path), VertexCount(path),
                           LimitOf(Boundaries(path)), Chosen, Best)
         /\ Boundaries(path) # {} /\ DOMAIN solved = Intervals(Boundaries(path))
         /\ Found = Partitions(solved, Boundaries(path), LimitOf(Boundaries(path)))
<1> DEFINE B == Boundaries(path)
           v == VertexCount(path)
           n == LimitOf(B)
<1>1. DOMAIN solved = Intervals(B) /\ CountsKeys(solved) /\ IsPath(path)
  BY AllAreSolved DEF Candidates
<1>2. B # {}
  <2> HIDE DEF B
  <2>1. SUFFICES ASSUME B = {} PROVE FALSE
    OBVIOUS
  <2>2. DOMAIN solved = {}
    BY <1>1, <2>1 DEF Intervals
  <2>3. Cardinality(DOMAIN solved) = 0
    BY <2>2, FS_EmptySet
  <2> QED
    BY <2>3 DEF Chooses
<1>3. /\ B \subseteq 0 .. v /\ 0 \in B /\ v \in B /\ v \in Nat \ {0}
      /\ IsFiniteSet(B) /\ Cardinality(B) \in 0 .. 20
  BY <1>1, <1>2, BoundariesAre
<1>4. Found = Partitions(solved, B, n)
  <2>1. RegionLimit = n
    BY DEF RegionLimit, LimitOf
  <2> QED
    BY <2>1 DEF Found
<1> HIDE DEF B, v
<1>5. n \in 1 .. 19
  BY <1>3, LimitIs
<1> HIDE DEF n
<1>6. ArePartitions(solved, B, v, n, Found)
  <2>1. v \in Nat /\ n \in Nat
    BY <1>3, <1>5
  <2> QED
    BY <1>1, <1>3, <1>4, <2>1, PartitionsAreBest
<1> DEFINE best == Best
           P == Found
<1>7. best = BestOf(P, 1 .. n)
  BY <1>6 DEF ArePartitions, Best
<1>8. best # 0 /\ Chosen = P[best].regions
  BY ChosenIs DEF Chooses
<1>9. ArePartitions(solved, B, v, n, P)
  BY <1>6
<1> HIDE DEF best, P
<1>10. AreBestRegions(solved, B, v, n, P[best].regions, best)
  BY <1>1, <1>5, <1>7, <1>8, <1>9, BestIsBestCut
<1>11. AreBestRegions(solved, B, v, n, Chosen, Best)
  BY <1>8, <1>10 DEF best
<1> QED
  BY <1>1, <1>2, <1>4, <1>11 DEF B, v, n

\* The fast summary chooses the whole path.
LEMMA ChosenIsWhole ==
  ASSUME Chooses, call.entry = "summary"
  PROVE  Chosen = <<Whole(path)>> /\ solved[Whole(path)].ok
<1> DEFINE r == IF solved[Whole(path)].ok THEN <<Whole(path)>> ELSE <<>>
           counts == DOMAIN Found
           best == Best
           P == Found
<1>1. P = <<[score |-> 0, regions |-> r]>>
  BY DEF Found
<1> HIDE DEF r, P
<1>2. counts = {1} /\ P[1].score = 0 /\ P[1].regions = r
  BY <1>1 DEF P
<1>3. best = BestOf(P, counts)
  BY DEF Best, P
<1>4. best # 0 /\ Chosen = P[best].regions
  BY ChosenIs DEF Chooses, P
<1> HIDE DEF counts, best
<1>5. counts \subseteq Nat \ {0} /\ \A c \in counts : P[c].score \in Int
  BY <1>2
<1>6. IF \E c \in counts : Reached(P[c])
      THEN IsLowest(P, counts, BestOf(P, counts)) ELSE BestOf(P, counts) = 0
  BY <1>5, BestOfIsLowest
<1>7. best = 1
  BY <1>2, <1>3, <1>4, <1>6 DEF IsLowest
<1>8. Chosen = r
  BY <1>2, <1>4, <1>7
<1> QED
  BY <1>8 DEF r, Chooses

\* What is chosen follows the path.
LEMMA ChosenFollows ==
  ASSUME Chooses
  PROVE  FollowsPath(path, Chosen, EmissionsOf(solved, Chosen))
<1>1. /\ DOMAIN solved = Candidates /\ EmitsWithin(path, solved)
      /\ call.entry \in {"subpaths", "summary"}
  BY AllAreSolved
<1>2. CASE call.entry = "subpaths"
  <2> DEFINE B == Boundaries(path)
             c == Best
             p == path
             e == solved
  <2>1. PICK cut : /\ IsBestCut(e, B, VertexCount(p), LimitOf(B), cut, c)
                   /\ Chosen = CutRegions(cut, c)
    BY <1>2, ChosenIsBest DEF AreBestRegions
  <2>2. EmitsWithin(p, e)
    BY <1>1
  <2> HIDE DEF B, c, p, e
  <2>3. c \in Nat \ {0} /\ IsCut(e, B, cut, c, VertexCount(p))
    BY <2>1 DEF IsBestCut
  <2>4. FollowsPath(p, CutRegions(cut, c), EmissionsOf(e, CutRegions(cut, c)))
    BY <2>2, <2>3, CutFollows
  <2> QED
    BY <2>1, <2>4 DEF p, e
<1>3. CASE call.entry = "summary"
  <2> DEFINE w == Whole(path)
             m == EmissionsOf(solved, Chosen)
  <2>1. Chosen = <<w>> /\ solved[w].ok /\ w \in DOMAIN solved
    <3>1. DOMAIN solved = {w}
      BY <1>1, <1>3 DEF Candidates
    <3> QED
      BY <1>3, <3>1, ChosenIsWhole
  <2>2. w[1] = 0 /\ w[2] = VertexCount(path)
    BY DEF Whole
  <2>3. Reconstructs(path, w, solved[w].keys)
    BY <1>1, <2>1 DEF EmitsWithin
  <2>4. Len(Chosen) = 1 /\ DOMAIN Chosen = 1 .. 1 /\ Chosen[1] = w
    <3> HIDE DEF w
    <3> QED
      BY <2>1
  <2>5. m[1] = solved[w]
    BY <2>4 DEF EmissionsOf
  <2> HIDE DEF w, m
  <2>6. \A n \in 1 .. 1, k \in DOMAIN path[0] :
          ErrorAt(path, Chosen[n], m[n].keys, k) <= RegionTolerance * Unit
    <3>1. \A n \in 1 .. 1 : n = 1
      OBVIOUS
    <3> QED
      BY <2>3, <2>4, <2>5, <3>1 DEF Reconstructs
  <2>7. \A n \in 1 .. 1 - 1 : FALSE
    OBVIOUS
  <2> QED
    BY <2>2, <2>4, <2>6, <2>7 DEF FollowsPath, m
<1> QED
  BY <1>1, <1>2, <1>3

\* No other cut within tolerance has fewer keys, or as few in fewer regions.
LEMMA ChosenIsFewest ==
  ASSUME Chooses, call.entry = "subpaths",
         NEW count \in 1 .. RegionLimit, NEW cut \in Cuts(count),
         \A n \in 1 .. count : EmissionsOf(solved, CutRegions(cut, count))[n].ok
  PROVE  LET m == EmissionsOf(solved, Chosen)
             y == EmissionsOf(solved, CutRegions(cut, count))
         IN \/ KeyCount(m) < KeyCount(y)
            \/ KeyCount(m) = KeyCount(y) /\ Len(m) <= count
<1> DEFINE B == Boundaries(path)
           v == VertexCount(path)
           limit == LimitOf(B)
<1>1. count \in 1 .. limit
  BY DEF RegionLimit, LimitOf
<1>2. /\ cut \in [0 .. count -> B] /\ cut[0] = 0 /\ cut[count] = v
      /\ \A n \in 1 .. count : cut[n - 1] < cut[n]
  BY DEF Cuts
<1>3. DOMAIN solved = Intervals(B)
  BY ChosenIsBest
<1>4. PICK best : /\ IsBestCut(solved, B, v, limit, best, Best)
                  /\ Chosen = CutRegions(best, Best)
  BY ChosenIsBest DEF AreBestRegions
<1> HIDE DEF B, v, limit
<1>5. count \in Nat
  BY <1>1
<1>6. \A n \in 1 .. count : Valid(solved, <<cut[n - 1], cut[n]>>)
  <2>1. ASSUME NEW n \in 1 .. count PROVE Valid(solved, <<cut[n - 1], cut[n]>>)
    <3> DEFINE a == cut[n - 1]
               b == cut[n]
    <3>1. a \in B /\ b \in B /\ a < b
      <4>1. n - 1 \in 0 .. count /\ n \in 0 .. count
        BY <1>5
      <4> QED
        BY <1>2, <4>1
    <3>2. solved[<<a, b>>].ok
      BY <1>5 DEF EmissionsOf, CutRegions
    <3> HIDE DEF a, b
    <3>3. <<a, b>> \in Intervals(B)
      BY <3>1 DEF Intervals
    <3>4. Valid(solved, <<a, b>>)
      BY <1>3, <3>2, <3>3 DEF Valid
    <3> QED
      BY <3>4 DEF a, b
  <2> QED
    BY <2>1
<1>7. IsCut(solved, B, cut, count, v)
  BY <1>2, <1>6 DEF IsCut
<1>8. \/ KeysOver(solved, best, Best) < KeysOver(solved, cut, count)
      \/ KeysOver(solved, best, Best) = KeysOver(solved, cut, count) /\ Best <= count
  BY <1>1, <1>4, <1>7 DEF IsBestCut
<1>9. Len(EmissionsOf(solved, Chosen)) = Best
  <2> DEFINE c == Best
  <2>1. c \in Nat
    BY <1>4 DEF IsBestCut
  <2>2. Chosen = CutRegions(best, c)
    BY <1>4
  <2> HIDE DEF c
  <2>3. EmissionsOf(solved, Chosen) = [n \in 1 .. c |-> solved[Chosen[n]]]
    BY <2>1, <2>2 DEF EmissionsOf, CutRegions
  <2>4. Len(EmissionsOf(solved, Chosen)) = c
    BY <2>1, <2>3
  <2> QED
    BY <2>4 DEF c
<1> QED
  BY <1>4, <1>8, <1>9 DEF KeysOver

\* Where the whole path is chosen as one region, there is no split to prefer.
LEMMA NoSplitToPrefer ==
  ASSUME Chooses, call.entry = "subpaths",
         NeedsSplit(path, Chosen, solved, call.deep)
  PROVE  SemanticSplit(path, solved, Found) = <<>>
<1>1. Chosen = <<Whole(path)>>
  BY DEF NeedsSplit
<1>2. PICK cut : IsBestCut(solved, Boundaries(path), VertexCount(path),
                           LimitOf(Boundaries(path)), cut, Best)
                 /\ Chosen = CutRegions(cut, Best)
  BY ChosenIsBest DEF AreBestRegions
<1>3. Best = 1
  <2> DEFINE c == Best
             w == Whole(path)
  <2>1. c \in Nat /\ <<w>> = CutRegions(cut, c)
    BY <1>1, <1>2 DEF IsBestCut
  <2> HIDE DEF c, w
  <2>2. DOMAIN <<w>> = 1 .. 1 /\ DOMAIN CutRegions(cut, c) = 1 .. c
    BY DEF CutRegions
  <2>3. c = 1
    BY <2>1, <2>2
  <2> QED
    BY <2>3 DEF c
<1> DEFINE p == path
           e == solved
           P == Found
<1>4. /\ IsPath(p) /\ Boundaries(p) # {} /\ CountsKeys(e)
      /\ DOMAIN e \subseteq Intervals(Boundaries(p))
      /\ P = Partitions(e, Boundaries(p), LimitOf(Boundaries(p)))
  BY AllAreSolved, ChosenIsBest
<1>5. BestOf(P, DOMAIN P) = 1
  BY <1>3 DEF Best
<1> HIDE DEF p, e, P
<1>6. SemanticSplit(p, e, P) = <<>>
  BY <1>4, <1>5, NoSplitPays
<1> QED
  BY <1>6 DEF p, e, P

\* So only the worst vertex on its own is ever preferred to the partition.
LEMMA EmittedIs ==
  ASSUME Chooses, NEW lost
  PROVE  \/ Emitted(Chosen, lost)
              = Emitting(Chosen, EmissionsOf(solved, Chosen), "key_count")
         \/ LET o == OutlierPartition(path, solved, call.checks)
            IN /\ o.regions # <<>>
               /\ Emitted(Chosen, lost) = Emitting(o.regions, o.emissions, "outlier_split")
<1>1. CASE call.entry = "subpaths" /\ NeedsSplit(path, Chosen, solved, call.deep)
  <2>1. SemanticSplit(path, solved, Found) = <<>>
    BY <1>1, NoSplitToPrefer
  <2>2. Emitted(Chosen, lost)
          = Alternative(Chosen, SemanticSplit(path, solved, Found),
                        OutlierPartition(path, solved, call.checks), lost)
    BY <1>1 DEF Emitted
  <2> QED
    BY <2>1, <2>2, Zenon DEF Alternative
<1>2. CASE ~(call.entry = "subpaths" /\ NeedsSplit(path, Chosen, solved, call.deep))
  BY <1>2 DEF Emitted
<1> QED
  BY <1>1, <1>2

\* Choosing a partition: what is emitted follows the path, and unless the worst
\* vertex is preferred no cut has fewer keys.
LEMMA ChoosePartitionKeeps ==
  ASSUME IInv, ChoosePartition
  PROVE  IInv'
<1>1. /\ IntervalsSolved /\ Cardinality(DOMAIN solved) > 0 /\ Chosen # <<>>
      /\ left' = Range(out'.regions) /\ pc' = "output"
      /\ UNCHANGED <<call, solved, anchors, cancelFile, seen>>
  BY DEF ChoosePartition
<1>2. Chooses
  BY <1>1 DEF Chooses
<1>3. PICK lost : out' = Emitted(Chosen, lost)
  BY DEF ChoosePartition
<1>4. /\ EmitsWithin(path, solved) /\ out = Nothing
      /\ call.entry \in {"subpaths", "summary"}
  BY <1>2, AllAreSolved
<1>5. PICK regions, emissions, notes :
        /\ out' = Emitting(regions, emissions, notes)
        /\ FollowsPath(path, regions, emissions)
        /\ notes \in {"key_count", "outlier_split"}
        /\ notes = "key_count" =>
             regions = Chosen /\ emissions = EmissionsOf(solved, Chosen)
  <2>1. CASE Emitted(Chosen, lost)
               = Emitting(Chosen, EmissionsOf(solved, Chosen), "key_count")
    BY <1>2, <1>3, <2>1, ChosenFollows
  <2> DEFINE o == OutlierPartition(path, solved, call.checks)
  <2>2. CASE /\ o.regions # <<>>
             /\ Emitted(Chosen, lost) = Emitting(o.regions, o.emissions, "outlier_split")
    <3> DEFINE p == path
               e == solved
               budget == call.checks
    <3>1. EmitsWithin(p, e) /\ OutlierPartition(p, e, budget).regions # <<>>
      BY <1>4, <2>2
    <3> HIDE DEF p, e, budget
    <3>2. FollowsPath(p, OutlierPartition(p, e, budget).regions,
                      OutlierPartition(p, e, budget).emissions)
      BY <3>1, OutlierFollows
    <3>3. FollowsPath(path, o.regions, o.emissions)
      BY <3>2 DEF p, e, budget
    <3> HIDE DEF o
    <3> QED
      BY <1>3, <2>2, <3>3
  <2> QED
    BY <1>2, <2>1, <2>2, EmittedIs
<1>6. /\ out'.regions = regions /\ out'.emissions = emissions
      /\ out'.notes = notes /\ out'.converged = FALSE
  BY <1>4, <1>5 DEF Emitting, Nothing
<1>7. Stages'
  BY <1>1, <1>4 DEF IInv, Stages, TemporalStages, EmittingStages
<1>8. Solving'
  <2>1. path' = path
    BY <1>1 DEF path
  <2> QED
    BY <1>1, <1>4, <2>1 DEF Solving
<1>9. left' # {}
  <2>1. 1 \in DOMAIN regions
    BY <1>5 DEF FollowsPath
  <2> QED
    BY <1>1, <1>6, <2>1 DEF Range
<1>10. FewestKeysInAll'
  <2> SUFFICES ASSUME call.entry = "subpaths", notes = "key_count"
               PROVE  FewestKeysInAll'
    BY <1>1, <1>6 DEF FewestKeysInAll
  <2>1. emissions = EmissionsOf(solved, Chosen)
    BY <1>5
  <2>2. ASSUME NEW count \in 1 .. RegionLimit, NEW cut \in Cuts(count),
               \A n \in 1 .. count : EmissionsOf(solved, CutRegions(cut, count))[n].ok
        PROVE  \/ KeyCount(emissions)
                    < KeyCount(EmissionsOf(solved, CutRegions(cut, count)))
               \/ /\ KeyCount(emissions)
                       = KeyCount(EmissionsOf(solved, CutRegions(cut, count)))
                  /\ Len(emissions) <= count
    BY <1>2, <2>1, <2>2, ChosenIsFewest
  <2>3. ASSUME NEW count \in (1 .. RegionLimit)', NEW cut \in Cuts(count)',
               \A n \in 1 .. count : EmissionsOf(solved', CutRegions(cut, count))[n].ok
        PROVE  \/ KeyCount(out'.emissions)
                    < KeyCount(EmissionsOf(solved', CutRegions(cut, count)))
               \/ /\ KeyCount(out'.emissions)
                       = KeyCount(EmissionsOf(solved', CutRegions(cut, count)))
                  /\ Len(out'.emissions) <= count
    <3>1. count \in 1 .. RegionLimit
      BY <1>1, <2>3 DEF RegionLimit, path
    <3>2. cut \in Cuts(count)
      BY <1>1, <2>3 DEF Cuts, path
    <3> QED
      BY <1>1, <1>6, <2>2, <2>3, <3>1, <3>2
  <2> QED
    BY <2>3 DEF FewestKeysInAll
<1>11. FollowsPath(path', out'.regions, out'.emissions)
  BY <1>1, <1>5, <1>6 DEF path
<1>12. Output'
  BY <1>1, <1>5, <1>6, <1>10, <1>11
     DEF Output, SplitNeverPays, EmittedFollowsSource
<1>13. Cancelling'
  BY <1>1, <1>6, <1>9 DEF IInv, Cancelling, SeenCancelNeverConverges, EmittingStages
<1> QED
  BY <1>7, <1>8, <1>12, <1>13 DEF IInv

\* A region's emission is kept, whatever it is.
LEMMA EmittingKeeps ==
  ASSUME IInv, pc = "emitting", pc' = "intervals",
         NEW found, Keep(found), found.ok => Reconstructs(path, Region, found.keys),
         UNCHANGED <<call, out, cancelFile>>, seen' => cancelFile
  PROVE  IInv'
<1>1. /\ Stages /\ left # {} /\ DOMAIN solved \cup left = Candidates
      /\ EmitsWithin(path, solved) /\ call.entry \in {"subpaths", "summary"}
  BY DEF IInv, Solving, Stages, EmittingStages
<1>2. Region \in left
  <2>1. left \subseteq Nat \X Nat
    BY <1>1, CandidatesAreRegions
  <2> QED
    BY <1>1, <2>1, FirstIsOne DEF Region
<1>3. path' = path
  BY DEF path
<1>4. Candidates' = Candidates
  BY <1>3 DEF Candidates
<1>5. /\ left' = left \ {Region} /\ DOMAIN solved' = DOMAIN solved \cup {Region}
      /\ \A r \in DOMAIN solved' :
           solved'[r] = IF r = Region THEN found ELSE solved[r]
  BY DEF Keep
<1>6. Stages'
  BY <1>1 DEF Stages, TemporalStages, EmittingStages
<1>7. EmitsWithin(path', solved')
  BY <1>1, <1>3, <1>5 DEF EmitsWithin
<1>8. DOMAIN solved' \cup left' = Candidates'
  BY <1>1, <1>2, <1>4, <1>5
<1>9. Solving'
  BY <1>7, <1>8 DEF Solving, EmittingStages
<1>10. Output'
  BY NothingChosen DEF IInv, Output
<1>11. Cancelling'
  BY DEF IInv, Cancelling, SeenCancelNeverConverges, EmittingStages
<1> QED
  BY <1>6, <1>9, <1>10, <1>11 DEF IInv

\* The emission of keys per region.
LEMMA SubpathsKeep ==
  ASSUME IInv, EmitLandmarkSubpathKeys
  PROVE  IInv'
<1>1. CASE EmissionCancelled
  <2> DEFINE found == NoEmission
  <2>1. /\ pc = "emitting" /\ pc' = "intervals" /\ Keep(found)
        /\ UNCHANGED <<call, out, cancelFile>> /\ (seen' => cancelFile)
    BY <1>1 DEF EmissionCancelled
  <2>2. found.ok => Reconstructs(path, Region, found.keys)
    BY DEF NoEmission
  <2> HIDE DEF found
  <2> QED
    BY <2>1, <2>2, EmittingKeeps
<1>2. CASE EmitRegion
  <2> DEFINE found == Emission(path, Region, call.checks)
  <2>1. /\ pc = "emitting" /\ pc' = "intervals" /\ Keep(found)
        /\ UNCHANGED <<call, out, cancelFile>> /\ (seen' => cancelFile)
    BY <1>2 DEF EmitRegion, IInv, Cancelling
  <2>2. found.ok => Reconstructs(path, Region, found.keys)
    BY EmissionReconstructs
  <2> HIDE DEF found
  <2> QED
    BY <2>1, <2>2, EmittingKeeps
<1>3. CASE NoPartition
  <2>1. /\ pc' = "done" /\ out' = Nothing
        /\ UNCHANGED <<call, left, solved, anchors, cancelFile, seen>>
    BY <1>3 DEF NoPartition, Return
  <2>2. out'.converged = FALSE /\ out'.emissions = <<>> /\ out'.notes # "semantic_split"
    BY <2>1 DEF Nothing
  <2>3. Stages' /\ Solving'
    BY <2>1 DEF IInv, Stages, Solving, TemporalStages, EmittingStages
  <2>4. Output'
    BY <2>1, <2>2 DEF Output, FewestKeysInAll, SplitNeverPays, EmittedFollowsSource
  <2>5. Cancelling'
    BY <2>1, <2>2 DEF IInv, Cancelling, SeenCancelNeverConverges
  <2> QED
    BY <2>3, <2>4, <2>5 DEF IInv
<1>4. CASE ChoosePartition
  BY <1>4, ChoosePartitionKeeps
<1>5. CASE OutputRegion
  <2>1. /\ pc = "output" /\ ~cancelFile
        /\ UNCHANGED <<call, pc, solved, anchors, out, cancelFile, seen>>
    BY <1>5 DEF OutputRegion
  <2>2. Stages'
    BY <2>1 DEF IInv, Stages
  <2>3. Solving'
    BY <2>1 DEF IInv, Solving, path
  <2>4. Output'
    BY <2>1, OutputStays DEF IInv
  <2>5. Cancelling'
    BY <2>1 DEF IInv, Cancelling, SeenCancelNeverConverges
  <2> QED
    BY <2>2, <2>3, <2>4, <2>5 DEF IInv
<1>6. CASE OutputDone
  <2>1. /\ pc = "output" /\ left = {} /\ pc' = "done"
        /\ out' = [out EXCEPT !.converged = TRUE]
        /\ UNCHANGED <<call, left, solved, anchors, cancelFile, seen>>
    BY <1>6 DEF OutputDone, Return
  <2>2. /\ out'.regions = out.regions /\ out'.emissions = out.emissions
        /\ out'.notes = out.notes
    BY <2>1
  <2>3. Stages' /\ Solving'
    BY <2>1 DEF IInv, Stages, Solving, TemporalStages, EmittingStages
  <2>4. EmittedFollowsSource'
    <3>1. FollowsPath(path, out.regions, out.emissions)
      BY <2>1 DEF IInv, Output
    <3>2. path' = path
      BY <2>1 DEF path
    <3> QED
      BY <2>2, <3>1, <3>2 DEF EmittedFollowsSource, FollowsPath, Samples
  <2>5. Output'
    BY <2>1, <2>2, <2>4 DEF IInv, Output, FewestKeysInAll, SplitNeverPays
  <2>6. Cancelling'
    BY <2>1 DEF IInv, Cancelling, SeenCancelNeverConverges
  <2> QED
    BY <2>3, <2>5, <2>6 DEF IInv
<1> QED
  BY <1>1, <1>2, <1>3, <1>4, <1>5, <1>6 DEF EmitLandmarkSubpathKeys

\* Every step keeps the invariant.
LEMMA NextKeeps ==
  ASSUME IInv, [Next]_vars
  PROVE  IInv'
<1>1. CASE UNCHANGED vars
  <2>2. Stages' /\ Solving' /\ Cancelling'
    BY <1>1 DEF vars, IInv, Stages, Solving, Candidates, path, Cancelling,
                SeenCancelNeverConverges
  <2>3. Output'
    BY <1>1, OutputStays DEF vars, IInv
  <2> QED
    BY <2>2, <2>3 DEF IInv
<1>2. CASE HostCancels \/ ReturnCancelled \/ BeginRegion \/ Returned
  BY <1>2, LoopKeeps
<1> QED
  BY <1>1, <1>2, TemporalKeeps, SubpathsKeep DEF Next

\* The invariant of the solver holds at every step.
THEOREM MultiModeInvariance == Spec => []IInv
BY Initially, NextKeeps, PTL DEF Spec

------------------------------------------------------------------------------
(***************************************************************************)
(* The properties.                                                         *)
(***************************************************************************)
\* The source samples of a path are numbered from 0.
LEMMA SamplesAre ==
  ASSUME Stages
  PROVE  /\ SampleCount(path) \in Nat \ {0} /\ Samples = 0 .. SampleCount(path) - 1
         /\ Max(Samples) = SampleCount(path) - 1
<1> DEFINE n == SampleCount(path)
           v == VertexCount(path)
<1>1. n \in Nat \ {0} /\ v \in Nat \ {0}
      /\ path \in [0 .. v - 1 -> [0 .. n - 1 -> Int]]
  BY CallHasPath DEF IsPath
<1> HIDE DEF n, v
<1>2. Samples = 0 .. n - 1
  <2>1. 0 \in 0 .. v - 1
    BY <1>1
  <2> QED
    BY <1>1, <2>1 DEF Samples
<1>3. Max(Samples) = n - 1
  <2> DEFINE S == Samples
             m == n - 1
  <2>0. m \in Nat /\ S = 0 .. m
    BY <1>1, <1>2
  <2> HIDE DEF S, m
  <2>1. m \in Nat /\ S \subseteq 0 .. m /\ m \in S /\ S # {}
    <3>1. m \in S
      BY <2>0
    <3>2. S \subseteq 0 .. m
      BY <2>0, Zenon
    <3> QED
      BY <2>0, <3>1, <3>2, Zenon
  <2>2. Max(S) \in S /\ \A y \in S : y <= Max(S)
    BY <2>1, MaxIsGreatest
  <2>3. Max(S) = m
    <3>1. Max(S) \in 0 .. m /\ m <= Max(S)
      BY <2>1, <2>2
    <3> QED
      BY <2>1, <3>1
  <2> QED
    BY <2>3 DEF S, m
<1> QED
  BY <1>1, <1>2, <1>3 DEF n

\* What a region may be strung together over.
LEMMA StringsAre ==
  ASSUME Stages, NEW region
  PROVE  Strings(region)
           = {S \in SUBSET Samples : Strung(path, region, S, SampleCount(path) - 1)}
<1> DEFINE n == SampleCount(path)
<1>1. n \in Nat \ {0} /\ Samples = 0 .. n - 1 /\ Max(Samples) = n - 1
  BY SamplesAre
<1> HIDE DEF n
<1>2. ASSUME NEW S \in SUBSET Samples, NEW i \in S, NEW k \in S, i < k
      PROVE  i \in FeasibleStarts(path, region, k)
               <=> k - i <= MaxGap /\ RegionSegmentFeasible(path, i, k, region)
  <2>1. k \in Nat \ {0} /\ i \in 0 .. k - 1
    BY <1>1, <1>2
  <2> QED
    BY <2>1, FeasibleStartsAre
<1>3. ASSUME NEW S \in SUBSET Samples
      PROVE  S \in Strings(region) <=> Strung(path, region, S, n - 1)
  <2>1. S \in Strings(region)
          <=> /\ {0, n - 1} \subseteq S
              /\ \A i, k \in S : i < k /\ (i + 1 .. k - 1) \cap S = {} =>
                   k - i <= MaxGap /\ RegionSegmentFeasible(path, i, k, region)
    BY <1>1 DEF Strings
  <2>2. Strung(path, region, S, n - 1)
          <=> /\ {0, n - 1} \subseteq S
              /\ \A i, k \in S : i < k /\ (i + 1 .. k - 1) \cap S = {} =>
                   i \in FeasibleStarts(path, region, k)
    BY <1>1 DEF Strung
  <2> QED
    BY <1>2, <2>1, <2>2
<1> QED
  BY <1>3 DEF Strings, n

\* Of every call, the anchors of a region are as few as segments within its
\* tolerance, none longer than the gap, can be strung together over.
THEOREM AnchorsAreFewest == Spec => []RegionAnchorsAreFewest
<1>1. ASSUME IInv PROVE RegionAnchorsAreFewest
  <2> SUFFICES ASSUME pc = "regions", NEW region \in DOMAIN solved
               PROVE  /\ Range(solved[region]) \in Strings(region)
                      /\ \A S \in Strings(region) :
                           Len(solved[region]) <= Cardinality(S)
    BY DEF RegionAnchorsAreFewest
  <2> DEFINE n == SampleCount(path)
             c == solved[region]
             p == path
  <2>1. c = RegionAnchors(p, region)
    BY <1>1 DEF IInv, Solving
  <2>2. n \in Nat \ {0} /\ Samples = 0 .. n - 1 /\ SampleCount(p) = n
    BY <1>1, SamplesAre DEF IInv
  <2>3. Strings(region) = {S \in SUBSET Samples : Strung(p, region, S, n - 1)}
    BY <1>1, StringsAre DEF IInv
  <2> HIDE DEF n, c, p
  <2>4. IsFewest(p, region, RegionAnchors(p, region), n - 1)
    BY <2>2, RegionAnchorsAreFew
  <2>5. /\ Strung(p, region, Range(c), n - 1)
        /\ \A S : Strung(p, region, S, n - 1) => Len(c) <= Cardinality(S)
    BY <2>1, <2>4 DEF IsFewest
  <2>6. Range(c) \in SUBSET Samples
    BY <2>2, <2>5 DEF Strung
  <2> QED
    BY <2>3, <2>5, <2>6 DEF c
<1> QED
  BY <1>1, MultiModeInvariance, PTL

\* Whatever the keys of the regions are, and for every limit on the regions and
\* the boundary points, the partition chosen has the fewest keys of all cuts.
THEOREM KeysAreFewest == Spec => []FewestKeysInAll
<1>1. IInv => FewestKeysInAll
  BY DEF IInv, Output
<1> QED
  BY <1>1, MultiModeInvariance, PTL

\* The semantic split is never chosen, whatever the diagnostics say.
THEOREM SplitIsNeverChosen == Spec => []SplitNeverPays
<1>1. IInv => SplitNeverPays
  BY DEF IInv, Output
<1> QED
  BY <1>1, MultiModeInvariance, PTL

\* What is emitted covers the path and follows its samples.
THEOREM EmittedFollows == Spec => []EmittedFollowsSource
<1>1. IInv => EmittedFollowsSource
  BY DEF IInv, Output
<1> QED
  BY <1>1, MultiModeInvariance, PTL

\* A cancel that is seen is the last word.
THEOREM SeenCancelIsFinal == Spec => []SeenCancelNeverConverges
<1>1. IInv => SeenCancelNeverConverges
  BY DEF IInv, Cancelling
<1> QED
  BY <1>1, MultiModeInvariance, PTL
=============================================================================
