----------------------- MODULE PostSolveReduction_proofs -----------------------
(***************************************************************************)
(* The bridge prune and the reduction around it, for any keys, corners,    *)
(* validation errors and moment of a cancel.  Every pass works on a class  *)
(* of keys of one length (PassInv), the keys that came with one count keep *)
(* one count (ClassInv), and the error that is carried along is the one    *)
(* the keys carry, but for the batch's (ErrorInv).                         *)
(***************************************************************************)
EXTENDS PostSolveReduction, FiniteSetTheorems, TLAPS

------------------------------------------------------------------------------
(***************************************************************************)
(* Numbers, and what a sequence keeps when an element is taken out.        *)
(***************************************************************************)
LEMMA SmallestElement ==
  ASSUME NEW T, T \subseteq Nat, T # {}
  PROVE  \E x \in T : \A y \in T : x <= y
<1> DEFINE R == OpToRel(<, Nat)
<1>1. IsWellFoundedOn(R, Nat)
  BY NatLessThanWellFounded
<1>2. PICK x \in T : \A y \in T : ~(<<y, x>> \in R)
  <2> HIDE DEF R
  <2> QED
    BY <1>1, WFMin
<1>3. \A y \in T : y < x => <<y, x>> \in R
  BY DEF OpToRel
<1>4. \A y \in T : ~(y < x)
  <2> HIDE DEF R
  <2> QED
    BY <1>2, <1>3
<1>5. x \in Nat /\ \A y \in T : y \in Nat
  OBVIOUS
<1> HIDE DEF R
<1> QED
  BY <1>4, <1>5

LEMMA LargestElement ==
  ASSUME NEW T, T \subseteq Nat, T # {}, NEW b \in Nat, \A x \in T : x <= b
  PROVE  \E x \in T : \A y \in T : y <= x
<1> DEFINE D == {b - x : x \in T}
<1>1. D \subseteq Nat /\ D # {}
  <2>1. \A x \in T : x \in Nat /\ b - x \in Nat
    OBVIOUS
  <2> QED
    BY <2>1
<1>2. PICK d \in D : \A e \in D : d <= e
  <2> HIDE DEF D
  <2> QED
    BY <1>1, SmallestElement
<1>3. PICK x \in T : d = b - x
  OBVIOUS
<1>4. \A y \in T : b - x <= b - y
  BY <1>2, <1>3
<1>5. x \in Nat /\ \A y \in T : y \in Nat
  OBVIOUS
<1> HIDE DEF D
<1> QED
  BY <1>4, <1>5

\* Induction up to n, over the set of the numbers something holds of.
LEMMA IntervalInduction ==
  ASSUME NEW n \in Nat, NEW S, 0 \in S,
         \A i \in 0 .. n - 1 : i \in S => i + 1 \in S
  PROVE  0 .. n \subseteq S
<1> DEFINE T == {i \in 0 .. n : i \notin S}
<1> SUFFICES ASSUME T # {} PROVE FALSE
  OBVIOUS
<1>1. T \subseteq Nat
  OBVIOUS
<1>2. PICK x \in T : \A y \in T : x <= y
  <2> HIDE DEF T
  <2> QED
    BY <1>1, SmallestElement
<1>3. x # 0 /\ x - 1 \in 0 .. n - 1
  OBVIOUS
<1>4. x - 1 \in S
  BY <1>2, <1>3
<1> QED
  BY <1>3, <1>4

\* One sequence after another.
LEMMA OneAfterAnother ==
  ASSUME NEW S, NEW a \in Seq(S), NEW b \in Seq(S)
  PROVE  a \o b \in Seq(S) /\ Len(a \o b) = Len(a) + Len(b)
  OBVIOUS

LEMMA RemovedAt ==
  ASSUME NEW S, NEW s \in Seq(S), NEW i \in 1 .. Len(s)
  PROVE  /\ RemoveAt(s, i) \in Seq(S)
         /\ Len(RemoveAt(s, i)) = Len(s) - 1
         /\ \A m \in 1 .. Len(s) : m # i => s[m] \in ToSet(RemoveAt(s, i))
<1> DEFINE a == SubSeq(s, 1, i - 1)
           b == SubSeq(s, i + 1, Len(s))
<1>1. /\ a \in Seq(S) /\ Len(a) = i - 1
      /\ \A m \in 1 .. i - 1 : a[m] = s[m]
  OBVIOUS
<1>2. /\ b \in Seq(S) /\ Len(b) = Len(s) - i
      /\ \A m \in 1 .. Len(s) - i : b[m] = s[i + m]
  OBVIOUS
<1> DEFINE c == RemoveAt(s, i)
<1>3. c = a \o b
  BY DEF RemoveAt
<1> HIDE DEF a, b, c
<1>4. /\ c \in Seq(S) /\ Len(c) = Len(s) - 1
      /\ \A m \in 1 .. i - 1 : c[m] = s[m]
      /\ \A m \in i .. Len(s) - 1 : c[m] = b[m - (i - 1)]
  <2> DEFINE l == Len(s)
  <2>1. l \in Nat /\ i \in 1 .. l /\ Len(a) = i - 1 /\ Len(b) = l - i
        /\ a \in Seq(S) /\ b \in Seq(S)
    BY <1>1, <1>2
  <2>2. \A m \in 1 .. i - 1 : a[m] = s[m]
    BY <1>1
  <2>3. l = Len(s)
    OBVIOUS
  <2> HIDE DEF l
  <2>4. c \in Seq(S) /\ Len(c) = l - 1
    <3>1. a \o b \in Seq(S) /\ Len(a \o b) = Len(a) + Len(b)
      BY <2>1, OneAfterAnother, Zenon
    <3>2. c \in Seq(S) /\ Len(c) = Len(a) + Len(b)
      BY <1>3, <3>1, Zenon
    <3>3. (i - 1) + (l - i) = l - 1
      BY <2>1
    <3> QED
      BY <2>1, <3>2, <3>3, Zenon
  <2>5. \A m \in 1 .. i - 1 : c[m] = a[m]
    BY <1>3, <2>1
  <2>6. \A m \in i .. l - 1 : c[m] = b[m - (i - 1)]
    BY <1>3, <2>1
  <2> QED
    BY <2>2, <2>3, <2>4, <2>5, <2>6
<1>5. \A m \in i .. Len(s) - 1 : c[m] = s[m + 1]
  BY <1>2, <1>4
<1>6. ASSUME NEW m \in 1 .. Len(s), m # i
      PROVE  \E p \in 1 .. Len(c) : c[p] = s[m]
  <2>1. CASE m < i
    BY <2>1, <1>4
  <2>2. CASE m > i
    <3>1. m - 1 \in i .. Len(s) - 1 /\ m - 1 \in 1 .. Len(c)
      BY <2>2, <1>4
    <3>2. c[m - 1] = s[(m - 1) + 1] /\ (m - 1) + 1 = m
      BY <3>1, <1>5
    <3> QED
      BY <3>1, <3>2
  <2> QED
    BY <2>1, <2>2, <1>6
<1>7. \A m \in 1 .. Len(s) : m # i => s[m] \in ToSet(c)
  <2>1. DOMAIN c = 1 .. Len(c)
    BY <1>4
  <2> QED
    BY <2>1, <1>6 DEF ToSet
<1> QED
  BY <1>4, <1>7 DEF c

------------------------------------------------------------------------------
(***************************************************************************)
(* What the selections of the prune return.                                *)
(***************************************************************************)
\* The scan for the best candidate ends at an accepted one, if there is one.
LEMMA BestIsAccepted ==
  ASSUME target \in Nat \ {0}, Accepted \subseteq 1 .. target - 1, Accepted # {},
         NEW screen
  PROVE  BestIndex(screen) \in Accepted
<1> DEFINE n == target - 1
           Val(f, i) == IF i = 0 THEN 0
                        ELSE IF /\ i \in Accepted
                                /\ f[i - 1] = 0 \/ Better(i, f[i - 1], screen)
                        THEN i ELSE f[i - 1]
           Started == {m \in 0 .. n : \E f \in [0 .. n -> 0 .. n] :
                         \A i \in 0 .. m : f[i] = Val(f, i)}
           scan == CHOOSE f : f = [i \in 0 .. n |-> Val(f, i)]
<1>1. n \in Nat /\ n \in 0 .. n
  OBVIOUS
<1>2. BestIndex(screen) = scan[n]
  BY DEF BestIndex
<1> HIDE DEF n
<1>3. 0 \in Started
  <2> DEFINE f == [i \in 0 .. n |-> 0]
  <2>1. f \in [0 .. n -> 0 .. n] /\ 0 \in 0 .. n /\ f[0] = 0
    BY <1>1
  <2>2. \A i \in 0 .. 0 : i = 0
    OBVIOUS
  <2> HIDE DEF f
  <2>3. \A i \in 0 .. 0 : f[i] = Val(f, i)
    BY <2>1, <2>2
  <2> HIDE DEF Val
  <2> QED
    BY <2>1, <2>3
<1>4. ASSUME NEW m \in 0 .. n - 1, m \in Started
      PROVE  m + 1 \in Started
  <2>1. m \in 0 .. n /\ m + 1 \in 0 .. n
    BY <1>1
  <2>2. PICK f \in [0 .. n -> 0 .. n] : \A i \in 0 .. m : f[i] = Val(f, i)
    BY <1>4
  <2> DEFINE v == Val(f, m + 1)
             g == [f EXCEPT ![m + 1] = v]
  <2>3. v \in 0 .. n
    BY <2>1, <1>1
  <2> HIDE DEF v
  <2>4. g \in [0 .. n -> 0 .. n] /\ g[m + 1] = v
        /\ \A i \in 0 .. n : i # m + 1 => g[i] = f[i]
    BY <2>1, <2>3
  <2>5. \A i \in 0 .. m : g[i] = f[i]
    BY <2>1, <2>4, <1>1
  <2> HIDE DEF g
  <2>6. ASSUME NEW i \in 0 .. m PROVE g[i] = Val(g, i)
    <3>1. i # 0 => i - 1 \in 0 .. m
      BY <1>1, <2>1
    <3> QED
      BY <3>1, <2>2, <2>5
  <2>7. g[m + 1] = Val(g, m + 1)
    <3>1. g[(m + 1) - 1] = f[(m + 1) - 1]
      BY <2>5, <2>1, <1>1
    <3> QED
      BY <3>1, <2>4 DEF v
  <2>8. \A i \in 0 .. m + 1 : g[i] = Val(g, i)
    <3>1. \A i \in 0 .. m + 1 : i \in 0 .. m \/ i = m + 1
      BY <1>1, <2>1
    <3> HIDE DEF Val
    <3> QED
      BY <3>1, <2>6, <2>7
  <2> HIDE DEF Val
  <2> QED
    BY <2>1, <2>4, <2>8
<1>5. PICK f \in [0 .. n -> 0 .. n] : \A i \in 0 .. n : f[i] = Val(f, i)
  <2>1. 0 .. n \subseteq Started
    <3> HIDE DEF Started
    <3> QED
      BY <1>1, <1>3, <1>4, IntervalInduction
  <2> QED
    BY <2>1, <1>1
<1>6. scan = [i \in 0 .. n |-> Val(scan, i)]
  <2> HIDE DEF Val
  <2>1. f = [i \in 0 .. n |-> Val(f, i)]
    BY <1>5
  <2> QED
    BY <2>1
<1> DEFINE Sound == {m \in 0 .. n :
             /\ scan[m] \in Accepted \cup {0}
             /\ scan[m] = 0 => \A i \in 1 .. m : i \notin Accepted}
<1>7. \A i \in 0 .. n : scan[i] = Val(scan, i)
  <2> HIDE DEF scan, Val
  <2> QED
    BY <1>6
<1> HIDE DEF scan
<1>8. 0 \in Sound
  BY <1>7, <1>1
<1>9. ASSUME NEW m \in 0 .. n - 1, m \in Sound
      PROVE  m + 1 \in Sound
  <2>1. m + 1 \in 0 .. n /\ (m + 1) - 1 = m /\ m + 1 # 0
        /\ \A i \in 1 .. m + 1 : i \in 1 .. m \/ i = m + 1
    BY <1>1
  <2>2. scan[m + 1] = IF /\ m + 1 \in Accepted
                         /\ scan[m] = 0 \/ Better(m + 1, scan[m], screen)
                      THEN m + 1 ELSE scan[m]
    BY <2>1, <1>7
  <2>3. scan[m] \in Accepted \cup {0}
        /\ (scan[m] = 0 => \A i \in 1 .. m : i \notin Accepted)
    BY <1>9
  <2> QED
    BY <2>1, <2>2, <2>3
<1>10. n \in Sound
  <2> HIDE DEF Sound
  <2> QED
    BY <1>1, <1>8, <1>9, IntervalInduction
<1> QED
  BY <1>2, <1>10 DEF n

\* The most frequent count is that of a key.
LEMMA DominantIsACount ==
  ASSUME BridgePruneAssumption,
         NEW n \in Nat, DOMAIN keys = 1 .. n,
         \A k \in DOMAIN keys : Len(keys[k]) \in Nat,
         Dominant > MinTarget
  PROVE  Dominant \in Nat /\ \E k \in DOMAIN keys : Len(keys[k]) = Dominant
<1> DEFINE above == {c \in Counts : c > MinTarget}
           frequency(c) == Cardinality(KeysOf(c))
           Bounded == {m \in 0 .. n : \E b \in Nat : \A k \in 1 .. m : Len(keys[k]) <= b}
<1>1. \A c : frequency(c) \in Nat /\ frequency(c) <= n
  <2>1. IsFiniteSet(1 .. n) /\ Cardinality(1 .. n) = n
    BY FS_Interval
  <2>2. \A c : KeysOf(c) \subseteq 1 .. n
    BY DEF KeysOf
  <2>3. \A c : IsFiniteSet(KeysOf(c)) /\ Cardinality(KeysOf(c)) <= Cardinality(1 .. n)
    BY <2>1, <2>2, FS_Subset
  <2> QED
    BY <2>1, <2>3, FS_CardinalityType
<1>2. Counts \subseteq Nat
  BY DEF Counts
<1>3. PICK b \in Nat : \A c \in Counts : c <= b
  <2>1. 0 \in Bounded
    OBVIOUS
  <2>2. ASSUME NEW m \in 0 .. n - 1, m \in Bounded
        PROVE  m + 1 \in Bounded
    <3>1. m + 1 \in 1 .. n /\ m + 1 \in 0 .. n
          /\ \A i \in 1 .. m + 1 : i \in 1 .. m \/ i = m + 1
      OBVIOUS
    <3>2. PICK b \in Nat : \A k \in 1 .. m : Len(keys[k]) <= b
      BY <2>2
    <3>3. \A k \in 1 .. m + 1 : Len(keys[k]) \in Nat
      BY <3>1
    <3>4. b + Len(keys[m + 1]) \in Nat
          /\ \A k \in 1 .. m + 1 : Len(keys[k]) <= b + Len(keys[m + 1])
      BY <3>1, <3>2, <3>3
    <3> QED
      BY <3>1, <3>4
  <2>3. n \in Bounded
    <3> HIDE DEF Bounded
    <3> QED
      BY <2>1, <2>2, IntervalInduction
  <2> QED
    BY <2>3 DEF Counts
<1>4. above # {}
  BY DEF Dominant, BridgePruneAssumption
<1> DEFINE F == {frequency(c) : c \in above}
<1>5. PICK f \in F : \A e \in F : e <= f
  <2>1. F \subseteq Nat /\ F # {} /\ \A e \in F : e <= n
    BY <1>1, <1>4
  <2> HIDE DEF F
  <2> QED
    BY <2>1, LargestElement
<1> DEFINE T == {c \in above : frequency(c) = f}
<1>6. PICK c \in T : \A d \in T : d <= c
  <2>1. T \subseteq Nat /\ T # {} /\ \A d \in T : d <= b
    BY <1>2, <1>3, <1>5
  <2> HIDE DEF T
  <2> QED
    BY <2>1, LargestElement
<1>7. \A d \in above : \/ frequency(c) > frequency(d)
                       \/ frequency(c) = frequency(d) /\ c >= d
  <2> SUFFICES ASSUME NEW d \in above
               PROVE  \/ frequency(c) > frequency(d)
                      \/ frequency(c) = frequency(d) /\ c >= d
    OBVIOUS
  <2>1. frequency(c) = f /\ frequency(d) <= f /\ (frequency(d) = f => d <= c)
    BY <1>5, <1>6
  <2>2. frequency(d) \in Nat /\ frequency(c) \in Nat /\ c \in Nat /\ d \in Nat
    BY <1>1, <1>2, <1>6
  <2> HIDE DEF frequency
  <2> QED
    BY <2>1, <2>2
<1>8. Dominant \in above
  <2>1. c \in above
    BY <1>6
  <2>2. Dominant = CHOOSE x \in above : \A d \in above :
                     \/ frequency(x) > frequency(d)
                     \/ frequency(x) = frequency(d) /\ x >= d
    BY <1>4 DEF Dominant
  <2> HIDE DEF above, frequency
  <2> QED
    BY <1>7, <2>1, <2>2
<1> QED
  BY <1>2, <1>8 DEF Counts
------------------------------------------------------------------------------
(***************************************************************************)
(* The inductive invariant.                                                *)
(***************************************************************************)
Evaluating == pc \in {"evaluate", "selected", "apply"}

\* The vertices a key has left are some of those it came with.
KeysInv ==
  /\ arrived \in Seq(Nat) /\ solved \in Seq(Nat)
  /\ Len(solved) = Len(arrived)
  /\ \A k \in DOMAIN solved : solved[k] <= arrived[k]
  /\ DOMAIN keys = DOMAIN solved
  /\ \A k \in DOMAIN keys : keys[k] \in Seq(Nat) /\ Len(keys[k]) <= solved[k]

\* A pass evaluates the removal of vertices that no key of its class needs as a
\* corner; the batch has each candidate once, and none of those it has removed.
PassInv ==
  /\ pc \in {"start", "pass"} => evaluations = <<>>
  /\ Evaluating =>
       /\ target \in Nat /\ target > MinTarget
       /\ \E k \in DOMAIN keys : Len(keys[k]) = target
       /\ candidates \subseteq 1 .. target - 1
       /\ \A i \in candidates : ~IsProtected(target, i)
       /\ DOMAIN evaluations \subseteq candidates
  /\ pc = "apply" => best \in Accepted
  /\ pc \in {"apply", "batch"} =>
       /\ order \in Seq(Nat)
       /\ \A m, n \in DOMAIN order : m # n => order[m] # order[n]
  /\ pc = "batch" =>
       /\ target \in Nat /\ IsFiniteSet(removed) /\ removed # {}
       /\ removed \cap ToSet(order) \subseteq {best}

\* Keys of one class have the same number of vertices left.
ClassInv ==
  \A j, k \in DOMAIN arrived : arrived[j] = arrived[k] =>
    solved[j] = solved[k] /\ Len(keys[j]) = Len(keys[k])

ErrorInv ==
  /\ pruned \in Nat
  /\ pc \notin {"batch", "done"} => bestError = maxErr
  /\ pc = "batch" => IF Cardinality(removed) > 1 THEN batchError = maxErr
                                                 ELSE bestError = maxErr
  /\ pc # "done" => ~result.accepted
  /\ result.accepted => result.keys = keys /\ result.maxErr = result.outlineError

\* The counts and the error the caller is offered are those of the keys, of the
\* keys without their closures, or of a fit that gives every key one count.
OutcomeInv ==
  /\ stage = "start" => pc = "start" /\ solved = arrived
  /\ outcome.accepted =>
       /\ outcome.outlineError = outcome.maxErr
       /\ \A j, k \in DOMAIN arrived : arrived[j] = arrived[k] =>
            outcome.counts[j] = outcome.counts[k]
  /\ stage # "end" => propertyKeys.counts = arrived
  /\ stage = "end" /\ outcome.accepted => propertyKeys.maxErr = outcome.maxErr

IInv ==
  /\ KeysInv /\ PassInv /\ ClassInv /\ ErrorInv /\ OutcomeInv
  /\ NeverBelowMinimum /\ ClassesStayTogether

------------------------------------------------------------------------------
(***************************************************************************)
(* What the steps do to the keys.                                          *)
(***************************************************************************)
LEMMA AllVerticesAreKeys ==
  ASSUME NEW counts \in Seq(Nat)
  PROVE  /\ DOMAIN AllVertices(counts) = DOMAIN counts
         /\ \A k \in DOMAIN counts :
              /\ AllVertices(counts)[k] \in Seq(Nat)
              /\ Len(AllVertices(counts)[k]) = counts[k]
              /\ 0 .. counts[k] - 1 \subseteq ToSet(AllVertices(counts)[k])
<1>1. ASSUME NEW k \in DOMAIN counts
      PROVE  /\ AllVertices(counts)[k] \in Seq(Nat)
             /\ Len(AllVertices(counts)[k]) = counts[k]
             /\ 0 .. counts[k] - 1 \subseteq ToSet(AllVertices(counts)[k])
  <2> DEFINE s == [i \in 1 .. counts[k] |-> i - 1]
  <2>1. counts[k] \in Nat /\ AllVertices(counts)[k] = s
    BY DEF AllVertices
  <2>2. s \in Seq(Nat) /\ Len(s) = counts[k] /\ DOMAIN s = 1 .. counts[k]
    BY <2>1, SMTT(30)
  <2>3. ASSUME NEW v \in 0 .. counts[k] - 1 PROVE v \in ToSet(s)
    <3>1. v + 1 \in DOMAIN s /\ s[v + 1] = v
      BY <2>1
    <3> HIDE DEF s
    <3> QED
      BY <3>1 DEF ToSet
  <2> QED
    BY <2>1, <2>2, <2>3
<1> QED
  BY <1>1 DEF AllVertices

LEMMA TailOfDistinct ==
  ASSUME NEW s \in Seq(Nat), s # <<>>,
         \A m, n \in DOMAIN s : m # n => s[m] # s[n]
  PROVE  /\ Tail(s) \in Seq(Nat)
         /\ \A m, n \in DOMAIN Tail(s) : m # n => Tail(s)[m] # Tail(s)[n]
         /\ ToSet(Tail(s)) \subseteq ToSet(s) \ {Head(s)}
         /\ Head(s) \in ToSet(s)
<1>1. /\ Tail(s) \in Seq(Nat) /\ Len(s) \in Nat /\ Len(s) > 0
      /\ DOMAIN s = 1 .. Len(s) /\ DOMAIN Tail(s) = 1 .. Len(s) - 1
      /\ \A m \in 1 .. Len(s) - 1 : Tail(s)[m] = s[m + 1]
      /\ Head(s) = s[1]
  OBVIOUS
<1>2. \A m \in DOMAIN Tail(s) : m + 1 \in DOMAIN s /\ m + 1 # 1
  BY <1>1
<1>3. \A m, n \in DOMAIN Tail(s) : m # n => m + 1 # n + 1
  BY <1>1
<1>4. 1 \in DOMAIN s
  BY <1>1
<1> QED
  BY <1>1, <1>2, <1>3, <1>4 DEF ToSet

\* A vertex leaves a whole class above the minimum.
LEMMA RemovalKeeps ==
  ASSUME BridgePruneAssumption,
         KeysInv, ClassInv, NeverBelowMinimum,
         NEW count \in Nat, count > MinTarget, NEW index \in 1 .. count - 1,
         keys' = Without(keys, count, index), UNCHANGED <<solved, arrived>>
  PROVE  /\ KeysInv' /\ ClassInv' /\ NeverBelowMinimum'
         /\ DOMAIN keys' = DOMAIN keys
         /\ \A k \in DOMAIN keys :
              Len(keys'[k]) = IF Len(keys[k]) = count THEN count - 1 ELSE Len(keys[k])
<1> DEFINE InClass(k) == Len(keys[k]) = count
<1>1. /\ MinTarget \in Nat /\ DOMAIN keys' = DOMAIN keys
      /\ \A k \in DOMAIN keys : keys'[k] = IF InClass(k)
                                 THEN RemoveAt(keys[k], index + 1) ELSE keys[k]
  BY DEF Without, BridgePruneAssumption
<1>2. \A k \in DOMAIN keys : /\ keys[k] \in Seq(Nat) /\ Len(keys[k]) \in Nat
                             /\ Len(keys[k]) <= solved[k] /\ solved[k] \in Nat
  BY DEF KeysInv
<1>3. ASSUME NEW k \in DOMAIN keys, InClass(k)
      PROVE  /\ keys'[k] \in Seq(Nat) /\ Len(keys'[k]) = count - 1
  <2>1. index + 1 \in 1 .. Len(keys[k])
    BY <1>3
  <2> QED
    BY <1>1, <1>2, <1>3, <2>1, RemovedAt, ZenonT(30)
<1>4. ASSUME NEW k \in DOMAIN keys, ~InClass(k)
      PROVE  keys'[k] = keys[k]
  BY <1>1, <1>4
<1>5. \A k \in DOMAIN keys :
        /\ keys'[k] \in Seq(Nat)
        /\ Len(keys'[k]) = IF InClass(k) THEN count - 1 ELSE Len(keys[k])
        /\ Len(keys'[k]) <= Len(keys[k])
  <2> SUFFICES ASSUME NEW k \in DOMAIN keys
               PROVE  /\ keys'[k] \in Seq(Nat)
                      /\ Len(keys'[k]) = IF InClass(k) THEN count - 1 ELSE Len(keys[k])
                      /\ Len(keys'[k]) <= Len(keys[k])
    OBVIOUS
  <2>1. CASE InClass(k)
    BY <2>1, <1>2, <1>3
  <2>2. CASE ~InClass(k)
    BY <2>2, <1>2, <1>4
  <2> QED
    BY <2>1, <2>2
<1>6. KeysInv'
  BY <1>1, <1>2, <1>5 DEF KeysInv
<1>7. ClassInv'
  <2>1. DOMAIN arrived = DOMAIN keys
    BY DEF KeysInv
  <2> QED
    BY <2>1, <1>5 DEF ClassInv
<1>8. NeverBelowMinimum'
  BY <1>1, <1>2, <1>5 DEF NeverBelowMinimum
<1> QED
  BY <1>1, <1>5, <1>6, <1>7, <1>8

\* A key that loses a vertex does not turn sharply there.
Spares ==
  preserve => \A k \in DOMAIN keys : \A p \in DOMAIN keys[k] :
                keys[k][p] \notin ToSet(keys'[k]) => ~IsSharpCorner(k, p - 1)

\* What leaves a class that is protected nowhere there was a corner of none.
LEMMA RemovalSpares ==
  ASSUME KeysInv, NEW count \in Nat, NEW index \in 1 .. count - 1,
         ~IsProtected(count, index), keys' = Without(keys, count, index)
  PROVE  Spares
<1> SUFFICES ASSUME preserve, NEW k \in DOMAIN keys, NEW p \in DOMAIN keys[k],
                    keys[k][p] \notin ToSet(keys'[k])
             PROVE  ~IsSharpCorner(k, p - 1)
  BY DEF Spares
<1>1. keys'[k] = IF Len(keys[k]) = count THEN RemoveAt(keys[k], index + 1) ELSE keys[k]
  BY DEF Without
<1>2. keys[k] \in Seq(Nat) /\ p \in 1 .. Len(keys[k])
  BY DEF KeysInv
<1>3. Len(keys[k]) = count
  <2>1. keys[k][p] \in ToSet(keys[k])
    BY DEF ToSet
  <2> QED
    BY <2>1, <1>1
<1>4. p = index + 1
  <2>1. index + 1 \in 1 .. Len(keys[k])
    BY <1>3
  <2>2. \A m \in 1 .. Len(keys[k]) :
          m # index + 1 => keys[k][m] \in ToSet(RemoveAt(keys[k], index + 1))
    BY <1>2, <2>1, RemovedAt
  <2> QED
    BY <2>2, <1>1, <1>2, <1>3
<1>5. p - 1 = index
  BY <1>4
<1>6. ~IsSharpCorner(k, index)
  BY <1>3 DEF IsProtected, KeysOf
<1> QED
  BY <1>5, <1>6

LEMMA SameKeys ==
  ASSUME KeysInv, ClassInv, NeverBelowMinimum,
         UNCHANGED <<keys, solved, arrived>>
  PROVE  KeysInv' /\ ClassInv' /\ NeverBelowMinimum'
BY DEF KeysInv, ClassInv, NeverBelowMinimum
------------------------------------------------------------------------------
(***************************************************************************)
(* Every step of the prune keeps the invariant.                            *)
(***************************************************************************)
PruneInv == KeysInv /\ PassInv /\ ClassInv /\ ErrorInv /\ NeverBelowMinimum

LEMMA ReturnOfKeeps ==
  ASSUME PruneInv, UNCHANGED arrived,
         NEW notes, NEW accepted \in BOOLEAN, Return(notes, accepted),
         accepted => pc \notin {"batch", "done"}
  PROVE  PruneInv'
<1>1. /\ pc' = "done" /\ UNCHANGED <<keys, solved, maxErr, bestError, pruned>>
      /\ evaluations' = <<>>
      /\ result' = IF accepted
                   THEN [notes |-> notes, accepted |-> TRUE, keys |-> keys,
                         maxErr |-> maxErr, outlineError |-> bestError]
                   ELSE [NoResult EXCEPT !.notes = notes]
  BY DEF Return, EndPass, inputs, keyVars
<1>2. IF accepted THEN /\ result'.accepted /\ result'.keys = keys
                       /\ result'.maxErr = maxErr /\ result'.outlineError = bestError
                  ELSE ~result'.accepted
  BY <1>1 DEF NoResult
<1>3. KeysInv' /\ ClassInv' /\ NeverBelowMinimum'
  BY <1>1, SameKeys DEF PruneInv
<1>4. PassInv'
  BY <1>1 DEF PassInv, Evaluating
<1>5. ErrorInv'
  BY <1>1, <1>2 DEF PruneInv, ErrorInv
<1> QED
  BY <1>3, <1>4, <1>5 DEF PruneInv

LEMMA ReturnKeeps ==
  ASSUME PruneInv, UNCHANGED arrived,
         ReturnDisabled \/ ReturnAtMinimum \/ ReturnCancelled \/ ReturnPruned
  PROVE  PruneInv'
<1>1. CASE ReturnDisabled
  BY <1>1, ReturnOfKeeps DEF ReturnDisabled, PruneInv, ErrorInv
<1>2. CASE ReturnAtMinimum
  BY <1>2, ReturnOfKeeps DEF ReturnAtMinimum, PruneInv, ErrorInv
<1>3. CASE ReturnCancelled
  BY <1>3, ReturnOfKeeps DEF ReturnCancelled
<1>4. CASE ReturnPruned
  <2>1. pruned \in Nat
    BY DEF PruneInv, ErrorInv
  <2>2. Return(IF pruned > 0 THEN "accepted" ELSE "rejected", pruned > 0)
        /\ pc \in {"pass", "selected"}
    BY <1>4 DEF ReturnPruned
  <2>3. (pruned > 0) \in BOOLEAN /\ (pruned > 0 \/ pruned = 0)
    BY <2>1
  <2> QED
    BY <2>2, <2>3, ReturnOfKeeps
<1> QED
  BY <1>1, <1>2, <1>3, <1>4

\* A pass begins with the candidates no key of the class has as a corner.
LEMMA PassKeeps ==
  ASSUME BridgePruneAssumption, PruneInv, UNCHANGED arrived,
         StartPasses \/ PlanPass \/ EvaluateChunk
  PROVE  PruneInv'
<1>1. /\ UNCHANGED <<keys, preserve, solved, maxErr, bestError, pruned, result>>
      /\ pc \in {"start", "pass", "evaluate"} /\ pc' \in {"pass", "evaluate", "selected"}
  BY DEF StartPasses, PlanPass, EvaluateChunk, inputs, keyVars
<1>2. KeysInv' /\ ClassInv' /\ NeverBelowMinimum'
  BY <1>1, SameKeys DEF PruneInv
<1>3. ErrorInv'
  BY <1>1 DEF PruneInv, ErrorInv
<1>4. \A count, i : IsProtected(count, i)' <=> IsProtected(count, i)
  BY <1>1 DEF IsProtected, KeysOf, IsSharpCorner
<1>5. PassInv'
  <2>1. CASE StartPasses
    BY <2>1 DEF StartPasses, passVars, PruneInv, PassInv, Evaluating
  <2>2. CASE PlanPass
    <3>1. /\ pc' = "evaluate" /\ target' = Dominant /\ Dominant > MinTarget
          /\ candidates' = {i \in 1 .. Dominant - 1 : ~IsProtected(Dominant, i)}
          /\ evaluations' = <<>>
      BY <2>2 DEF PlanPass, PruneInv, PassInv
    <3>2. Dominant \in Nat /\ \E k \in DOMAIN keys : Len(keys[k]) = Dominant
      <4>1. DOMAIN keys = 1 .. Len(solved) /\ Len(solved) \in Nat
            /\ \A k \in DOMAIN keys : Len(keys[k]) \in Nat
        BY DEF PruneInv, KeysInv
      <4> QED
        BY <3>1, <4>1, DominantIsACount
    <3>3. candidates' \subseteq 1 .. Dominant - 1
          /\ \A i \in candidates' : ~IsProtected(Dominant, i)
      BY <3>1
    <3>4. (/\ candidates \subseteq 1 .. target - 1
           /\ \A i \in candidates : ~IsProtected(target, i))'
      BY <3>1, <3>3, <1>4
    <3> QED
      BY <3>1, <3>2, <3>4, <1>1 DEF PassInv, Evaluating
  <2>3. CASE EvaluateChunk
    <3>1. UNCHANGED <<target, candidates>> /\ pc = "evaluate"
          /\ pc' \in {"evaluate", "selected"}
      BY <2>3 DEF EvaluateChunk
    <3>2. DOMAIN evaluations' \subseteq candidates
      <4>1. DOMAIN evaluations \subseteq candidates
        BY <3>1 DEF PruneInv, PassInv, Evaluating
      <4> QED
        BY <2>3, <4>1 DEF EvaluateChunk
    <3>3. (/\ candidates \subseteq 1 .. target - 1
           /\ \A i \in candidates : ~IsProtected(target, i))'
      BY <3>1, <1>4 DEF PruneInv, PassInv, Evaluating
    <3> QED
      BY <1>1, <3>1, <3>2, <3>3 DEF PruneInv, PassInv, Evaluating
  <2> QED
    BY <2>1, <2>2, <2>3
<1> QED
  BY <1>2, <1>3, <1>5 DEF PruneInv

\* The best of the accepted candidates leads the way, the others follow once.
LEMMA SelectKeeps ==
  ASSUME BridgePruneAssumption, PruneInv, UNCHANGED arrived,
         SelectBridgePruneCandidates
  PROVE  PruneInv'
<1>1. /\ UNCHANGED <<keys, preserve, solved, maxErr, bestError, pruned, result, target,
                     candidates>>
      /\ pc = "selected" /\ pc' = "apply" /\ Accepted # {}
      /\ evaluations' = [i \in {best'} |-> evaluations[i]]
  BY DEF SelectBridgePruneCandidates, inputs, keyVars
<1> PICK screen \in [Accepted -> ScreenErrors] :
      order' \in Orders(screen) /\ best' = BestIndex(screen)
  BY DEF SelectBridgePruneCandidates
<1>2. KeysInv' /\ ClassInv' /\ NeverBelowMinimum'
  BY <1>1, SameKeys DEF PruneInv
<1>3. ErrorInv'
  BY <1>1 DEF PruneInv, ErrorInv
<1>4. \A count, i : IsProtected(count, i)' <=> IsProtected(count, i)
  BY <1>1 DEF IsProtected, KeysOf, IsSharpCorner
<1>5. target \in Nat \ {0} /\ Accepted \subseteq 1 .. target - 1
  BY <1>1 DEF PruneInv, PassInv, Evaluating, Accepted, BridgePruneAssumption
<1>6. best' \in Accepted /\ best' \in Accepted'
  <2>1. best' \in Accepted
    BY <1>1, <1>5, BestIsAccepted
  <2> QED
    BY <1>1, <2>1 DEF Accepted
<1>7. /\ order' \in Seq(Nat)
      /\ \A m, n \in DOMAIN order' : m # n => order'[m] # order'[n]
  <2> DEFINE d == Cardinality(Accepted)
  <2>1. order' \in [1 .. d -> Accepted]
        /\ \A m, n \in 1 .. d : m # n => order'[m] # order'[n]
    BY DEF Orders, SetToSeqs
  <2>2. IsFiniteSet(Accepted)
    <3>1. IsFiniteSet(1 .. target - 1)
      BY <1>5, FS_Interval
    <3> QED
      BY <1>5, <3>1, FS_Subset
  <2>3. d \in Nat
    BY <2>2, FS_CardinalityType
  <2> HIDE DEF d
  <2>4. order' \in [1 .. d -> Nat]
    <3>1. Accepted \subseteq Nat
      BY <1>5
    <3> QED
      BY <2>1, <3>1
  <2> QED
    BY <2>1, <2>3, <2>4
<1>8. PassInv'
  <2>1. (/\ candidates \subseteq 1 .. target - 1
         /\ \A i \in candidates : ~IsProtected(target, i))'
    BY <1>1, <1>4 DEF PruneInv, PassInv, Evaluating
  <2>2. DOMAIN evaluations' \subseteq candidates
    BY <1>1, <1>6 DEF PruneInv, PassInv, Evaluating, Accepted
  <2> QED
    BY <1>1, <1>6, <1>7, <2>1, <2>2 DEF PruneInv, PassInv, Evaluating
<1> QED
  BY <1>2, <1>3, <1>8 DEF PruneInv

LEMMA ApplyBestKeeps ==
  ASSUME BridgePruneAssumption, PruneInv, UNCHANGED arrived, ApplyBest
  PROVE  PruneInv'
<1>1. /\ pc = "apply" /\ pc' = "batch" /\ keys' = Without(keys, target, best)
      /\ maxErr' = evaluations[best] /\ bestError' = evaluations[best]
      /\ pruned' = pruned + 1 /\ removed' = {best}
      /\ UNCHANGED <<solved, target, order, best, result>>
  BY DEF ApplyBest, inputs
<1>2. /\ target \in Nat /\ target > MinTarget /\ best \in 1 .. target - 1
      /\ ~IsProtected(target, best)
  BY <1>1 DEF PruneInv, PassInv, Evaluating, Accepted
<1>3. PICK k \in DOMAIN keys : Len(keys[k]) = target
  BY <1>1 DEF PruneInv, PassInv, Evaluating
<1>4. /\ KeysInv' /\ ClassInv' /\ NeverBelowMinimum'
      /\ DOMAIN keys' = DOMAIN keys /\ Len(keys'[k]) = target - 1
  BY <1>1, <1>2, <1>3, RemovalKeeps DEF PruneInv
<1>5. PassInv'
  <2>1. IsFiniteSet({best}) /\ {best} # {}
    BY FS_Singleton
  <2> QED
    BY <1>1, <2>1 DEF PruneInv, PassInv, Evaluating
<1>6. ErrorInv'
  <2>1. Cardinality({best}) = 1
    BY FS_Singleton
  <2>2. pruned' \in Nat /\ ~result.accepted
    BY <1>1 DEF PruneInv, ErrorInv
  <2>3. ~(Cardinality(removed') > 1)
    BY <2>1, <1>1
  <2> QED
    BY <1>1, <2>2, <2>3 DEF ErrorInv
<1> QED
  BY <1>4, <1>5, <1>6 DEF PruneInv

\* A candidate of the batch that changes nothing.
LEMMA PassOverKeeps ==
  ASSUME PruneInv, UNCHANGED arrived,
         BatchPassesBest \/ BatchSkips \/ BatchRejects
  PROVE  PruneInv'
<1>1. /\ UNCHANGED <<pc, keys, solved, maxErr, bestError, pruned, result, target,
                     best, removed, batchError>>
      /\ pc = "batch" /\ order # <<>> /\ order' = Tail(order)
  BY DEF BatchPassesBest, BatchSkips, BatchRejects, AtBest, InBatch, inputs, keyVars
<1>2. KeysInv' /\ ClassInv' /\ NeverBelowMinimum'
  BY <1>1, SameKeys DEF PruneInv
<1>3. ErrorInv'
  BY <1>1 DEF PruneInv, ErrorInv
<1>4. PassInv'
  <2>1. /\ Tail(order) \in Seq(Nat)
        /\ \A m, n \in DOMAIN Tail(order) : m # n => Tail(order)[m] # Tail(order)[n]
        /\ ToSet(Tail(order)) \subseteq ToSet(order)
    BY <1>1, TailOfDistinct DEF PruneInv, PassInv
  <2>2. ToSet(order') \subseteq ToSet(order)
    BY <1>1, <2>1
  <2> QED
    BY <1>1, <2>1, <2>2 DEF PruneInv, PassInv, Evaluating
<1> QED
  BY <1>2, <1>3, <1>4 DEF PruneInv

LEMMA BatchAppliesKeeps ==
  ASSUME BridgePruneAssumption, PruneInv, UNCHANGED arrived, BatchApplies
  PROVE  PruneInv'
<1> DEFINE h == Head(order)
           count == CurrentVertices
           index == Shifted(h)
<1>1. /\ pc = "batch" /\ pc' = "batch" /\ order # <<>> /\ h # best
      /\ count > MinTarget /\ keys' = Without(keys, count, index)
      /\ batchError' = maxErr' /\ pruned' = pruned + 1
      /\ removed' = removed \cup {h} /\ order' = Tail(order)
      /\ UNCHANGED <<solved, target, best, result>>
  BY DEF BatchApplies, InBatch, AtBest, Removal, inputs
<1>2. index \in 1 .. count - 1 /\ ~IsProtected(count, index)
  BY DEF BatchApplies, Skips
<1>3. /\ target \in Nat /\ IsFiniteSet(removed) /\ removed # {}
      /\ removed \cap ToSet(order) \subseteq {best} /\ order \in Seq(Nat)
      /\ \A m, n \in DOMAIN order : m # n => order[m] # order[n]
  BY <1>1 DEF PruneInv, PassInv
<1>4. Cardinality(removed) \in Nat /\ Cardinality(removed) # 0
  BY <1>3, FS_CardinalityType, FS_EmptySet
<1>5. count \in Nat
  <2>1. count \in Int /\ MinTarget \in Nat
    BY <1>3, <1>4 DEF CurrentVertices, BridgePruneAssumption
  <2> HIDE DEF count
  <2> QED
    BY <2>1, <1>1
<1>6. /\ Tail(order) \in Seq(Nat)
      /\ \A m, n \in DOMAIN Tail(order) : m # n => Tail(order)[m] # Tail(order)[n]
      /\ ToSet(Tail(order)) \subseteq ToSet(order) \ {h} /\ h \in ToSet(order)
  BY <1>1, <1>3, TailOfDistinct
<1> HIDE DEF h, count, index
<1>7. /\ KeysInv' /\ ClassInv' /\ NeverBelowMinimum'
      /\ DOMAIN keys' = DOMAIN keys
      /\ \A k \in DOMAIN keys :
           Len(keys'[k]) = IF Len(keys[k]) = count THEN count - 1 ELSE Len(keys[k])
  BY <1>1, <1>2, <1>5, RemovalKeeps DEF PruneInv
<1>8. h \notin removed /\ IsFiniteSet(removed') /\ Cardinality(removed') > 1
  <2>1. h \notin removed
    BY <1>1, <1>3, <1>6
  <2>2. IsFiniteSet(removed') /\ Cardinality(removed') = Cardinality(removed) + 1
    BY <1>1, <1>3, <2>1, FS_AddElement
  <2> QED
    BY <1>4, <2>1, <2>2
<1>9. PassInv'
  <2>1. ToSet(order') \subseteq ToSet(order) \ {h}
    BY <1>1, <1>6
  <2>2. (removed \cap ToSet(order) \subseteq {best})'
    BY <1>1, <1>3, <2>1
  <2>3. order' \in Seq(Nat)
        /\ \A m, n \in DOMAIN order' : m # n => order'[m] # order'[n]
    BY <1>1, <1>6
  <2> QED
    BY <1>1, <1>3, <1>8, <2>2, <2>3 DEF PassInv, Evaluating
<1>10. ErrorInv'
  <2>1. pruned' \in Nat /\ ~result.accepted
    BY <1>1 DEF PruneInv, ErrorInv
  <2> QED
    BY <1>1, <1>8, <2>1 DEF ErrorInv
<1> QED
  BY <1>7, <1>9, <1>10 DEF PruneInv

\* The pass ends with the error of the last removal, the batch's or the best's.
LEMMA EndBatchKeeps ==
  ASSUME PruneInv, UNCHANGED arrived, EndBatch
  PROVE  PruneInv'
<1>1. /\ pc = "batch" /\ pc' = "pass" /\ bestError' = MergedError
      /\ evaluations' = <<>> /\ UNCHANGED <<keys, solved, maxErr, pruned, result>>
  BY DEF EndBatch, EndPass, inputs
<1>2. KeysInv' /\ ClassInv' /\ NeverBelowMinimum'
  BY <1>1, SameKeys DEF PruneInv
<1>3. ErrorInv'
  BY <1>1 DEF PruneInv, ErrorInv, MergedError
<1>4. PassInv'
  BY <1>1 DEF PassInv, Evaluating
<1> QED
  BY <1>2, <1>3, <1>4 DEF PruneInv

LEMMA PruneKeeps ==
  ASSUME BridgePruneAssumption, PruneInv, UNCHANGED arrived, Prune
  PROVE  PruneInv'
BY ReturnKeeps, PassKeeps, SelectKeeps, ApplyBestKeeps, PassOverKeeps,
   BatchAppliesKeeps, EndBatchKeeps DEF Prune
------------------------------------------------------------------------------
(***************************************************************************)
(* The reduction around the prune.                                         *)
(***************************************************************************)
LEMMA InitiallyKept ==
  ASSUME BridgePruneAssumption, ReductionInit
  PROVE  IInv
<1>1. /\ solved \in Seq(Nat) /\ arrived = solved /\ keys = AllVertices(solved)
      /\ pc = "start" /\ stage = "start" /\ bestError = maxErr /\ pruned = 0
      /\ evaluations = <<>> /\ ~result.accepted /\ ~outcome.accepted
      /\ propertyKeys.counts = solved
  BY DEF ReductionInit, Init, NoResult, NoOutcome, BridgePruneAssumption
<1>2. /\ DOMAIN keys = DOMAIN solved
      /\ \A k \in DOMAIN keys :
           /\ keys[k] \in Seq(Nat) /\ Len(keys[k]) = solved[k] /\ solved[k] \in Nat
           /\ 0 .. solved[k] - 1 \subseteq ToSet(keys[k])
  BY <1>1, AllVerticesAreKeys
<1>3. KeysInv /\ ClassInv
  BY <1>1, <1>2 DEF KeysInv, ClassInv
<1>4. NeverBelowMinimum
  BY <1>2 DEF NeverBelowMinimum
<1>5. PassInv /\ ErrorInv
  BY <1>1 DEF PassInv, Evaluating, ErrorInv
<1>6. OutcomeInv /\ ClassesStayTogether
  BY <1>1 DEF OutcomeInv, ClassesStayTogether
<1> QED
  BY <1>3, <1>4, <1>5, <1>6 DEF IInv

LEMMA SamePrune ==
  ASSUME PruneInv,
         UNCHANGED <<pc, inputs, keyVars, passVars, result, arrived>>
  PROVE  PruneInv'
<1>1. UNCHANGED <<pc, preserve, solved, keys, maxErr, bestError, pruned, target, candidates,
                  evaluations, order, best, removed, batchError, result, arrived>>
  BY DEF inputs, keyVars, passVars
<1>2. KeysInv' /\ ClassInv' /\ NeverBelowMinimum'
  BY <1>1, SameKeys DEF PruneInv
<1>3. (\A count, i : IsProtected(count, i)' <=> IsProtected(count, i))
      /\ Accepted' = Accepted
  BY <1>1 DEF IsProtected, KeysOf, IsSharpCorner, Accepted
<1>4. PassInv'
  BY <1>1, <1>3 DEF PruneInv, PassInv, Evaluating
<1>5. ErrorInv'
  BY <1>1 DEF PruneInv, ErrorInv
<1> QED
  BY <1>2, <1>4, <1>5 DEF PruneInv

\* The closures leave before the prune begins, and every key has one.
LEMMA DropKeeps ==
  ASSUME BridgePruneAssumption, IInv, DropAccepted
  PROVE  IInv'
<1>1. /\ stage = "start" /\ stage' \in {"prune", "returned"} /\ MayHaveClosures
      /\ solved' = [k \in DOMAIN arrived |-> arrived[k] - 1]
      /\ keys' = AllVertices(solved') /\ bestError' = maxErr'
      /\ UNCHANGED <<pc, evaluations, pruned, result, arrived, propertyKeys>>
      /\ outcome' = Validated("duplicate_terminal_closure", solved', maxErr')
  BY DEF DropAccepted, passVars
<1>2. /\ pc = "start" /\ solved = arrived /\ pruned \in Nat
      /\ propertyKeys.counts = arrived /\ evaluations = <<>>
      /\ arrived \in Seq(Nat) /\ ~result.accepted
  BY <1>1 DEF IInv, OutcomeInv, KeysInv, PassInv, ErrorInv
<1>3. \A k \in DOMAIN arrived : arrived[k] \in Nat /\ arrived[k] >= 4
  BY <1>1, <1>2 DEF MayHaveClosures
<1>4. /\ DOMAIN solved' = DOMAIN arrived
      /\ \A k \in DOMAIN arrived : solved'[k] \in Nat /\ solved'[k] = arrived[k] - 1
  BY <1>1, <1>3
<1>5. solved' \in Seq(Nat) /\ Len(solved') = Len(arrived)
  <2>1. Len(arrived) \in Nat /\ DOMAIN arrived = 1 .. Len(arrived)
    BY <1>2
  <2>2. solved' \in [1 .. Len(arrived) -> Nat]
    BY <1>1, <1>4, <2>1
  <2> QED
    BY <2>1, <2>2
<1>6. /\ DOMAIN keys' = DOMAIN solved'
      /\ \A k \in DOMAIN keys' :
           /\ keys'[k] \in Seq(Nat) /\ Len(keys'[k]) = solved'[k]
           /\ 0 .. solved'[k] - 1 \subseteq ToSet(keys'[k])
  BY <1>1, <1>5, AllVerticesAreKeys
<1>7. KeysInv'
  BY <1>1, <1>2, <1>3, <1>4, <1>5, <1>6, SMTT(30) DEF KeysInv
<1>8. ClassInv'
  BY <1>1, <1>4, <1>6 DEF ClassInv
<1>9. NeverBelowMinimum'
  BY <1>4, <1>6 DEF NeverBelowMinimum
<1>10. PassInv' /\ ErrorInv'
  BY <1>1, <1>2 DEF PassInv, Evaluating, ErrorInv
<1>11. OutcomeInv'
  <2>1. outcome'.accepted /\ outcome'.outlineError = outcome'.maxErr
        /\ outcome'.counts = solved'
    BY <1>1 DEF Validated
  <2>2. \A j, k \in DOMAIN arrived : arrived[j] = arrived[k] =>
          outcome'.counts[j] = outcome'.counts[k]
    BY <2>1, <1>4
  <2>3. arrived' = arrived /\ propertyKeys' = propertyKeys
        /\ stage' # "start" /\ stage' # "end"
    BY <1>1
  <2> QED
    BY <1>2, <2>1, <2>2, <2>3 DEF OutcomeInv
<1>12. ClassesStayTogether'
  BY <1>1, <1>2 DEF ClassesStayTogether
<1> QED
  BY <1>7, <1>8, <1>9, <1>10, <1>11, <1>12 DEF IInv

LEMMA PruneStepKeeps ==
  ASSUME BridgePruneAssumption, IInv, PruneStep
  PROVE  IInv'
<1>1. Prune /\ stage = "prune" /\ stage' = "prune"
      /\ UNCHANGED <<arrived, outcome, propertyKeys>>
  BY DEF PruneStep, reductionVars
<1>2. PruneInv'
  BY <1>1, PruneKeeps DEF IInv, PruneInv
<1>3. OutcomeInv' /\ ClassesStayTogether'
  BY <1>1 DEF IInv, OutcomeInv, ClassesStayTogether
<1> QED
  BY <1>2, <1>3 DEF IInv, PruneInv

\* What the prune leaves becomes the outcome.
LEMMA ReturnPruneOutcomeKeeps ==
  ASSUME IInv, ReturnPruneOutcome
  PROVE  OutcomeInv' /\ ClassesStayTogether'
<1>1. /\ pc = "done" /\ stage = "prune" /\ stage' = "returned"
      /\ outcome' = PruneOutcome /\ UNCHANGED <<pc, arrived, propertyKeys>>
  BY DEF ReturnPruneOutcome, Returns, vars
<1>2. /\ DOMAIN keys = DOMAIN arrived /\ propertyKeys.counts = arrived
  BY <1>1 DEF IInv, KeysInv, OutcomeInv
<1>3. ASSUME PruneOutcome.accepted
      PROVE  /\ PruneOutcome.outlineError = PruneOutcome.maxErr
             /\ \A j, k \in DOMAIN arrived : arrived[j] = arrived[k] =>
                  PruneOutcome.counts[j] = PruneOutcome.counts[k]
  <2>1. CASE PruneOutcome = OutcomeOfPrune
    <3>1. /\ result.accepted /\ PruneOutcome.counts = CountsOf(result.keys)
          /\ PruneOutcome.maxErr = result.maxErr
          /\ PruneOutcome.outlineError = result.outlineError
      BY <2>1, <1>3 DEF OutcomeOfPrune
    <3>2. result.keys = keys /\ result.maxErr = result.outlineError
      BY <3>1 DEF IInv, ErrorInv
    <3>3. PruneOutcome.counts = [k \in DOMAIN arrived |-> Len(keys[k])]
      BY <3>1, <3>2, <1>2 DEF CountsOf
    <3> QED
      BY <3>1, <3>2, <3>3 DEF IInv, ClassInv
  <2>2. CASE PruneOutcome = outcome
    BY <2>2, <1>3 DEF IInv, OutcomeInv
  <2> QED
    BY <2>1, <2>2 DEF PruneOutcome
<1>4. OutcomeInv'
  BY <1>1, <1>2, <1>3 DEF OutcomeInv
<1> QED
  BY <1>1, <1>2, <1>4 DEF ClassesStayTogether

\* A fit gives every key one count.
LEMMA FitKeeps ==
  ASSUME IInv, ReturnWithoutFit \/ StartLadder \/ FitAccepted \/ FitRejected
                 \/ ReturnRejected
  PROVE  OutcomeInv' /\ ClassesStayTogether'
<1>1. UNCHANGED <<arrived, propertyKeys>>
      /\ stage \in {"prune", "ladder"} /\ stage' \in {"returned", "ladder"}
  BY DEF ReturnWithoutFit, StartLadder, FitAccepted, FitRejected, ReturnRejected,
     Returns
<1>2. propertyKeys.counts = arrived
  BY <1>1 DEF IInv, OutcomeInv
<1>3. CASE UNCHANGED outcome
  BY <1>1, <1>2, <1>3 DEF IInv, OutcomeInv, ClassesStayTogether
<1>4. CASE FitAccepted
  <2>1. PICK e, mode :
          outcome' = Validated(mode, [k \in DOMAIN arrived |-> Head(targets)], e)
    BY <1>4 DEF FitAccepted, Returns
  <2>2. /\ outcome'.outlineError = outcome'.maxErr
        /\ outcome'.counts = [k \in DOMAIN arrived |-> Head(targets)]
    BY <2>1 DEF Validated
  <2> QED
    BY <1>1, <1>2, <2>2 DEF OutcomeInv, ClassesStayTogether
<1>5. CASE ReturnWithoutFit \/ ReturnRejected
  <2>1. ~outcome'.accepted
    BY <1>5 DEF ReturnWithoutFit, ReturnRejected, Returns, Unchanged, NoOutcome
  <2> QED
    BY <1>1, <1>2, <2>1 DEF OutcomeInv, ClassesStayTogether
<1> QED
  BY <1>3, <1>4, <1>5 DEF StartLadder, FitRejected

LEMMA FinishKeeps ==
  ASSUME IInv, FinishCancelled \/ Finish
  PROVE  OutcomeInv' /\ ClassesStayTogether'
<1>1. UNCHANGED <<arrived, outcome>>
      /\ stage = "returned" /\ stage' \in {"cancelled", "end"}
  BY DEF FinishCancelled, Finish
<1>2. propertyKeys.counts = arrived
  BY <1>1 DEF IInv, OutcomeInv
<1>3. CASE FinishCancelled
  BY <1>1, <1>2, <1>3 DEF FinishCancelled, IInv, OutcomeInv, ClassesStayTogether
<1>4. CASE Finish
  <2>1. CASE outcome.accepted
    <3>1. propertyKeys' = [counts |-> outcome.counts, maxErr |-> outcome.maxErr]
          /\ stage' = "end"
      BY <1>4, <2>1 DEF Finish
    <3>2. propertyKeys'.counts = outcome.counts
          /\ propertyKeys'.maxErr = outcome.maxErr
      BY <3>1
    <3> QED
      BY <1>1, <2>1, <3>1, <3>2 DEF IInv, OutcomeInv, ClassesStayTogether
  <2>2. CASE ~outcome.accepted
    BY <1>1, <1>2, <1>4, <2>2 DEF Finish, OutcomeInv, ClassesStayTogether
  <2> QED
    BY <2>1, <2>2
<1> QED
  BY <1>3, <1>4

LEMMA StepKeeps ==
  ASSUME BridgePruneAssumption, IInv, [HostTouches \/ Reduce]_<<vars, reductionVars>>
  PROVE  IInv'
<1>1. CASE DropAccepted
  BY <1>1, DropKeeps
<1>2. CASE PruneStep
  BY <1>2, PruneStepKeeps
<1>3. CASE ~DropAccepted /\ ~PruneStep
  <2>1. UNCHANGED <<pc, inputs, keyVars, passVars, result, arrived>>
    BY <1>3 DEF HostTouches, Reduce, ReturnSkipped, DropRejected, NoClosures,
       ReturnPruneOutcome, ReturnWithoutFit, StartLadder, FitAccepted, FitRejected,
       ReturnRejected, FinishCancelled, Finish, vars, reductionVars
  <2>2. PruneInv'
    BY <2>1, SamePrune DEF IInv, PruneInv
  <2>3. OutcomeInv' /\ ClassesStayTogether'
    <3>1. CASE HostTouches \/ UNCHANGED <<vars, reductionVars>>
      BY <3>1, <2>1 DEF HostTouches, reductionVars, inputs, keyVars, IInv, OutcomeInv,
         ClassesStayTogether
    <3>2. CASE ReturnSkipped \/ DropRejected \/ NoClosures
      <4>1. /\ stage = "start" /\ stage' \in {"returned", "prune"}
            /\ UNCHANGED outcome \/ ~outcome'.accepted
            /\ UNCHANGED <<arrived, propertyKeys>>
        BY <3>2, <2>1 DEF ReturnSkipped, DropRejected, NoClosures, Returns, Unchanged,
           NoOutcome
      <4> QED
        BY <4>1 DEF IInv, OutcomeInv, ClassesStayTogether
    <3>3. CASE ReturnPruneOutcome
      BY <3>3, ReturnPruneOutcomeKeeps
    <3>4. CASE ReturnWithoutFit \/ StartLadder \/ FitAccepted \/ FitRejected
                 \/ ReturnRejected
      BY <3>4, FitKeeps
    <3>5. CASE FinishCancelled \/ Finish
      BY <3>5, FinishKeeps
    <3> QED
      BY <1>3, <3>1, <3>2, <3>3, <3>4, <3>5 DEF Reduce
  <2> QED
    BY <2>2, <2>3 DEF IInv, PruneInv
<1> QED
  BY <1>1, <1>2, <1>3

THEOREM Invariance == ReductionSpec => []IInv
<1>1. ReductionInit => IInv
  BY BridgePruneAssumption, InitiallyKept
<1>2. IInv /\ [HostTouches \/ Reduce]_<<vars, reductionVars>> => IInv'
  BY BridgePruneAssumption, StepKeeps
<1> QED
  BY <1>1, <1>2, PTL DEF ReductionSpec

\* However many removals a batch applies, and whatever counts the keys came
\* with, no key is pruned below path_replacement_min_vertices.
THEOREM MinimumIsKept == ReductionSpec => []NeverBelowMinimum
<1>1. IInv => NeverBelowMinimum
  BY DEF IInv
<1> QED
  BY <1>1, Invariance, PTL

\* The corners are looked for in the keys of one class, with the indices a batch
\* has shifted, and yet no key loses a vertex it turns sharply at, as it is when
\* the vertex goes, also where a batch merges two classes.
THEOREM NoCornerIsLost == ReductionSpec => CornersKept
<1>1. ASSUME IInv, [HostTouches \/ Reduce]_<<vars, reductionVars>>
      PROVE  pc # "start" => Spares
  <2>1. CASE UNCHANGED keys
    <3>1. \A k \in DOMAIN keys : \A p \in DOMAIN keys[k] :
            keys[k][p] \in ToSet(keys'[k])
      BY <2>1 DEF ToSet
    <3> QED
      BY <3>1 DEF Spares
  <2>2. CASE ApplyBest
    <3>1. /\ keys' = Without(keys, target, best) /\ target \in Nat
          /\ best \in 1 .. target - 1 /\ ~IsProtected(target, best)
      BY <1>1, <2>2 DEF ApplyBest, IInv, PassInv, Evaluating, Accepted
    <3> QED
      BY <1>1, <3>1, RemovalSpares DEF IInv
  <2>3. CASE BatchApplies
    <3>1. /\ keys' = Without(keys, CurrentVertices, Shifted(Head(order)))
          /\ Shifted(Head(order)) \in 1 .. CurrentVertices - 1
          /\ ~IsProtected(CurrentVertices, Shifted(Head(order)))
          /\ CurrentVertices > MinTarget
      BY <2>3 DEF BatchApplies, Removal, Skips
    <3>2. CurrentVertices \in Nat
      <4>1. pc = "batch" => target \in Nat /\ IsFiniteSet(removed)
        BY <1>1 DEF IInv, PassInv
      <4>2. target \in Nat /\ Cardinality(removed) \in Nat /\ MinTarget \in Nat
        BY <2>3, <4>1, FS_CardinalityType, BridgePruneAssumption
           DEF BatchApplies, InBatch, BridgePruneAssumption
      <4> QED
        BY <3>1, <4>2 DEF CurrentVertices
    <3> QED
      BY <1>1, <3>1, <3>2, RemovalSpares DEF IInv
  <2>4. CASE DropAccepted
    BY <1>1, <2>4 DEF DropAccepted, IInv, OutcomeInv
  <2>5. CASE ~ApplyBest /\ ~BatchApplies /\ ~DropAccepted
    <3>1. UNCHANGED keys
      BY <1>1, <2>5 DEF HostTouches, Reduce, ReturnSkipped, DropRejected, NoClosures,
         PruneStep, Prune, ReturnDisabled, ReturnAtMinimum, StartPasses,
         ReturnCancelled, ReturnPruned, Return, PlanPass, EvaluateChunk,
         SelectBridgePruneCandidates, BatchPassesBest, BatchSkips, BatchRejects,
         EndBatch, ReturnPruneOutcome, ReturnWithoutFit, StartLadder, FitAccepted,
         FitRejected, ReturnRejected, FinishCancelled, Finish, keyVars, vars
    <3> QED
      BY <3>1, <2>1
  <2> QED
    BY <2>2, <2>3, <2>4, <2>5
<1>2. ASSUME IInv, [HostTouches \/ Reduce]_<<vars, reductionVars>>
      PROVE  [preserve /\ pc # "start" =>
               \A k \in DOMAIN keys : \A p \in DOMAIN keys[k] :
                 keys[k][p] \notin ToSet(keys'[k]) => ~IsSharpCorner(k, p - 1)]_vars
  BY <1>1, <1>2 DEF Spares
<1> QED
  BY <1>2, Invariance, PTL DEF ReductionSpec, CornersKept

\* Keys that came with equal counts are handed on with equal counts, from the
\* drop, the prune or the fit.
THEOREM CountsStayEqual == ReductionSpec => []ClassesStayTogether
<1>1. IInv => ClassesStayTogether
  BY DEF IInv
<1> QED
  BY <1>1, Invariance, PTL

\* The error that is reported of an accepted reduction is the one the keys it
\* hands over were validated with, last in a pass or in its batch.
THEOREM ErrorIsOfTheKeys == ReductionSpec => []ReportsTheValidatedError
<1>1. IInv => ReportsTheValidatedError
  BY DEF IInv, OutcomeInv, ReportsTheValidatedError
<1> QED
  BY <1>1, Invariance, PTL
------------------------------------------------------------------------------
(***************************************************************************)
(* A cancel in the prune reaches the caller of the reduction.              *)
(***************************************************************************)
\* The prune says nothing before it is run, and what it says of a cancel is
\* what the reduction says.
CancelArrives ==
  /\ stage \in {"start", "ladder"} => result.notes # "cancelled"
  /\ stage = "returned" /\ result.notes = "cancelled"
       => outcome.notes = "cancelled"

LEMMA Initially == ReductionInit => CancelArrives
BY DEF ReductionInit, Init, NoResult, CancelArrives

\* The steps that leave the result of the prune alone.
LEMMA NextKeeps ==
  ASSUME CancelArrives, [HostTouches \/ Reduce]_<<vars, reductionVars>>
  PROVE  CancelArrives'
<1> USE DEF CancelArrives
<1>1. CASE HostTouches
  BY <1>1 DEF HostTouches, reductionVars
<1>2. CASE ReturnSkipped
  BY <1>2 DEF ReturnSkipped, Returns, vars
<1>3. CASE DropAccepted
  BY <1>3 DEF DropAccepted, Returns
<1>4. CASE DropRejected \/ NoClosures
  BY <1>4 DEF DropRejected, NoClosures, vars
<1>5. CASE PruneStep
  BY <1>5 DEF PruneStep, reductionVars
<1>6. CASE ReturnPruneOutcome
  <2>1. /\ stage' = "returned" /\ result' = result
        /\ outcome' = PruneOutcome
    BY <1>6 DEF ReturnPruneOutcome, Returns, vars
  <2>2. result.notes = "cancelled" => PruneOutcome.notes = "cancelled"
    BY DEF PruneOutcome, OutcomeOfPrune
  <2> QED
    BY <2>1, <2>2
<1>7. CASE ReturnWithoutFit \/ StartLadder
  BY <1>7 DEF ReturnWithoutFit, StartLadder, PruneDecides, Returns, vars
<1>8. CASE FitAccepted \/ FitRejected \/ ReturnRejected
  BY <1>8 DEF FitAccepted, FitRejected, ReturnRejected, Returns, vars
<1>9. CASE FinishCancelled \/ Finish
  BY <1>9 DEF FinishCancelled, Finish
<1>10. CASE UNCHANGED <<vars, reductionVars>>
  BY <1>10 DEF vars, reductionVars
<1> QED
  BY <1>1, <1>2, <1>3, <1>4, <1>5, <1>6, <1>7, <1>8, <1>9, <1>10 DEF Reduce

\* Keys are taken over in one place, which has seen no cancel.
LEMMA CancelStops ==
  ASSUME CancelArrives, [HostTouches \/ Reduce]_<<vars, reductionVars>>
  PROVE  outcome.notes = "cancelled" \/ result.notes = "cancelled"
           => UNCHANGED propertyKeys
<1>1. CASE Finish
  BY <1>1 DEF Finish, CancelArrives
<1>2. CASE ~Finish
  BY <1>2 DEF Reduce, HostTouches, ReturnSkipped, DropAccepted, DropRejected,
     NoClosures, PruneStep, ReturnPruneOutcome, ReturnWithoutFit, StartLadder,
     FitAccepted, FitRejected, ReturnRejected, FinishCancelled, reductionVars
<1> QED
  BY <1>1, <1>2

\* Once the prune or the reduction has answered "cancelled", the keys of the
\* property stay as they were solved, also those whose closures were dropped.
THEOREM CancelledReductionIsDropped == ReductionSpec => CancelKeepsTheSolvedKeys
BY Initially, NextKeeps, CancelStops, PTL DEF ReductionSpec, CancelKeepsTheSolvedKeys
==============================================================================
