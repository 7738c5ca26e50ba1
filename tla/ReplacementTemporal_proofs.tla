---------------------- MODULE ReplacementTemporal_proofs ----------------------
(***************************************************************************)
(* The temporal solver of a replacement, for every call, every placement   *)
(* and every answer of the multimode solver: what replaces the placement   *)
(* follows the source, nothing converged is traded for worse, and after a  *)
(* cancel only what was solved before it is returned.                      *)
(***************************************************************************)
EXTENDS ReplacementTemporal, FiniteSetTheorems, TLAPS

(***************************************************************************)
(* Numbers.                                                                *)
(***************************************************************************)
\* A set of naturals has a least element.
LEMMA SmallestElement ==
  ASSUME NEW T, T \subseteq Nat, T # {}
  PROVE  \E x \in T : \A y \in T : x <= y
<1> DEFINE R == OpToRel(<, Nat)
<1>1. IsWellFoundedOn(R, Nat)
  BY NatLessThanWellFounded
<1>2. PICK x \in T : \A y \in T : ~(<<y, x>> \in R)
  <2> HIDE DEF R
  <2> QED
    BY <1>1, WFMin
<1>3. \A y \in T : y < x => <<y, x>> \in R
  BY DEF OpToRel
<1>4. \A y \in T : ~(y < x)
  <2> HIDE DEF R
  <2> QED
    BY <1>2, <1>3
<1>5. x \in Nat /\ \A y \in T : y \in Nat
  OBVIOUS
<1> HIDE DEF R
<1> QED
  BY <1>4, <1>5

\* What holds at 0 and at the next of each number below n holds up to n.
LEMMA IntervalInduction ==
  ASSUME NEW n \in Nat, NEW S, 0 \in S,
         \A i \in 0 .. n - 1 : i \in S => i + 1 \in S
  PROVE  0 .. n \subseteq S
<1> DEFINE T == {i \in 0 .. n : i \notin S}
<1> SUFFICES ASSUME T # {} PROVE FALSE
  OBVIOUS
<1>1. T \subseteq Nat
  OBVIOUS
<1>2. PICK x \in T : \A y \in T : x <= y
  <2> HIDE DEF T
  <2> QED
    BY <1>1, SmallestElement
<1>3. x # 0 /\ x - 1 \in 0 .. n - 1
  OBVIOUS
<1>4. x - 1 \in S
  BY <1>2, <1>3
<1> QED
  BY <1>3, <1>4

------------------------------------------------------------------------------
(***************************************************************************)
(* Calls.                                                                  *)
(***************************************************************************)
\* A normalised call.
IsNormal(c) ==
  /\ c.n \in Nat /\ (c.input = "ok" => c.n > 0)
  /\ c.src \in [0 .. c.n - 1 -> Int] /\ c.red \in [0 .. c.n - 1 -> Int]
  /\ c.tolerance \in Nat /\ c.multimode \in BOOLEAN
  /\ c.forwardMinSamples \in Int /\ c.forwardMinSamples >= 2
  /\ c.maxPairs \in Int /\ c.minInfluence \in Int /\ c.maxInfluence \in Int
  /\ c.fitPairs \in BOOLEAN

\* Its limits of a segment's length.
HasGaps(c) == c.gap \in Int /\ c.forwardGap \in Int

\* The larger of two numbers is one of them and not below the other.
LEMMA LargerOfTwo ==
  ASSUME NEW x \in Int, NEW y \in Int
  PROVE  Max({x, y}) \in Int /\ Max({x, y}) >= x /\ Max({x, y}) >= y
<1>1. \E z \in {x, y} : \A w \in {x, y} : z >= w
  <2>1. CASE x >= y
    BY <2>1
  <2>2. CASE y >= x
    BY <2>2
  <2> QED
    BY <2>1, <2>2
<1>2. Max({x, y}) \in {x, y} /\ \A w \in {x, y} : Max({x, y}) >= w
  BY <1>1 DEF Max
<1> QED
  BY <1>2

\* The smaller of two numbers, likewise.
LEMMA SmallerOfTwo ==
  ASSUME NEW x \in Int, NEW y \in Int
  PROVE  Min({x, y}) \in Int /\ Min({x, y}) <= x /\ Min({x, y}) <= y
<1>1. \E z \in {x, y} : \A w \in {x, y} : z <= w
  <2>1. CASE x >= y
    BY <2>1
  <2>2. CASE y >= x
    BY <2>2
  <2> QED
    BY <2>1, <2>2
<1>2. Min({x, y}) \in {x, y} /\ \A w \in {x, y} : Min({x, y}) <= w
  BY <1>1 DEF Min
<1> QED
  BY <1>2

\* A normalised call has numbers in every field, and keeps its samples.
LEMMA NormalizedCall ==
  ASSUME NEW o, IsCall(o)
  PROVE  IsNormal(Normalize(o)) /\ Normalize(o).n = o.n
<1> DEFINE c == Normalize(o)
<1>1. c.n = o.n /\ c.src = o.src /\ c.red = o.red /\ c.input = o.input
      /\ c.tolerance = o.tolerance
  BY DEF IsCall, Normalize
<1>2. c.multimode = (o.multimode /\ o.allowLinear)
  BY DEF IsCall, Normalize
<1>3. c.forwardMinSamples = Max({2, o.forwardMinSamples})
  BY DEF IsCall, Normalize
<1>4. Max({2, o.forwardMinSamples}) \in Int /\ Max({2, o.forwardMinSamples}) >= 2
  <2>1. o.forwardMinSamples \in Int /\ 2 \in Int
    BY DEF IsCall
  <2> HIDE DEF c
  <2>2. \A z \in Int : Max({2, z}) \in Int /\ Max({2, z}) >= 2
    BY LargerOfTwo
  <2> QED
    BY <2>1, <2>2
<1>5. /\ o.n \in Nat /\ (o.input = "ok" => o.n > 0)
      /\ o.src \in [0 .. o.n - 1 -> Int] /\ o.red \in [0 .. o.n - 1 -> Int]
      /\ o.tolerance \in Nat
  BY DEF IsCall
<1>7. c.maxPairs = Clamp(o.maxPairs, 0, 48)
  BY DEF IsCall, Normalize
<1> DEFINE top == Max({o.cfgMin, o.cfgMax})
           low == Clamp(o.minInfluence, o.cfgMin, top)
<1>8. c.minInfluence = low /\ c.maxInfluence = Clamp(o.maxInfluence, low, top)
  BY DEF IsCall, Normalize
<1>9. c.fitPairs = (o.allowBezier /\ o.allowShapeBezier /\ c.maxPairs > 0)
  BY DEF IsCall, Normalize
<1>10. o.maxPairs \in Int /\ o.minInfluence \in Int /\ o.maxInfluence \in Int
       /\ o.cfgMin \in Int /\ o.cfgMax \in Int
  BY DEF IsCall
<1> HIDE DEF c
<1>11. top \in Int
  <2> HIDE DEF top
  <2>1. \A x, y \in Int : Max({x, y}) \in Int
    BY LargerOfTwo
  <2> QED
    BY <1>10, <2>1 DEF top
<1> HIDE DEF top
<1>12. low \in Int
  BY <1>10, <1>11 DEF Clamp
<1> HIDE DEF low
<1>13. c.maxPairs \in Int /\ c.minInfluence \in Int /\ c.maxInfluence \in Int
  <2>2. c.maxPairs \in Int
    BY <1>7, <1>10 DEF Clamp
  <2>3. c.maxInfluence \in Int
    BY <1>8, <1>10, <1>11, <1>12 DEF Clamp
  <2> QED
    BY <1>8, <1>12, <2>2, <2>3
<1>14. c.fitPairs \in BOOLEAN
  BY <1>9
<1> QED
  BY <1>1, <1>2, <1>3, <1>4, <1>5, <1>13, <1>14 DEF IsNormal, c

\* So do its gaps.
LEMMA NormalizedGaps ==
  ASSUME NEW o, IsCall(o)
  PROVE  HasGaps(Normalize(o))
<1> DEFINE c == Normalize(o)
           gap == IF o.gap <= 0 THEN kDefaultMaxGapSamples ELSE o.gap
           asked == IF o.window <= 0 THEN kDefaultMaxGapSamples + 1 ELSE o.window
           window == Max({2, asked})
           far == IF o.forwardGap <= 0 THEN kDefaultForwardMaxGap
                  ELSE o.forwardGap
<1>1. /\ c.gap = Max({1, Min({gap, window - 1})})
      /\ c.forwardGap = Clamp(far, 1, 1024)
  BY DEF IsCall, Normalize
<1>2. gap \in Int /\ far \in Int /\ asked \in Int /\ 1 \in Int /\ 2 \in Int
  BY DEF IsCall, kDefaultMaxGapSamples, kDefaultForwardMaxGap
<1> HIDE DEF c, gap, asked, far
<1>3. window \in Int
  BY <1>2, LargerOfTwo, Zenon
<1> HIDE DEF window
<1> DEFINE less == Min({gap, window - 1})
<1>4. less \in Int
  <2>1. window - 1 \in Int
    BY <1>3
  <2> QED
    BY <1>2, <2>1, SmallerOfTwo
<1> HIDE DEF less
<1>5. Max({1, less}) \in Int
  BY <1>2, <1>4, LargerOfTwo, Zenon
<1>6. Clamp(far, 1, 1024) \in Int
  BY <1>2 DEF Clamp
<1> QED
  BY <1>1, <1>5, <1>6 DEF HasGaps, c, less

------------------------------------------------------------------------------
(***************************************************************************)
(* The largest value of a function.                                        *)
(***************************************************************************)
\* A function of an interval has a largest value.
LEMMA LargestValue ==
  ASSUME NEW i \in Nat, NEW j \in Nat, i <= j, NEW f \in [i .. j -> Int]
  PROVE  \E k \in i .. j : \A x \in i .. j : f[x] <= f[k]
<1> DEFINE S == {m \in 0 .. j - i :
                   \E k \in i .. i + m : \A x \in i .. i + m : f[x] <= f[k]}
<1>1. 0 \in S
  <2>1. i \in i .. i + 0 /\ \A x \in i .. i + 0 : f[x] <= f[i]
    OBVIOUS
  <2> QED
    BY <2>1
<1>2. ASSUME NEW m \in 0 .. j - i - 1, m \in S
      PROVE  m + 1 \in S
  <2>1. PICK k \in i .. i + m : \A x \in i .. i + m : f[x] <= f[k]
    BY <1>2
  <2>2. i + m + 1 \in i .. j /\ f[k] \in Int /\ f[i + m + 1] \in Int
    BY <2>1
  <2>3. \A x \in i .. i + (m + 1) : x \in i .. i + m \/ x = i + m + 1
    OBVIOUS
  <2>4. CASE f[k] >= f[i + m + 1]
    <3>1. \A x \in i .. i + (m + 1) : f[x] <= f[k]
      BY <2>1, <2>2, <2>3, <2>4
    <3> QED
      BY <3>1, <2>2
  <2>5. CASE f[k] < f[i + m + 1]
    <3>1. \A x \in i .. i + (m + 1) : f[x] \in Int /\ f[x] <= f[i + m + 1]
      BY <2>1, <2>2, <2>3, <2>5
    <3> QED
      BY <3>1, <2>2
  <2> QED
    BY <2>2, <2>4, <2>5
<1>3. j - i \in Nat /\ \A m \in 0 .. (j - i) - 1 : m \in S => m + 1 \in S
  BY <1>2
<1>4. j - i \in S
  <2> HIDE DEF S
  <2>1. 0 .. j - i \subseteq S
    BY <1>1, <1>3, IntervalInduction
  <2> QED
    BY <2>1, <1>3
<1>5. PICK k \in i .. j : \A x \in i .. j : f[x] <= f[k]
  <2>1. i + (j - i) = j
    OBVIOUS
  <2> QED
    BY <1>4, <2>1
<1> QED
  BY <1>5

------------------------------------------------------------------------------
(***************************************************************************)
(* Keys whose segments hold one by one hold as a whole.                    *)
(***************************************************************************)
\* A linear segment begins at its start and ends at its end.
LEMMA LinearEnds ==
  ASSUME NEW m \in Nat \ {0}
  PROVE  LinearProgress(0, m) = 0 /\ LinearProgress(m, m) = Unit
<1>1. 0 \div m = 0
  OBVIOUS
<1>2. (m * 108) \div m = 108
  OBVIOUS
<1> QED
  BY <1>1, <1>2 DEF LinearProgress, Unit

\* At its ends a chord is at its ends.
LEMMA ChordEnds ==
  ASSUME NEW s \in Int, NEW a \in Int, NEW b \in Int
  PROVE  /\ ChordError(s, a, b, 0) = Unit * Distance(s, a)
         /\ ChordError(s, a, b, Unit) = Unit * Distance(s, b)
<1>1. a * 108 + (b - a) * 0 = a * 108 /\ a * 108 + (b - a) * 108 = b * 108
  OBVIOUS
<1> QED
  BY <1>1 DEF ChordError, Distance, Unit

\* How far along its segment a key has come k of m steps after it.
Progress(key, k, m) ==
  IF key.interp = "bezier" THEN BezierProgress(k, m, key.pair)
  ELSE LinearProgress(k, m)

\* Keys whose every segment stays within tolerance of the source.
LEMMA KeysCompose ==
  ASSUME NEW c, IsNormal(c), NEW K, Len(K) \in Nat, Len(K) >= 2,
         \A k \in 1 .. Len(K) : K[k].at \in 0 .. c.n - 1 /\ K[k].v \in Int,
         K[1].at = 0, K[Len(K)].at = c.n - 1,
         \A k \in 1 .. Len(K) - 1 :
           /\ K[k].at < K[k + 1].at
           /\ K[k].interp \in {"linear", "bezier"}
           /\ Progress(K[k], 0, K[k + 1].at - K[k].at) = 0
           /\ Progress(K[k], K[k + 1].at - K[k].at, K[k + 1].at - K[k].at) = Unit
           /\ \A t \in K[k].at .. K[k + 1].at :
                ChordError(c.src[t], K[k].v, K[k + 1].v,
                           Progress(K[k], t - K[k].at, K[k + 1].at - K[k].at))
                  <= c.tolerance * Unit
  PROVE  Validates(c, K)
<1> DEFINE L == Len(K)
<1>1. K # <<>>
  BY Len(<<>>) = 0
<1> SUFFICES ASSUME NEW t \in 0 .. c.n - 1
             PROVE  KeysError(c, K, t) <= c.tolerance * Unit
  BY <1>1 DEF Validates
<1>2. c.src[t] \in Int /\ t \in Nat
  BY SMTT(30) DEF IsNormal
<1>3. CASE t <= K[1].at
  <2>1. t = K[1].at /\ t \in K[1].at .. K[2].at /\ t - K[1].at = 0 /\ 1 \in 1 .. L - 1
    BY <1>2, <1>3
  <2>2. ChordError(c.src[t], K[1].v, K[2].v, 0) <= c.tolerance * Unit
    BY <2>1
  <2>3. K[1].v \in Int /\ K[2].v \in Int
    BY <2>1
  <2> QED
    BY <1>2, <1>3, <2>2, <2>3, ChordEnds DEF KeysError
<1>4. CASE ~(t <= K[1].at) /\ t >= K[L].at
  <2>1. t = K[L].at /\ L - 1 \in 1 .. L - 1 /\ (L - 1) + 1 = L
    BY <1>2, <1>4
  <2>2. K[L - 1].at < K[L].at /\ K[L - 1].at \in 0 .. c.n - 1
        /\ K[L].at \in 0 .. c.n - 1
    BY <2>1
  <2>3. t \in K[L - 1].at .. K[L].at
    BY <2>1, <2>2
  <2>4. ChordError(c.src[t], K[L - 1].v, K[L].v, Unit) <= c.tolerance * Unit
    BY <2>1, <2>3
  <2>5. K[L - 1].v \in Int /\ K[L].v \in Int
    BY <2>1
  <2> QED
    BY <1>2, <1>4, <2>4, <2>5, ChordEnds DEF KeysError
<1>5. CASE ~(t <= K[1].at) /\ ~(t >= K[L].at)
  <2> DEFINE T == {k \in 1 .. L - 1 : t <= K[k + 1].at}
             x == Min(T)
  <2>1. T \subseteq Nat /\ L - 1 \in T
    <3>1. (L - 1) + 1 = L /\ L - 1 \in 1 .. L - 1 /\ K[L].at \in 0 .. c.n - 1
      OBVIOUS
    <3> QED
      BY <1>2, <1>5, <3>1
  <2>2. x \in T /\ \A y \in T : x <= y
    <3> HIDE DEF T
    <3>1. \E z \in T : \A y \in T : z <= y
      BY <2>1, SmallestElement
    <3> QED
      BY <3>1 DEF Min
  <2> HIDE DEF x
  <2>3. x \in 1 .. L - 1 /\ t <= K[x + 1].at
    BY <2>2
  <2>4. K[x].at < t
    <3>1. CASE x = 1
      BY <1>2, <1>5, <2>3, <3>1
    <3>2. CASE x # 1
      <4>1. x - 1 \in 1 .. L - 1 /\ x - 1 < x /\ (x - 1) + 1 = x
        BY <2>3, <3>2
      <4>2. ~(t <= K[x].at)
        <5>1. t <= K[x].at => x - 1 \in T
          BY <4>1
        <5>2. x - 1 \notin T
          <6> HIDE DEF T
          <6> QED
            BY <2>2, <2>3, <4>1
        <5> QED
          BY <5>1, <5>2
      <4>3. K[x].at \in 0 .. c.n - 1
        BY <2>3
      <4> QED
        BY <4>2, <4>3, <1>2
    <3> QED
      BY <3>1, <3>2
  <2>5. K[x].at \in 0 .. c.n - 1 /\ K[x + 1].at \in 0 .. c.n - 1
    BY <2>3
  <2>6. t \in K[x].at .. K[x + 1].at
    BY <2>3, <2>4, <2>5, <1>2
  <2>7. ChordError(c.src[t], K[x].v, K[x + 1].v,
                   Progress(K[x], t - K[x].at, K[x + 1].at - K[x].at))
          <= c.tolerance * Unit
    BY <2>3, <2>6
  <2>8. K[x].interp # "hold"
    BY <2>3
  <2>9. KeysError(c, K, t) =
          ChordError(c.src[t], K[x].v, K[x + 1].v,
                     Progress(K[x], t - K[x].at, K[x + 1].at - K[x].at))
    BY <1>5, <2>8 DEF KeysError, Progress, x
  <2> QED
    BY <2>7, <2>9
<1> QED
  BY <1>3, <1>4, <1>5
------------------------------------------------------------------------------
(***************************************************************************)
(* Eases.                                                                  *)
(***************************************************************************)
\* A sum of integers is an integer, a sum of naturals a natural.
LEMMA SumType ==
  ASSUME NEW i \in Nat, NEW j \in Nat, i <= j, NEW T, T \subseteq Int, 0 \in T,
         \A x, y \in T : x + y \in T, NEW f \in [i .. j -> T]
  PROVE  SumOver(f, i, j) \in T
<1> DEFINE n == j - (i - 1)
           Val(g, k) == IF k < i THEN 0 ELSE g[k - 1] + f[k]
           Started == {m \in 0 .. n : \E g \in [i - 1 .. j -> T] :
                         \A k \in i - 1 .. (i - 1) + m : g[k] = Val(g, k)}
           sum == CHOOSE g : g = [k \in i - 1 .. j |-> Val(g, k)]
<1>1. SumOver(f, i, j) = sum[j]
  BY DEF SumOver
<1>2. n \in Nat /\ n \in 0 .. n /\ (i - 1) + n = j /\ 0 \in 0 .. n
  OBVIOUS
<1>3. 0 \in Started
  <2> DEFINE g == [k \in i - 1 .. j |-> 0]
  <2>1. g \in [i - 1 .. j -> T] /\ i - 1 \in i - 1 .. j /\ g[i - 1] = 0
    OBVIOUS
  <2>2. \A k \in i - 1 .. (i - 1) + 0 : k = i - 1
    OBVIOUS
  <2> HIDE DEF g
  <2>3. \A k \in i - 1 .. (i - 1) + 0 : g[k] = Val(g, k)
    BY <2>1, <2>2
  <2> HIDE DEF Val
  <2> QED
    BY <1>2, <2>1, <2>3
<1>4. ASSUME NEW m \in 0 .. n - 1, m \in Started
      PROVE  m + 1 \in Started
  <2> DEFINE p == (i - 1) + m + 1
  <2>1. m + 1 \in 0 .. n /\ p \in i .. j /\ p - 1 = (i - 1) + m
        /\ p \in i - 1 .. j /\ p - 1 \in i - 1 .. (i - 1) + m
        /\ p - 1 \in i - 1 .. j /\ (i - 1) + (m + 1) = p
    BY <1>2
  <2>2. PICK g \in [i - 1 .. j -> T] :
          \A k \in i - 1 .. (i - 1) + m : g[k] = Val(g, k)
    BY <1>4
  <2> DEFINE h == [g EXCEPT ![p] = g[p - 1] + f[p]]
  <2>3. g[p - 1] + f[p] \in T
    BY <2>1
  <2>4. h \in [i - 1 .. j -> T] /\ h[p] = g[p - 1] + f[p]
        /\ \A k \in i - 1 .. j : k # p => h[k] = g[k]
    BY <2>1, <2>3
  <2>5. \A k \in i - 1 .. (i - 1) + m : h[k] = g[k]
    <3>1. \A k \in i - 1 .. (i - 1) + m : k \in i - 1 .. j /\ k # p
      BY <1>2, <2>1
    <3> HIDE DEF h
    <3> QED
      BY <2>4, <3>1
  <2> HIDE DEF h
  <2>6. ASSUME NEW k \in i - 1 .. (i - 1) + m PROVE h[k] = Val(h, k)
    <3>1. ~(k < i) => k - 1 \in i - 1 .. (i - 1) + m
      BY <1>2, <2>1
    <3> QED
      BY <3>1, <2>2, <2>5
  <2>7. h[p] = Val(h, p)
    <3>1. ~(p < i) /\ h[p - 1] = g[p - 1]
      BY <2>1, <2>5
    <3> HIDE DEF p
    <3> QED
      BY <3>1, <2>4
  <2>8. \A k \in i - 1 .. (i - 1) + (m + 1) : k \in i - 1 .. (i - 1) + m \/ k = p
    BY <1>2, <2>1
  <2>9. \A k \in i - 1 .. (i - 1) + (m + 1) : h[k] = Val(h, k)
    <3> HIDE DEF Val, p
    <3> QED
      BY <2>6, <2>7, <2>8
  <2> HIDE DEF Val
  <2> QED
    BY <2>1, <2>4, <2>9
<1>5. PICK g \in [i - 1 .. j -> T] : \A k \in i - 1 .. j : g[k] = Val(g, k)
  <2>1. 0 .. n \subseteq Started
    <3> HIDE DEF Started, n
    <3> QED
      BY <1>2, <1>3, <1>4, IntervalInduction
  <2>2. n \in Started
    BY <1>2, <2>1
  <2> HIDE DEF Val
  <2> QED
    BY <1>2, <2>2
<1>6. sum = [k \in i - 1 .. j |-> Val(sum, k)]
  <2> HIDE DEF Val
  <2>1. g = [k \in i - 1 .. j |-> Val(g, k)]
    BY <1>5
  <2> QED
    BY <2>1
<1>7. \A k \in i - 1 .. j : sum[k] = Val(sum, k)
  <2> HIDE DEF sum, Val
  <2> QED
    BY <1>6
<1> HIDE DEF sum
<1> DEFINE Typed == {m \in 0 .. n : sum[(i - 1) + m] \in T}
<1>8. 0 \in Typed
  <2>1. i - 1 \in i - 1 .. j /\ (i - 1) + 0 = i - 1 /\ i - 1 < i
    OBVIOUS
  <2>2. sum[i - 1] = 0
    BY <1>7, <2>1
  <2> QED
    BY <1>2, <2>1, <2>2
<1>9. ASSUME NEW m \in 0 .. n - 1, m \in Typed
      PROVE  m + 1 \in Typed
  <2> DEFINE p == (i - 1) + (m + 1)
  <2>1. m + 1 \in 0 .. n /\ p \in i .. j /\ p \in i - 1 .. j
        /\ p - 1 = (i - 1) + m /\ ~(p < i)
    BY <1>2
  <2>2. sum[p] = sum[(i - 1) + m] + f[p]
    <3> HIDE DEF p
    <3> QED
      BY <1>7, <2>1
  <2>3. sum[(i - 1) + m] \in T
    BY <1>9
  <2>4. sum[p] \in T
    <3> HIDE DEF p
    <3> QED
      BY <2>1, <2>2, <2>3
  <2> QED
    BY <2>1, <2>4
<1>10. 0 .. n \subseteq Typed
  <2> HIDE DEF Typed, n
  <2> QED
    BY <1>2, <1>8, <1>9, IntervalInduction
<1> QED
  BY <1>1, <1>2, <1>10

\* Scaling keeps the order of a time and of the end of time.
LEMMA Scaled ==
  ASSUME NEW x \in Nat, NEW m \in Nat \ {0}
  PROVE  /\ x * m \in Nat
         /\ x > 0 => x * m > 0
         /\ x < 2700 => x * m < 2700 * m
OBVIOUS

\* A function to the naturals has a smallest value.
LEMMA SmallestValue ==
  ASSUME NEW S, S # {}, NEW f \in [S -> Nat]
  PROVE  \E q \in S : \A r \in S : f[q] <= f[r]
<1> DEFINE T == {f[q] : q \in S}
<1>1. T \subseteq Nat /\ T # {}
  OBVIOUS
<1>2. \E x \in T : \A y \in T : x <= y
  <2> HIDE DEF T
  <2> QED
    BY <1>1, SmallestElement
<1> QED
  BY <1>2

\* How far each parameter of a time curve is from step k of m.
CurveMiss(time, k, m) == [q \in 0 .. 3 |-> Distance(time[q] * m, 2700 * k)]

\* The parameter at which a time curve meets a time.
LEMMA MeetsType ==
  ASSUME NEW m \in Nat \ {0}, NEW time \in [0 .. 3 -> Int], NEW k \in Int
  PROVE  /\ CurveMiss(time, k, m) \in [0 .. 3 -> Nat]
         /\ MeetsAt(time, k, m) \in 0 .. 3
         /\ \A r \in 0 .. 3 :
              CurveMiss(time, k, m)[MeetsAt(time, k, m)] <= CurveMiss(time, k, m)[r]
<1> DEFINE miss == [q \in 0 .. 3 |-> Distance(time[q] * m, 2700 * k)]
<1>1. \A q \in 0 .. 3 : time[q] * m \in Int
  OBVIOUS
<1>2. miss \in [0 .. 3 -> Nat]
  <2>1. 2700 * k \in Int
    OBVIOUS
  <2> QED
    BY <1>1, <2>1 DEF Distance
<1>3. PICK q \in 0 .. 3 : \A r \in 0 .. 3 : miss[q] <= miss[r]
  <2> HIDE DEF miss
  <2>1. 0 .. 3 # {}
    OBVIOUS
  <2> QED
    BY <1>2, <2>1, SmallestValue
<1>4. \E z \in 0 .. 3 : \A r \in 0 .. 3 :
        Distance(time[z] * m, 2700 * k) <= Distance(time[r] * m, 2700 * k)
  BY <1>3
<1>5. /\ MeetsAt(time, k, m) \in 0 .. 3
      /\ \A r \in 0 .. 3 : Distance(time[MeetsAt(time, k, m)] * m, 2700 * k)
                             <= Distance(time[r] * m, 2700 * k)
  BY <1>4 DEF MeetsAt, Bisection
<1> QED
  BY <1>2, <1>5 DEF CurveMiss

\* The same for a curve and a time that are not negative.
LEMMA MeetsNatural ==
  ASSUME NEW m \in Nat \ {0}, NEW time \in [0 .. 3 -> Nat], NEW k \in 0 .. m
  PROVE  /\ CurveMiss(time, k, m) \in [0 .. 3 -> Nat]
         /\ MeetsAt(time, k, m) \in 0 .. 3
         /\ \A r \in 0 .. 3 :
              CurveMiss(time, k, m)[MeetsAt(time, k, m)] <= CurveMiss(time, k, m)[r]
<1>1. time \in [0 .. 3 -> Int]
  OBVIOUS
<1>2. k \in Int
  OBVIOUS
<1> QED
  BY <1>1, <1>2, MeetsType, Zenon

\* A time curve whose handles stay inside its ends.
IsCurve(time) ==
  /\ time[0] = 0 /\ time[3] = 2700
  /\ 0 < time[1] /\ time[1] < 2700 /\ 0 < time[2] /\ time[2] < 2700

\* It meets the ends of the time at its own ends.
LEMMA CurveEnds ==
  ASSUME NEW m \in Nat \ {0}, NEW time \in [0 .. 3 -> Nat], IsCurve(time)
  PROVE  MeetsAt(time, 0, m) = 0 /\ MeetsAt(time, m, m) = 3
<1>2. ASSUME NEW k \in 0 .. m
      PROVE  /\ CurveMiss(time, k, m) \in [0 .. 3 -> Nat]
             /\ MeetsAt(time, k, m) \in 0 .. 3
             /\ \A r \in 0 .. 3 : CurveMiss(time, k, m)[MeetsAt(time, k, m)]
                                    <= CurveMiss(time, k, m)[r]
  BY MeetsNatural
<1>3. MeetsAt(time, 0, m) = 0
  <2> DEFINE f == CurveMiss(time, 0, m)
             at == MeetsAt(time, 0, m)
  <2>1. f \in [0 .. 3 -> Nat] /\ at \in 0 .. 3 /\ f[at] <= f[0]
    BY <1>2
  <2>2. f[0] = 0
    BY DEF Distance, CurveMiss, IsCurve
  <2>3. \A q \in 1 .. 3 : f[q] > 0
    <3>1. \A q \in 1 .. 3 : time[q] \in Nat /\ time[q] > 0
      <4>1. \A q \in 1 .. 3 : q = 1 \/ q = 2 \/ q = 3
        OBVIOUS
      <4> QED
        BY <4>1 DEF IsCurve
    <3>2. \A q \in 1 .. 3 : time[q] * m \in Nat /\ time[q] * m > 0
      BY <3>1, Scaled
    <3> QED
      BY <3>2 DEF Distance, CurveMiss, IsCurve
  <2> HIDE DEF f, at
  <2>4. at = 0
    BY <2>1, <2>2, <2>3
  <2> QED
    BY <2>4 DEF at
<1>4. MeetsAt(time, m, m) = 3
  <2> DEFINE f == CurveMiss(time, m, m)
             at == MeetsAt(time, m, m)
  <2>1. f \in [0 .. 3 -> Nat] /\ at \in 0 .. 3 /\ f[at] <= f[3]
    BY <1>2
  <2>2. f[3] = 0
    BY DEF Distance, CurveMiss, IsCurve
  <2>3. \A q \in 0 .. 2 : f[q] > 0
    <3>1. \A q \in 0 .. 2 : time[q] \in Nat /\ time[q] < 2700
      <4>1. \A q \in 0 .. 2 : q = 0 \/ q = 1 \/ q = 2
        OBVIOUS
      <4> QED
        BY <4>1 DEF IsCurve
    <3>2. \A q \in 0 .. 2 : time[q] * m \in Nat /\ time[q] * m < 2700 * m
      BY <3>1, Scaled
    <3> QED
      BY <3>2 DEF Distance, CurveMiss, IsCurve
  <2> HIDE DEF f, at
  <2>4. at = 3
    BY <2>1, <2>2, <2>3
  <2> QED
    BY <2>4 DEF at
<1> QED
  BY <1>3, <1>4

\* An ease is a whole number of units.
LEMMA EaseType ==
  ASSUME NEW m \in Nat \ {0}, NEW pair, pair[1] \in Int, pair[2] \in Int,
         NEW k \in Int
  PROVE  BezierProgress(k, m, pair) \in Int
<1> DEFINE time == EaseTime(pair)
<1>1. time \in [0 .. 3 -> Int]
  BY DEF EaseTime, Bisection
<1>2. \A q \in 0 .. 3 : EaseValue[q] \in Int
  BY DEF EaseValue, Unit, Bisection
<1> HIDE DEF time
<1>3. MeetsAt(time, k, m) \in 0 .. 3
  BY <1>1, MeetsType, Zenon
<1> QED
  BY <1>2, <1>3 DEF BezierProgress, time

\* An ease begins at its start and ends at its end.
LEMMA EaseEnds ==
  ASSUME NEW m \in Nat \ {0}, NEW pair,
         pair[1] \in Int, 0 <= pair[1], pair[1] <= 100,
         pair[2] \in Int, 0 <= pair[2], pair[2] <= 100
  PROVE  /\ BezierProgress(0, m, pair) = 0
         /\ BezierProgress(m, m, pair) = Unit
<1> DEFINE time == EaseTime(pair)
<1>2. /\ time[0] = 0 /\ time[3] = 2700
      /\ time[1] = 12 * pair[1] + 6 * (100 - pair[2]) + 100
      /\ time[2] = 6 * pair[1] + 12 * (100 - pair[2]) + 800
  BY DEF EaseTime, Bisection
<1>3. time = [q \in 0 .. 3 |-> time[q]]
  BY DEF EaseTime, Bisection
<1>4. EaseValue[0] = 0 /\ EaseValue[3] = Unit
  BY DEF EaseValue, Unit, Bisection
<1> HIDE DEF time
<1>5. /\ time[1] \in Nat /\ 0 < time[1] /\ time[1] < 2700
      /\ time[2] \in Nat /\ 0 < time[2] /\ time[2] < 2700
  BY <1>2
<1>6. time \in [0 .. 3 -> Nat]
  <2>1. \A q \in 0 .. 3 : q = 0 \/ q = 1 \/ q = 2 \/ q = 3
    OBVIOUS
  <2>2. \A q \in 0 .. 3 : time[q] \in Nat
    BY <1>2, <1>5, <2>1
  <2> QED
    BY <1>3, <2>2
<1>7. MeetsAt(time, 0, m) = 0 /\ MeetsAt(time, m, m) = 3
  BY <1>2, <1>5, <1>6, CurveEnds DEF IsCurve
<1>8. \A k : BezierProgress(k, m, pair) = EaseValue[MeetsAt(time, k, m)]
  BY DEF BezierProgress, time
<1> QED
  BY <1>4, <1>7, <1>8
------------------------------------------------------------------------------
(***************************************************************************)
(* Chords.                                                                 *)
(***************************************************************************)
\* How far along a segment is, in whole units.
LEMMA SegmentProgressType ==
  ASSUME NEW c, IsNormal(c), NEW i \in Nat, NEW j \in Nat, i < j, NEW k \in i .. j,
         NEW interp, NEW pair, pair[1] \in Int, pair[2] \in Int
  PROVE  SegmentProgress(c, i, j, k, interp, pair) \in Int
<1>1. j - i \in Nat \ {0} /\ k - i \in Int /\ k - i \in Nat
  OBVIOUS
<1>2. LinearProgress(k - i, j - i) \in Int
  <2>1. \A m \in Nat \ {0} : \A x \in Nat : (x * 108) \div m \in Int
    OBVIOUS
  <2> QED
    BY <1>1, <2>1 DEF LinearProgress, Unit
<1>3. ClampPair(pair, c)[1] \in Int /\ ClampPair(pair, c)[2] \in Int
  <2>1. Least(c) \in Int /\ Greatest(c) \in Int
    <3>1. Greatest(c) \in Int
      BY LargerOfTwo DEF Greatest, IsNormal
    <3>2. Least(c) \in Int
      BY SmallerOfTwo DEF Least, IsNormal
    <3> QED
      BY <3>1, <3>2
  <2> QED
    BY <2>1 DEF ClampPair, ClampBoth, Clamp
<1>4. BezierProgress(k - i, j - i, ClampPair(pair, c)) \in Int
  BY <1>1, <1>3, EaseType
<1> QED
  BY <1>2, <1>4 DEF SegmentProgress

\* The chord of a segment i..j stays within tolerance of the source.
ChordHolds(c, i, j, a, b, interp, pair) ==
  \A k \in i .. j :
    ChordError(c.src[k], a, b, SegmentProgress(c, i, j, k, interp, pair))
      <= c.tolerance * Unit

\* The error of a chord is a number.
LEMMA ChordType ==
  ASSUME NEW s \in Int, NEW a \in Int, NEW b \in Int, NEW p \in Int
  PROVE  ChordError(s, a, b, p) \in Int
<1>1. s * 108 \in Int /\ a * 108 + (b - a) * p \in Int
  OBVIOUS
<1> QED
  BY <1>1 DEF ChordError, Distance, Unit

\* No error of a segment exceeds the worst.
LEMMA WorstIsWorst ==
  ASSUME NEW src, NEW i \in Nat, NEW j \in Nat, i <= j, NEW a, NEW b, NEW progress,
         \A k \in i .. j : ChordError(src[k], a, b, progress[k]) \in Int
  PROVE  /\ WorstError(src, i, j, a, b, progress) \in Int
         /\ \A k \in i .. j : ChordError(src[k], a, b, progress[k])
                                <= WorstError(src, i, j, a, b, progress)
<1> DEFINE f == [k \in i .. j |-> ChordError(src[k], a, b, progress[k])]
           S == {ChordError(src[k], a, b, progress[k]) : k \in i .. j}
<1>1. f \in [i .. j -> Int]
  OBVIOUS
<1>2. PICK k \in i .. j : \A x \in i .. j : f[x] <= f[k]
  <2> HIDE DEF f
  <2> QED
    BY <1>1, LargestValue
<1>3. \E z \in S : \A y \in S : z >= y
  BY <1>1, <1>2
<1>4. S \subseteq Int
  OBVIOUS
<1>5. WorstError(src, i, j, a, b, progress) = Max(S)
  BY DEF WorstError
<1>6. \A k1 \in i .. j : ChordError(src[k1], a, b, progress[k1]) \in S
  OBVIOUS
<1> HIDE DEF S
<1>7. Max(S) \in S /\ \A y \in S : Max(S) >= y
  BY <1>3 DEF Max
<1>8. Max(S) \in Int /\ \A y \in S : y <= Max(S)
  BY <1>4, <1>7
<1> QED
  BY <1>5, <1>6, <1>8

\* A segment judged within tolerance is so at each of its samples.
LEMMA WithinHolds ==
  ASSUME NEW c, IsNormal(c), NEW i \in Nat, NEW j \in Nat, i < j, j < c.n,
         NEW ends, ends[1] \in Int, ends[2] \in Int,
         NEW interp, NEW pair, pair[1] \in Int, pair[2] \in Int,
         ChordWithin(c, i, j, ends, interp, pair)
  PROVE  ChordHolds(c, i, j, ends[1], ends[2], interp, pair)
<1> DEFINE progress == [k \in i .. j |-> SegmentProgress(c, i, j, k, interp, pair)]
           worst == WorstError(c.src, i, j, ends[1], ends[2], progress)
<1>1. \A k \in i .. j : progress[k] \in Int
  BY SegmentProgressType
<1>2. \A k \in i .. j : c.src[k] \in Int
  <2>1. \A k \in i .. j : k \in 0 .. c.n - 1
    BY DEF IsNormal
  <2> QED
    BY <2>1 DEF IsNormal
<1>3. worst <= c.tolerance * Unit /\ c.tolerance * Unit \in Int
  BY DEF ChordWithin, IsNormal, Unit
<1>4. \A k \in i .. j : progress[k] = SegmentProgress(c, i, j, k, interp, pair)
  OBVIOUS
<1> HIDE DEF progress
<1>5. \A k \in i .. j : ChordError(c.src[k], ends[1], ends[2], progress[k]) \in Int
  BY <1>1, <1>2, ChordType
<1>6. /\ worst \in Int
      /\ \A k \in i .. j : ChordError(c.src[k], ends[1], ends[2], progress[k]) <= worst
  BY <1>5, WorstIsWorst
<1> HIDE DEF worst
<1>7. \A k \in i .. j : ChordError(c.src[k], ends[1], ends[2], progress[k])
                          <= c.tolerance * Unit
  BY <1>3, <1>5, <1>6
<1> QED
  BY <1>4, <1>7 DEF ChordHolds
------------------------------------------------------------------------------
(***************************************************************************)
(* Chains of judged segments.                                              *)
(***************************************************************************)
\* A chain of anchors forwards from the first sample.
IsChain(c, a) ==
  /\ a \in Seq(0 .. c.n - 1) /\ a # <<>> /\ a[1] = 0
  /\ \A k \in 1 .. Len(a) - 1 : a[k] < a[k + 1]

\* The value left at an anchor by the segment before it.
LeftAt(c, a, s, k) ==
  IF k = 1 THEN c.red[a[k]] ELSE ValueOr(s[k - 1].end, c.red[a[k]])

\* The fitted eases stay as they are within the influences of the call.
EasesFit(c) == c.fitPairs => Least(c) <= 10 /\ Greatest(c) >= 90

\* The segments a prune or a forward span collects.
Segments == [feasible : {TRUE}, interp : {"linear", "bezier"},
             pair : Int \X Int, start : SUBSET Int, end : SUBSET Int]

\* A segment i..j that was judged with that value at its start.
IsJudged(c, seg, i, j, left) ==
  /\ seg \in Segments
  /\ seg.pair \in Int \X Int /\ seg.interp \in {"linear", "bezier"}
  /\ seg.interp = "bezier" =>
       /\ c.fitPairs /\ 10 <= seg.pair[1] /\ seg.pair[1] <= 90
       /\ 10 <= seg.pair[2] /\ seg.pair[2] <= 90
  /\ seg.start \in {SampleValue, Own(left)}
  /\ ValueOr(seg.end, c.red[j]) \in Int
  /\ ChordHolds(c, i, j, left, ValueOr(seg.end, c.red[j]), seg.interp, seg.pair)

\* A chain whose segments were all judged.
AreJudged(c, a, s) ==
  /\ s \in Seq(Segments) /\ Len(a) = Len(s) + 1
  /\ \A k \in 1 .. Len(s) : IsJudged(c, s[k], a[k], a[k + 1], LeftAt(c, a, s, k))

\* A segment's own value, or that of the sample.
LEMMA ValueOrOwn ==
  ASSUME NEW v, NEW x
  PROVE  ValueOr(Own(v), x) = v /\ ValueOr(SampleValue, x) = x
<1>1. {v} # {} /\ (CHOOSE w \in {v} : TRUE) = v
  OBVIOUS
<1> QED
  BY <1>1 DEF ValueOr, Own, SampleValue

\* A key has the value left there.
LEMMA KeyValueIsLeft ==
  ASSUME NEW c, NEW a, NEW s, Len(a) \in Nat, NEW k \in 1 .. Len(a),
         k < Len(a) => s[k].start \in {SampleValue, Own(LeftAt(c, a, s, k))}
  PROVE  KeyValue(c, a, s, k) = LeftAt(c, a, s, k)
<1> DEFINE left == LeftAt(c, a, s, k)
           after == IF k < Len(a) THEN ValueOr(s[k].start, c.red[a[k]])
                    ELSE c.red[a[k]]
<1>1. KeyValue(c, a, s, k) = IF k > 1 THEN ValueOr(s[k - 1].end, after) ELSE after
  BY DEF KeyValue
<1>2. after = left \/ after = c.red[a[k]]
  <2> HIDE DEF left
  <2>1. CASE k < Len(a)
    <3>1. s[k].start = SampleValue \/ s[k].start = Own(left)
      BY <2>1 DEF left
    <3>2. after = ValueOr(s[k].start, c.red[a[k]])
      BY <2>1
    <3>3. /\ ValueOr(Own(left), c.red[a[k]]) = left
          /\ ValueOr(SampleValue, c.red[a[k]]) = c.red[a[k]]
      BY ValueOrOwn
    <3> HIDE DEF after
    <3> QED
      BY <3>1, <3>2, <3>3
  <2>2. CASE ~(k < Len(a))
    BY <2>2
  <2> QED
    BY <2>1, <2>2
<1>3. CASE k = 1
  <2>1. left = c.red[a[k]] /\ ~(k > 1)
    BY <1>3 DEF LeftAt
  <2> HIDE DEF after, left
  <2> QED
    BY <1>1, <1>2, <2>1 DEF left
<1>4. CASE k # 1
  <2>1. left = ValueOr(s[k - 1].end, c.red[a[k]]) /\ k > 1
    BY <1>4 DEF LeftAt
  <2> HIDE DEF after, left
  <2>2. CASE s[k - 1].end = SampleValue
    <3>1. left = c.red[a[k]] /\ ValueOr(s[k - 1].end, after) = after
      BY <2>1, <2>2, ValueOrOwn
    <3> QED
      BY <1>1, <1>2, <2>1, <3>1 DEF left
  <2>3. CASE s[k - 1].end # SampleValue
    BY <1>1, <2>1, <2>3 DEF left, ValueOr
  <2> QED
    BY <2>2, <2>3
<1> QED
  BY <1>3, <1>4

\* A fitted ease is what the influences of the call leave of it.
LEMMA ClampedEase ==
  ASSUME NEW c, IsNormal(c), EasesFit(c), c.fitPairs, NEW p \in Int \X Int,
         10 <= p[1], p[1] <= 90, 10 <= p[2], p[2] <= 90
  PROVE  ClampPair(p, c) = p
<1>1. Least(c) \in Int /\ Greatest(c) \in Int
  <2>1. Greatest(c) \in Int
    BY LargerOfTwo DEF Greatest, IsNormal
  <2>2. Least(c) \in Int
    BY SmallerOfTwo DEF Least, IsNormal
  <2> QED
    BY <2>1, <2>2
<1>2. Clamp(p[1], Least(c), Greatest(c)) = p[1]
  BY <1>1 DEF Clamp, EasesFit
<1>3. Clamp(p[2], Least(c), Greatest(c)) = p[2]
  BY <1>1 DEF Clamp, EasesFit
<1>4. p = <<p[1], p[2]>>
  OBVIOUS
<1> QED
  BY <1>2, <1>3, <1>4 DEF ClampPair, ClampBoth

\* The anchors of a chain are samples.
LEMMA ChainIsAscending ==
  ASSUME NEW c, IsNormal(c), NEW a, IsChain(c, a)
  PROVE  /\ Len(a) \in Nat \ {0} /\ c.n > 0
         /\ \A k \in 1 .. Len(a) : a[k] \in 0 .. c.n - 1
<1>1. Len(a) \in Nat \ {0}
  BY DEF IsChain
<1>2. \A S : \A t \in Seq(S) : t \in [1 .. Len(t) -> S]
  OBVIOUS
<1>3. a \in [1 .. Len(a) -> 0 .. c.n - 1]
  BY <1>2 DEF IsChain
<1>4. \A k \in 1 .. Len(a) : a[k] \in 0 .. c.n - 1
  BY <1>3
<1>5. 1 \in 1 .. Len(a)
  BY <1>1
<1> QED
  BY <1>1, <1>4, <1>5 DEF IsNormal

\* The value left at an anchor of judged segments.
LEMMA LeftType ==
  ASSUME NEW c, IsNormal(c), NEW a, IsChain(c, a), NEW s, AreJudged(c, a, s),
         NEW k \in 1 .. Len(a)
  PROVE  LeftAt(c, a, s, k) \in Int
<1>1. a[k] \in 0 .. c.n - 1
  BY ChainIsAscending
<1>2. CASE k = 1
  BY <1>1, <1>2 DEF LeftAt, IsNormal
<1>3. CASE k # 1
  <2>1. k - 1 \in 1 .. Len(s) /\ (k - 1) + 1 = k
    BY <1>3 DEF AreJudged
  <2>2. ValueOr(s[k - 1].end, c.red[a[(k - 1) + 1]]) \in Int
    BY <2>1 DEF AreJudged, IsJudged
  <2> QED
    BY <1>3, <2>1, <2>2 DEF LeftAt
<1> QED
  BY <1>2, <1>3

\* The keys put together from judged segments: one per anchor, with the value
\* left there and the ease of the segment that starts there.
LEMMA AssembledKeys ==
  ASSUME NEW c, NEW a, NEW s, AreJudged(c, a, s)
  PROVE  /\ Len(AssembleKeys(c, a, s)) = Len(a)
         /\ \A k \in 1 .. Len(a) :
              /\ AssembleKeys(c, a, s)[k].at = a[k]
              /\ AssembleKeys(c, a, s)[k].v = LeftAt(c, a, s, k)
         /\ \A k \in 1 .. Len(a) - 1 :
              /\ AssembleKeys(c, a, s)[k].interp = s[k].interp
              /\ AssembleKeys(c, a, s)[k].pair = s[k].pair
<1> DEFINE K == AssembleKeys(c, a, s)
           key(k) == [at |-> a[k], v |-> KeyValue(c, a, s, k),
                      interp |-> IF k < Len(a) THEN s[k].interp ELSE "bezier",
                      pair |-> IF k < Len(a) THEN s[k].pair ELSE Neutral]
<1>1. K = [k \in 1 .. Len(a) |-> key(k)]
  BY DEF AssembleKeys
<1>2. Len(a) \in Nat /\ Len(s) = Len(a) - 1
  BY DEF AreJudged
<1>3. Len(K) = Len(a)
  <2> HIDE DEF key, K
  <2> QED
    BY <1>1, <1>2
<1>4. ASSUME NEW k \in 1 .. Len(a)
      PROVE  K[k].at = a[k] /\ K[k].v = LeftAt(c, a, s, k)
  <2>1. k < Len(a) => s[k].start \in {SampleValue, Own(LeftAt(c, a, s, k))}
    BY <1>2 DEF AreJudged, IsJudged
  <2>2. KeyValue(c, a, s, k) = LeftAt(c, a, s, k)
    BY <1>2, <2>1, KeyValueIsLeft
  <2> HIDE DEF K
  <2> QED
    BY <1>1, <2>2
<1>5. ASSUME NEW k \in 1 .. Len(a) - 1
      PROVE  K[k].interp = s[k].interp /\ K[k].pair = s[k].pair
  <2>1. k \in 1 .. Len(a) /\ k < Len(a)
    BY <1>2
  <2> HIDE DEF K
  <2> QED
    BY <1>1, <2>1
<1> QED
  BY <1>3, <1>4, <1>5

\* They lead from the first sample to the last.
LEMMA AssembledWellFormed ==
  ASSUME NEW c, IsNormal(c), NEW a, IsChain(c, a), a[Len(a)] = c.n - 1,
         NEW s, AreJudged(c, a, s)
  PROVE  WellFormed(c, AssembleKeys(c, a, s))
<1> DEFINE K == AssembleKeys(c, a, s)
<1>1. Len(a) \in Nat \ {0}
  BY ChainIsAscending
<1>2. Len(K) = Len(a) /\ \A k \in 1 .. Len(a) : K[k].at = a[k]
  BY AssembledKeys
<1> HIDE DEF K
<1>3. K # <<>>
  BY <1>1, <1>2
<1>4. K[1].at = 0 /\ K[Len(K)].at = c.n - 1
  BY <1>1, <1>2 DEF IsChain
<1>5. \A k \in 1 .. Len(K) - 1 : K[k].at < K[k + 1].at
  BY <1>1, <1>2 DEF IsChain
<1> QED
  BY <1>3, <1>4, <1>5 DEF WellFormed, K

\* Segments that were each judged from the value the one before left make keys
\* that pass as a whole.
LEMMA JudgedCompose ==
  ASSUME NEW c, IsNormal(c),
         NEW a, IsChain(c, a), a[Len(a)] = c.n - 1, Len(a) >= 2,
         NEW s, AreJudged(c, a, s),
         \A k \in 1 .. Len(s) : s[k].interp = "bezier" => EasesFit(c)
  PROVE  Validates(c, AssembleKeys(c, a, s))
<1> DEFINE K == AssembleKeys(c, a, s)
<1>1. /\ Len(K) = Len(a) /\ Len(K) \in Nat
      /\ \A k \in 1 .. Len(K) : a[k] \in 0 .. c.n - 1
  BY AssembledKeys, ChainIsAscending
<1>2. \A k \in 1 .. Len(K) : K[k].at = a[k] /\ K[k].v = LeftAt(c, a, s, k)
  BY <1>1, AssembledKeys
<1>3. \A k \in 1 .. Len(K) - 1 : K[k].interp = s[k].interp /\ K[k].pair = s[k].pair
  BY <1>1, AssembledKeys
<1>4. \A k \in 1 .. Len(K) : K[k].at \in 0 .. c.n - 1 /\ K[k].v \in Int
  BY <1>1, <1>2, LeftType
<1> HIDE DEF K
<1>5. K[1].at = 0 /\ K[Len(K)].at = c.n - 1
  BY <1>1, <1>2 DEF IsChain
<1>6. ASSUME NEW k \in 1 .. Len(K) - 1
      PROVE  /\ K[k].at < K[k + 1].at
             /\ K[k].interp \in {"linear", "bezier"}
             /\ Progress(K[k], 0, K[k + 1].at - K[k].at) = 0
             /\ Progress(K[k], K[k + 1].at - K[k].at, K[k + 1].at - K[k].at) = Unit
             /\ \A t \in K[k].at .. K[k + 1].at :
                  ChordError(c.src[t], K[k].v, K[k + 1].v,
                             Progress(K[k], t - K[k].at, K[k + 1].at - K[k].at))
                    <= c.tolerance * Unit
  <2>1. k \in 1 .. Len(K) /\ k + 1 \in 1 .. Len(K) /\ k \in 1 .. Len(s)
        /\ (k + 1) - 1 = k /\ k + 1 # 1
    BY <1>1 DEF AreJudged
  <2>2. a[k] < a[k + 1] /\ a[k] \in Nat /\ a[k + 1] \in Nat
        /\ a[k + 1] - a[k] \in Nat \ {0}
    BY <1>1, <2>1 DEF IsChain
  <2>3. K[k].at = a[k] /\ K[k + 1].at = a[k + 1]
    BY <1>2, <2>1
  <2>4. K[k].v = LeftAt(c, a, s, k)
        /\ K[k + 1].v = ValueOr(s[k].end, c.red[a[k + 1]])
    BY <1>2, <2>1 DEF LeftAt
  <2>5. K[k].interp = s[k].interp /\ K[k].pair = s[k].pair
    BY <1>3
  <2>6. IsJudged(c, s[k], a[k], a[k + 1], LeftAt(c, a, s, k))
    BY <2>1 DEF AreJudged
  <2>7. K[k].interp = "bezier" =>
          /\ ClampPair(K[k].pair, c) = K[k].pair
          /\ K[k].pair[1] \in Int /\ 0 <= K[k].pair[1] /\ K[k].pair[1] <= 100
          /\ K[k].pair[2] \in Int /\ 0 <= K[k].pair[2] /\ K[k].pair[2] <= 100
    <3> SUFFICES ASSUME K[k].interp = "bezier"
                 PROVE  /\ ClampPair(K[k].pair, c) = K[k].pair
                        /\ K[k].pair[1] \in Int /\ 0 <= K[k].pair[1]
                        /\ K[k].pair[1] <= 100
                        /\ K[k].pair[2] \in Int /\ 0 <= K[k].pair[2]
                        /\ K[k].pair[2] <= 100
      OBVIOUS
    <3> DEFINE p == s[k].pair
    <3>1. p \in Int \X Int /\ c.fitPairs /\ EasesFit(c)
          /\ 10 <= p[1] /\ p[1] <= 90 /\ 10 <= p[2] /\ p[2] <= 90
      BY <2>1, <2>5, <2>6 DEF IsJudged
    <3> HIDE DEF p
    <3>2. ClampPair(p, c) = p
      BY <3>1, ClampedEase
    <3>3. p[1] \in Int /\ p[2] \in Int
      BY <3>1
    <3>4. 0 <= p[1] /\ p[1] <= 100 /\ 0 <= p[2] /\ p[2] <= 100
      BY <3>1, <3>3
    <3> QED
      BY <2>5, <3>2, <3>3, <3>4 DEF p
  <2>8. ASSUME NEW t \in a[k] .. a[k + 1]
        PROVE  Progress(K[k], t - a[k], a[k + 1] - a[k])
                 = SegmentProgress(c, a[k], a[k + 1], t, s[k].interp, s[k].pair)
    BY <2>5, <2>7 DEF Progress, SegmentProgress
  <2>9. \A t \in a[k] .. a[k + 1] :
          ChordError(c.src[t], K[k].v, K[k + 1].v,
                     Progress(K[k], t - a[k], a[k + 1] - a[k]))
            <= c.tolerance * Unit
    BY <2>4, <2>6, <2>8 DEF IsJudged, ChordHolds
  <2>10. Progress(K[k], 0, a[k + 1] - a[k]) = 0
         /\ Progress(K[k], a[k + 1] - a[k], a[k + 1] - a[k]) = Unit
    <3>1. CASE K[k].interp = "bezier"
      BY <2>2, <2>7, <3>1, EaseEnds DEF Progress
    <3>2. CASE K[k].interp # "bezier"
      BY <2>2, <3>2, LinearEnds DEF Progress
    <3> QED
      BY <3>1, <3>2
  <2> QED
    BY <2>2, <2>3, <2>5, <2>6, <2>9, <2>10 DEF IsJudged
<1> QED
  BY <1>1, <1>4, <1>5, <1>6, KeysCompose DEF K
------------------------------------------------------------------------------
(***************************************************************************)
(* What the fits return is judged.                                         *)
(***************************************************************************)
\* What is found feasible is one of the fits that were tried.
LEMMA OneOfThem ==
  ASSUME NEW fits, TheOne(fits).feasible
  PROVE  TheOne(fits) \in fits
<1>1. ~Infeasible.feasible
  BY DEF Infeasible
<1> QED
  BY <1>1 DEF TheOne

\* The first feasible fit is one of the fits.
LEMMA FirstIsOneOfThem ==
  ASSUME NEW fits, DOMAIN fits \subseteq Nat, FirstFeasible(fits).feasible
  PROVE  \E k \in DOMAIN fits : FirstFeasible(fits) = fits[k] /\ fits[k].feasible
<1> DEFINE ks == {k \in DOMAIN fits : fits[k].feasible}
<1>1. ~Infeasible.feasible
  BY DEF Infeasible
<1>2. FirstFeasible(fits) = IF ks = {} THEN Infeasible ELSE fits[Min(ks)]
  BY DEF FirstFeasible
<1>3. ks # {}
  BY <1>1, <1>2
<1>4. \E z \in ks : \A y \in ks : z <= y
  <2>1. ks \subseteq Nat
    OBVIOUS
  <2> HIDE DEF ks
  <2> QED
    BY <1>3, <2>1, SmallestElement
<1>5. Min(ks) \in ks
  <2> HIDE DEF ks
  <2> QED
    BY <1>4 DEF Min
<1> QED
  BY <1>2, <1>3, <1>5

\* A chord within tolerance from the value left at its start is judged.
LEMMA FittedIsJudged ==
  ASSUME NEW c, IsNormal(c), NEW i \in Nat, NEW j \in Nat, i < j, j < c.n,
         NEW a \in Int, NEW ends, \A e \in ends : e[1] = a /\ e[2] \in Int,
         NEW interp \in {"linear", "bezier"}, NEW pair \in Int \X Int,
         interp = "bezier" =>
           c.fitPairs /\ 10 <= pair[1] /\ pair[1] <= 90
           /\ 10 <= pair[2] /\ pair[2] <= 90,
         Fitted(c, i, j, ends, interp, pair).feasible
  PROVE  IsJudged(c, Fitted(c, i, j, ends, interp, pair), i, j, a)
<1> DEFINE fits == {Segment(interp, pair, Own(e[1]), Own(e[2])) :
             e \in {x \in ends : ChordWithin(c, i, j, x, interp, pair)}}
           seg == Fitted(c, i, j, ends, interp, pair)
<1>1. seg = TheOne(fits)
  BY DEF Fitted
<1>2. seg \in fits
  <2> HIDE DEF fits
  <2> QED
    BY <1>1, OneOfThem
<1> HIDE DEF seg
<1>3. PICK e \in ends : /\ ChordWithin(c, i, j, e, interp, pair)
                        /\ seg = Segment(interp, pair, Own(e[1]), Own(e[2]))
  BY <1>2
<1>4. e[1] = a /\ e[2] \in Int /\ e[1] \in Int
  BY <1>3
<1>5. pair[1] \in Int /\ pair[2] \in Int
  OBVIOUS
<1>6. ChordHolds(c, i, j, e[1], e[2], interp, pair)
  BY <1>3, <1>4, <1>5, WithinHolds
<1>7. /\ seg.pair = pair /\ seg.interp = interp
      /\ seg.start = Own(a) /\ seg.end = Own(e[2])
  BY <1>3, <1>4 DEF Segment
<1>8. ValueOr(seg.end, c.red[j]) = e[2]
  BY <1>7, ValueOrOwn
<1>9. seg \in Segments
  BY <1>3, <1>4 DEF Segment, Segments, Own
<1> HIDE DEF fits
<1>10. ChordHolds(c, i, j, a, ValueOr(seg.end, c.red[j]), seg.interp, seg.pair)
  BY <1>4, <1>6, <1>7, <1>8
<1>11. IsJudged(c, seg, i, j, a)
  BY <1>4, <1>7, <1>8, <1>9, <1>10 DEF IsJudged
<1> QED
  BY <1>11 DEF seg

\* A square is not negative.
LEMMA SquareType ==
  ASSUME NEW x \in Int
  PROVE  x * x \in Nat
<1>1. CASE x >= 0
  BY <1>1
<1>2. CASE x < 0
  <2>1. x * x = (-x) * (-x) /\ -x \in Nat
    BY <1>2
  <2> QED
    BY <2>1
<1> QED
  BY <1>1, <1>2

\* The endpoint fitted to a segment keeps the segment's start.
LEMMA AnchoredEndpointType ==
  ASSUME NEW c, IsNormal(c), NEW i \in Nat, NEW j \in Nat, i < j, j < c.n,
         NEW a \in Int, NEW M \in Int, NEW P \in [i .. j -> Int]
  PROVE  \A e \in AnchoredEndpoint(c, i, j, a, M, P) : e[1] = a /\ e[2] \in Int
<1> DEFINE f == [k \in i .. j |-> P[k] * (c.red[k] * M - (M - P[k]) * a)]
           g == [k \in i .. j |-> P[k] * P[k]]
           num == SumOver(f, i, j)
           den == SumOver(g, i, j)
<1>1. \A k \in i .. j : c.red[k] \in Int /\ P[k] \in Int
  <2>1. \A k \in i .. j : k \in 0 .. c.n - 1
    BY DEF IsNormal
  <2> QED
    BY <2>1 DEF IsNormal
<1>2. f \in [i .. j -> Int]
  <2>1. \A x, y \in Int : x * (y * M - (M - x) * a) \in Int
    OBVIOUS
  <2> QED
    BY <1>1, <2>1
<1>3. g \in [i .. j -> Nat]
  BY <1>1, SquareType
<1>4. num \in Int
  <2>1. \A x, y \in Int : x + y \in Int
    OBVIOUS
  <2> HIDE DEF f
  <2> QED
    BY <1>2, <2>1, SumType, SMTT(30)
<1>5. den \in Nat
  <2>1. \A x, y \in Nat : x + y \in Nat
    OBVIOUS
  <2>2. Nat \subseteq Int /\ 0 \in Nat /\ i <= j
    OBVIOUS
  <2> HIDE DEF g
  <2> QED
    BY <1>3, <2>1, <2>2, SumType, Zenon
<1>6. AnchoredEndpoint(c, i, j, a, M, P)
        = {<<a, RoundDiv(num, d)>> : d \in {den} \ {0}}
  BY DEF AnchoredEndpoint
<1> HIDE DEF num, den
<1>7. den # 0 => RoundDiv(num, den) \in Int
  <2>1. \A x \in Int : \A y \in Nat \ {0} : x \div y \in Int
    OBVIOUS
  <2>2. den # 0 => 2 * num + den \in Int /\ 2 * den \in Nat \ {0}
    BY <1>4, <1>5
  <2> QED
    BY <2>1, <2>2 DEF RoundDiv
<1> QED
  BY <1>6, <1>7

\* A segment fitted with its endpoint is judged from that start.
LEMMA AnchoredIsJudged ==
  ASSUME NEW c, IsNormal(c), NEW i \in Nat, NEW j \in Nat, i < j, j < c.n,
         NEW a \in Int,
         NEW interp \in {"linear", "bezier"}, NEW pair \in Int \X Int,
         interp = "bezier" =>
           c.fitPairs /\ 10 <= pair[1] /\ pair[1] <= 90
           /\ 10 <= pair[2] /\ pair[2] <= 90,
         Anchored(c, i, j, a, interp, pair).feasible
  PROVE  IsJudged(c, Anchored(c, i, j, a, interp, pair), i, j, a)
<1> DEFINE M == Fraction(i, j, interp)
           P == Fractions(c, i, j, interp, pair)
           ends == AnchoredEndpoint(c, i, j, a, M, P)
<1>1. M \in Int
  BY DEF Fraction
<1>2. P \in [i .. j -> Int]
  <2>1. \A x \in Int : x \div 108 \in Int
    OBVIOUS
  <2>2. pair[1] \in Int /\ pair[2] \in Int
    OBVIOUS
  <2> HIDE DEF M
  <2>3. \A k \in i .. j : SegmentProgress(c, i, j, k, interp, pair) \in Int
    BY <2>2, SegmentProgressType
  <2>4. \A k \in i .. j : SegmentProgress(c, i, j, k, interp, pair) * M \in Int
    BY <1>1, <2>3
  <2> QED
    BY <2>1, <2>4 DEF Fractions, Unit, M
<1> HIDE DEF M, P
<1>3. \A e \in ends : e[1] = a /\ e[2] \in Int
  BY <1>1, <1>2, AnchoredEndpointType
<1>4. Anchored(c, i, j, a, interp, pair) = Fitted(c, i, j, ends, interp, pair)
  BY DEF Anchored, M, P
<1> HIDE DEF ends
<1> QED
  BY <1>3, <1>4, FittedIsJudged, ZenonT(30)

\* The samples kept, as for a chord of the reduced path.
Keep == Segment("linear", Neutral, SampleValue, SampleValue)

\* A segment of the forward span keeps the samples at its ends.
LEMMA StrictChordIsJudged ==
  ASSUME NEW c, IsNormal(c), NEW i \in Nat, NEW j \in Nat, i < j, j < c.n,
         FitForwardLongestSpanLinearSegment(c, i, j).feasible
  PROVE  /\ FitForwardLongestSpanLinearSegment(c, i, j) = Keep
         /\ IsJudged(c, Keep, i, j, c.red[i])
<1>1. ~Infeasible.feasible
  BY DEF Infeasible
<1>2. /\ FitForwardLongestSpanLinearSegment(c, i, j) = Keep
      /\ ChordWithin(c, i, j, <<c.red[i], c.red[j]>>, "linear", Neutral)
  BY <1>1 DEF FitForwardLongestSpanLinearSegment, Keep
<1>3. c.red[i] \in Int /\ c.red[j] \in Int
  BY SMTT(30) DEF IsNormal
<1>4. ChordHolds(c, i, j, c.red[i], c.red[j], "linear", Neutral)
  <2> DEFINE ends == <<c.red[i], c.red[j]>>
  <2>1. ends[1] = c.red[i] /\ ends[2] = c.red[j]
        /\ Neutral[1] \in Int /\ Neutral[2] \in Int
    BY DEF Neutral
  <2> HIDE DEF ends
  <2>2. ChordHolds(c, i, j, ends[1], ends[2], "linear", Neutral)
    BY <1>2, <1>3, <2>1, WithinHolds DEF ends
  <2> QED
    BY <2>1, <2>2
<1>5. /\ Keep.pair = Neutral /\ Keep.interp = "linear"
      /\ Keep.start = SampleValue /\ Keep.end = SampleValue /\ Keep \in Segments
  BY DEF Keep, Segment, Segments, SampleValue, Neutral
<1>6. ValueOr(Keep.end, c.red[j]) = c.red[j]
  BY <1>5, ValueOrOwn
<1>7. Neutral \in Int \X Int
  BY DEF Neutral
<1>8. IsJudged(c, Keep, i, j, c.red[i])
  BY <1>3, <1>4, <1>5, <1>6, <1>7 DEF IsJudged
<1> QED
  BY <1>2, <1>8

\* The first ease that fits is judged like any other.
LEMMA AnchoredBezierIsJudged ==
  ASSUME NEW c, IsNormal(c), NEW i \in Nat, NEW j \in Nat, i < j, j < c.n,
         NEW a \in Int, FitAnchoredBezier(c, i, j, a).feasible
  PROVE  IsJudged(c, FitAnchoredBezier(c, i, j, a), i, j, a)
<1> DEFINE Judged(x, pair, fit) ==
             [order |-> x, fit |-> fit,
              err |-> WorstError(c.src, i, j, a, ValueOr(fit.end, a),
                            [k \in i .. j |->
                              SegmentProgress(c, i, j, k, "bezier", pair)])]
           Try(x) == Judged(x, AnchoredPairs[x],
                            Anchored(c, i, j, a, "bezier", AnchoredPairs[x]))
           Best(tries) ==
             {f.fit : f \in {g \in tries : \A h \in tries :
                   g.err < h.err \/ (g.err = h.err /\ g.order <= h.order)}}
           top == Min({3, Max({1, c.maxPairs})})
           best == Best({t \in {Try(x) : x \in 1 .. top} : t.fit.feasible})
           seg == FitAnchoredBezier(c, i, j, a)
<1>1. ~Infeasible.feasible
  BY DEF Infeasible
<1>2. seg = IF ~c.fitPairs THEN Infeasible ELSE TheOne(best)
  BY DEF FitAnchoredBezier
<1>3. c.fitPairs /\ seg = TheOne(best)
  <2> HIDE DEF best
  <2> QED
    BY <1>1, <1>2
<1>4. seg \in best
  <2> HIDE DEF best
  <2> QED
    BY <1>3, OneOfThem
<1> HIDE DEF seg
<1>5. top \in Int /\ top <= 3
  <2> DEFINE more == Max({1, c.maxPairs})
  <2>1. c.maxPairs \in Int /\ 1 \in Int
    BY DEF IsNormal
  <2>2. \A x, y \in Int : Max({x, y}) \in Int
    BY LargerOfTwo
  <2>3. more \in Int
    BY <2>1, <2>2
  <2> HIDE DEF more
  <2>4. Min({3, more}) \in Int /\ Min({3, more}) <= 3
    BY <2>3, SmallerOfTwo
  <2> QED
    BY <2>4 DEF more
<1>6. PICK x \in 1 .. top : seg = Try(x).fit /\ seg.feasible
  <2> HIDE DEF top, Try
  <2> QED
    BY <1>4
<1> HIDE DEF top, best
<1>7. x = 1 \/ x = 2 \/ x = 3
  BY <1>5
<1> DEFINE pair == AnchoredPairs[x]
<1>8. /\ pair \in Int \X Int /\ 10 <= pair[1] /\ pair[1] <= 90
      /\ 10 <= pair[2] /\ pair[2] <= 90
  BY <1>7 DEF AnchoredPairs, Neutral
<1> HIDE DEF pair
<1>9. seg = Anchored(c, i, j, a, "bezier", pair)
  BY <1>6 DEF pair
<1>10. IsJudged(c, seg, i, j, a)
  BY <1>3, <1>6, <1>8, <1>9, AnchoredIsJudged
<1> QED
  BY <1>10 DEF seg

\* Whatever the linear prune takes was judged with the value left at its start.
LEMMA PruneSegmentIsJudged ==
  ASSUME NEW c, IsNormal(c), NEW i \in Nat, NEW j \in Nat, i < j, j < c.n,
         NEW a \in Int, FitFallbackLinearPruneSegment(c, i, j, a).feasible
  PROVE  IsJudged(c, FitFallbackLinearPruneSegment(c, i, j, a), i, j, a)
<1> DEFINE strict == FitForwardLongestSpanLinearSegment(c, i, j)
           linear == Anchored(c, i, j, a, "linear", Neutral)
           bezier == FitAnchoredBezier(c, i, j, a)
           fits == (IF a = c.red[i] THEN <<strict>> ELSE <<>>) \o <<linear, bezier>>
           seg == FitFallbackLinearPruneSegment(c, i, j, a)
<1>1. seg = FirstFeasible(fits)
  BY DEF FitFallbackLinearPruneSegment
<1> HIDE DEF strict, linear, bezier
<1>2. /\ DOMAIN fits \subseteq Nat
      /\ \A k \in DOMAIN fits : \/ fits[k] \in {linear, bezier}
                                 \/ (fits[k] = strict /\ a = c.red[i])
  <2> DEFINE S == {strict, linear, bezier}
             head == IF a = c.red[i] THEN <<strict>> ELSE <<>>
             rest == <<linear, bezier>>
  <2>1. head \in Seq(S) /\ \A k \in 1 .. Len(head) : head[k] = strict /\ a = c.red[i]
    <3>1. CASE a = c.red[i]
      BY <3>1
    <3>2. CASE a # c.red[i]
      <4>1. head = <<>> /\ head \in Seq(S) /\ Len(head) = 0
        BY <3>2
      <4> HIDE DEF head
      <4> QED
        BY <4>1
    <3> QED
      BY <3>1, <3>2
  <2>2. rest \in Seq(S) /\ \A k \in 1 .. Len(rest) : rest[k] \in {linear, bezier}
    OBVIOUS
  <2>3. \A T : \A x, y \in Seq(T) :
          /\ DOMAIN (x \o y) \subseteq Nat
          /\ \A k \in DOMAIN (x \o y) :
               \/ (k \in 1 .. Len(x) /\ (x \o y)[k] = x[k])
               \/ (k - Len(x) \in 1 .. Len(y) /\ (x \o y)[k] = y[k - Len(x)])
    OBVIOUS
  <2> HIDE DEF S, head, rest
  <2>4. fits = head \o rest
    BY DEF head, rest
  <2> HIDE DEF fits
  <2> QED
    BY <2>1, <2>2, <2>3, <2>4, SMTT(30)
<1> HIDE DEF seg, fits
<1>4. \/ (seg = strict /\ a = c.red[i])
      \/ seg = linear
      \/ seg = bezier
  <2>2. PICK k \in DOMAIN fits : seg = fits[k]
    BY <1>1, <1>2, FirstIsOneOfThem DEF seg
  <2> QED
    BY <1>2, <2>2
<1>5. seg.feasible
  BY DEF seg
<1>6. Neutral \in Int \X Int
  BY DEF Neutral
<1>7. IsJudged(c, seg, i, j, a)
  <2>1. CASE seg = strict /\ a = c.red[i]
    BY <1>5, <2>1, StrictChordIsJudged DEF strict
  <2>2. CASE seg = linear
    BY <1>5, <1>6, <2>2, AnchoredIsJudged DEF linear
  <2>3. CASE seg = bezier
    BY <1>5, <2>3, AnchoredBezierIsJudged DEF bezier
  <2> QED
    BY <1>4, <2>1, <2>2, <2>3
<1> QED
  BY <1>7 DEF seg

\* One segment more.
LEMMA JudgedAppend ==
  ASSUME NEW c, IsNormal(c), NEW a, IsChain(c, a), NEW s, AreJudged(c, a, s),
         NEW j \in Nat, a[Len(a)] < j, j < c.n, NEW seg,
         IsJudged(c, seg, a[Len(a)], j, LeftAt(c, a, s, Len(a)))
  PROVE  IsChain(c, Append(a, j)) /\ AreJudged(c, Append(a, j), Append(s, seg))
<1> DEFINE b == Append(a, j)
           t == Append(s, seg)
           L == Len(a)
<1>1. a \in Seq(0 .. c.n - 1) /\ L \in Nat \ {0}
  BY ChainIsAscending DEF IsChain
<1>2. j \in 0 .. c.n - 1
  BY DEF IsNormal
<1>3. /\ b \in Seq(0 .. c.n - 1) /\ Len(b) = L + 1 /\ b[L + 1] = j
      /\ \A k \in 1 .. L : b[k] = a[k]
  <2> DEFINE S == 0 .. c.n - 1
  <2> HIDE DEF S
  <2> QED
    BY <1>1, <1>2 DEF S
<1>4. seg \in Segments /\ s \in Seq(Segments) /\ Len(s) \in Nat /\ L = Len(s) + 1
  BY DEF AreJudged, IsJudged
<1>5. /\ t \in Seq(Segments) /\ Len(t) = L /\ t[L] = seg
      /\ \A k \in 1 .. L - 1 : t[k] = s[k]
  <2> HIDE DEF L
  <2>1. t \in Seq(Segments) /\ Len(t) = Len(s) + 1 /\ t[Len(s) + 1] = seg
    BY <1>4
  <2>2. \A k \in 1 .. Len(s) : t[k] = s[k]
    BY <1>4
  <2> QED
    BY <1>4, <2>1, <2>2
<1> HIDE DEF b, t
<1>6. IsChain(c, b)
  <2>1. b # <<>> /\ b[1] = 0
    BY <1>1, <1>3 DEF IsChain
  <2>2. ASSUME NEW k \in 1 .. Len(b) - 1 PROVE b[k] < b[k + 1]
    <3>1. CASE k = L
      <4>1. b[k] = a[L] /\ b[k + 1] = j
        BY <1>1, <1>3, <3>1
      <4> QED
        BY <4>1
    <3>2. CASE k # L
      <4>1. k \in 1 .. L - 1 /\ k \in 1 .. L /\ k + 1 \in 1 .. L
        BY <1>1, <1>3, <3>2
      <4> QED
        BY <1>3, <4>1 DEF IsChain
    <3> QED
      BY <3>1, <3>2
  <2> QED
    BY <1>3, <2>1, <2>2 DEF IsChain
<1>7. \A k \in 1 .. L : LeftAt(c, b, t, k) = LeftAt(c, a, s, k)
  <2> SUFFICES ASSUME NEW k \in 1 .. L PROVE LeftAt(c, b, t, k) = LeftAt(c, a, s, k)
    OBVIOUS
  <2>1. b[k] = a[k]
    BY <1>3
  <2>2. k # 1 => t[k - 1] = s[k - 1]
    <3>1. k # 1 => k - 1 \in 1 .. L - 1
      BY <1>1
    <3> QED
      BY <1>5, <3>1
  <2> QED
    BY <2>1, <2>2 DEF LeftAt
<1>8. ASSUME NEW k \in 1 .. Len(t)
      PROVE  IsJudged(c, t[k], b[k], b[k + 1], LeftAt(c, b, t, k))
  <2>1. k \in 1 .. L /\ b[k] = a[k] /\ LeftAt(c, b, t, k) = LeftAt(c, a, s, k)
    BY <1>3, <1>5, <1>7
  <2>2. CASE k = L
    <3>1. t[k] = seg /\ b[k + 1] = j
      BY <1>3, <1>5, <2>2
    <3> QED
      BY <2>1, <2>2, <3>1
  <2>3. CASE k # L
    <3>1. k \in 1 .. L - 1 /\ k + 1 \in 1 .. L /\ k \in 1 .. Len(s)
      BY <1>1, <1>4, <2>1, <2>3
    <3>2. t[k] = s[k] /\ b[k + 1] = a[k + 1]
      BY <1>3, <1>5, <3>1
    <3> QED
      BY <2>1, <3>1, <3>2 DEF AreJudged
  <2> QED
    BY <2>2, <2>3
<1>9. AreJudged(c, b, t)
  BY <1>3, <1>5, <1>8 DEF AreJudged
<1> QED
  BY <1>6, <1>9 DEF b, t
------------------------------------------------------------------------------
(***************************************************************************)
(* The invariant of the candidates.                                        *)
(***************************************************************************)
\* A key at every sample.
FallbackKeys(c) ==
  [k \in 1 .. c.n |->
     [at |-> k - 1, v |-> c.red[k - 1],
      interp |-> IF k < c.n THEN "linear" ELSE "bezier", pair |-> Neutral]]

\* A result as a record.
IsResult(r) ==
  /\ r = [keys |-> r.keys, converged |-> r.converged, notes |-> r.notes,
          by |-> r.by]
  /\ r.converged \in BOOLEAN /\ Len(r.keys) \in Nat

\* A converged result leads from the first sample to the last; one that is not
\* the placement, which is measured against other samples, follows the source.
IsGood(c, r) ==
  /\ IsResult(r)
  /\ r.converged => WellFormed(c, r.keys)
  /\ r.converged /\ r.by # "placement" => ShownWithin(c, r.keys)

\* The call stays one the program makes, and has samples once under way.
CallInv ==
  /\ IsNormal(call) /\ HasGaps(call) /\ N \in {o.n : o \in Calls}
  /\ \A m \in MultiMode(call) : IsAnswer(call, m)
  /\ turn \notin {"start", "done"} => N > 0

\* The result at hand, which converges only when it is promoted; a fallback has
\* a key at every sample until it is pruned.
ResultInv ==
  /\ IsGood(call, result)
  /\ turn \in {"start", "placement"} => ~result.converged
  /\ turn = "promote" /\ "fallback" \in result.notes =>
       result.keys = FallbackKeys(call)

\* The multimode result, solved before anything else when it is asked for.
PrecheckInv ==
  /\ \A m \in precheck : IsAnswer(call, m)
  /\ call.multimode /\ turn \notin {"start", "done"} => precheck # {}

\* A prune starts from a result that validates and has judged what it collected.
PruneInv ==
  turn = "prune" =>
    /\ result.converged /\ pruning \in {"promote", "all"}
    /\ pruning = "promote" =>
         /\ result.keys = FallbackKeys(call) /\ result.by = "fallback"
         /\ Validates(call, result.keys)
    /\ IsChain(call, anchors) /\ AreJudged(call, anchors, segments)

\* A forward span has kept the samples at the ends of every segment it took.
SpanInv ==
  turn = "span" =>
    /\ N >= 2 /\ IsChain(call, anchors) /\ AreJudged(call, anchors, segments)
    /\ \A k \in 1 .. Len(segments) : segments[k] = Keep

\* After a cancel nothing has converged but the multimode result of before.
CancelInv ==
  seenCancel =>
    /\ cancelFile /\ turn \notin {"start", "placement", "prune"}
    /\ turn = "promote" => result.keys = <<>> /\ ~result.converged
    /\ turn \in {"all", "multimode"} => ~result.converged
    /\ turn = "span" => anchors = <<0>>
    /\ result.converged =>
         result.by = "multimode" /\ \E m \in precheck : m.keys = result.keys

\* The inductive invariant.
TemporalInv ==
  /\ CallInv /\ ResultInv /\ PrecheckInv /\ PruneInv /\ SpanInv /\ CancelInv

\* The keys at every sample.
LEMMA FallbackAts ==
  ASSUME NEW c, IsNormal(c), c.n > 0
  PROVE  /\ Len(FallbackKeys(c)) = c.n
         /\ DOMAIN FallbackKeys(c) = 1 .. c.n
         /\ \A k \in 1 .. c.n : /\ FallbackKeys(c)[k].at = k - 1
                                /\ FallbackKeys(c)[k].v = c.red[k - 1]
         /\ \A k \in 1 .. c.n - 1 : FallbackKeys(c)[k].interp = "linear"
         /\ WellFormed(c, FallbackKeys(c))
<1> DEFINE K == FallbackKeys(c)
           key(k) == [at |-> k - 1, v |-> c.red[k - 1],
                      interp |-> IF k < c.n THEN "linear" ELSE "bezier",
                      pair |-> Neutral]
<1>1. K = [k \in 1 .. c.n |-> key(k)] /\ c.n \in Nat \ {0}
  BY DEF FallbackKeys, IsNormal
<1>2. Len(K) = c.n /\ DOMAIN K = 1 .. c.n
  <2> HIDE DEF K, key
  <2> QED
    BY <1>1
<1>3. \A k \in 1 .. c.n : K[k].at = k - 1 /\ K[k].v = c.red[k - 1]
  <2> HIDE DEF K
  <2> QED
    BY <1>1
<1>4. \A k \in 1 .. c.n - 1 : K[k].interp = "linear"
  <2>1. \A k \in 1 .. c.n - 1 : k \in 1 .. c.n /\ k < c.n
    BY <1>1
  <2> HIDE DEF K
  <2> QED
    BY <1>1, <2>1
<1> HIDE DEF K
<1>5. WellFormed(c, K)
  <2>1. K # <<>> /\ K[1].at = 0 /\ K[Len(K)].at = c.n - 1
    BY <1>1, <1>2, <1>3
  <2>2. ASSUME NEW k \in 1 .. Len(K) - 1 PROVE K[k].at < K[k + 1].at
    <3>1. k \in 1 .. c.n /\ k + 1 \in 1 .. c.n
      BY <1>1, <1>2
    <3> QED
      BY <1>3, <3>1
  <2> QED
    BY <2>1, <2>2 DEF WellFormed
<1> QED
  BY <1>2, <1>3, <1>4, <1>5 DEF K

\* All samples as keys are within tolerance only if each sample is.
LEMMA FallbackIsExact ==
  ASSUME NEW c, IsNormal(c), c.n > 0, Validates(c, FallbackKeys(c)),
         NEW t \in 0 .. c.n - 1
  PROVE  Unit * Distance(c.src[t], c.red[t]) <= c.tolerance * Unit
<1> DEFINE K == FallbackKeys(c)
<1>1. /\ Len(K) = c.n /\ c.n \in Nat \ {0}
      /\ \A k \in 1 .. c.n : K[k].at = k - 1 /\ K[k].v = c.red[k - 1]
      /\ \A k \in 1 .. c.n - 1 : K[k].interp = "linear"
  BY FallbackAts, SMTT(30) DEF IsNormal
<1>2. KeysError(c, K, t) <= c.tolerance * Unit
  BY DEF Validates
<1> HIDE DEF K
<1>3. t \in Nat /\ K[1].at = 0 /\ K[1].v = c.red[0]
      /\ K[Len(K)].at = c.n - 1 /\ K[Len(K)].v = c.red[c.n - 1]
  BY <1>1
<1>4. CASE t = 0
  <2>1. t <= K[1].at
    BY <1>3, <1>4
  <2>2. KeysError(c, K, t) = Unit * Distance(c.src[t], K[1].v)
    BY <2>1 DEF KeysError
  <2> QED
    BY <1>2, <1>3, <1>4, <2>2
<1>5. CASE t = c.n - 1 /\ t # 0
  <2>1. ~(t <= K[1].at) /\ t >= K[Len(K)].at
    BY <1>1, <1>3, <1>5
  <2>2. KeysError(c, K, t) = Unit * Distance(c.src[t], K[Len(K)].v)
    BY <2>1 DEF KeysError
  <2> QED
    BY <1>2, <1>3, <1>5, <2>2
<1>6. CASE t # c.n - 1 /\ t # 0
  <2>1. ~(t <= K[1].at) /\ ~(t >= K[Len(K)].at)
    BY <1>1, <1>3, <1>6
  <2> DEFINE T == {k \in 1 .. Len(K) - 1 : t <= K[k + 1].at}
  <2>2. t \in T /\ \A k \in T : t <= k
    <3>1. t \in 1 .. Len(K) - 1 /\ t + 1 \in 1 .. c.n /\ (t + 1) - 1 = t
      BY <1>1, <1>3, <1>6
    <3>2. t \in T
      BY <1>1, <3>1
    <3>3. ASSUME NEW k \in T PROVE t <= k
      <4>1. k \in Nat /\ k + 1 \in 1 .. c.n /\ (k + 1) - 1 = k
        BY <1>1
      <4>2. K[k + 1].at = k /\ t <= K[k + 1].at
        BY <1>1, <4>1
      <4> QED
        BY <4>2
    <3> QED
      BY <3>2, <3>3
  <2>3. Min(T) = t
    <3>1. T \subseteq Nat
      OBVIOUS
    <3> HIDE DEF T
    <3>2. Min(T) \in T /\ \A y \in T : Min(T) <= y
      BY <2>2 DEF Min
    <3>3. Min(T) \in Nat /\ t <= Min(T) /\ Min(T) <= t
      BY <2>2, <3>1, <3>2
    <3> QED
      BY <1>3, <3>3
  <2>4. t \in 1 .. c.n - 1 /\ t \in 1 .. c.n /\ t + 1 \in 1 .. c.n
    BY <1>1, <1>3, <1>6
  <2>5. /\ K[t].interp = "linear" /\ K[t].at = t - 1 /\ K[t].v = c.red[t - 1]
        /\ K[t + 1].at = t /\ K[t + 1].v = c.red[t]
    BY <1>1, <2>4
  <2>6. KeysError(c, K, t)
          = ChordError(c.src[t], K[t].v, K[t + 1].v,
                       LinearProgress(t - K[t].at, K[t + 1].at - K[t].at))
    <3> DEFINE left == Min(T)
    <3>1. KeysError(c, K, t)
          = IF K[left].interp = "hold" THEN Unit * Distance(c.src[t], K[left].v)
            ELSE ChordError(c.src[t], K[left].v, K[left + 1].v,
                   IF K[left].interp = "bezier"
                   THEN BezierProgress(t - K[left].at, K[left + 1].at - K[left].at,
                                       K[left].pair)
                   ELSE LinearProgress(t - K[left].at, K[left + 1].at - K[left].at))
      BY <2>1 DEF KeysError
    <3> HIDE DEF left, T
    <3>2. left = t
      BY <2>3 DEF left
    <3> QED
      BY <2>5, <3>1, <3>2
  <2>7. t - K[t].at = 1 /\ K[t + 1].at - K[t].at = 1
    BY <1>3, <2>5
  <2>8. LinearProgress(1, 1) = Unit
    BY LinearEnds
  <2>9. c.src[t] \in Int /\ c.red[t - 1] \in Int /\ c.red[t] \in Int
    <3>1. t - 1 \in 0 .. c.n - 1
      BY <1>1, <2>4
    <3> QED
      BY <3>1 DEF IsNormal
  <2>10. ChordError(c.src[t], c.red[t - 1], c.red[t], Unit)
           = Unit * Distance(c.src[t], c.red[t])
    BY <2>9, ChordEnds
  <2> QED
    BY <1>2, <2>5, <2>6, <2>7, <2>8, <2>10
<1> QED
  BY <1>4, <1>5, <1>6

\* Held, they are shown within tolerance.
LEMMA HoldsAreShown ==
  ASSUME NEW c, IsNormal(c), c.n > 0, Validates(c, FallbackKeys(c))
  PROVE  /\ Len(MarkAsHold(FallbackKeys(c))) = c.n
         /\ WellFormed(c, MarkAsHold(FallbackKeys(c)))
         /\ ShownWithin(c, MarkAsHold(FallbackKeys(c)))
<1> DEFINE F == FallbackKeys(c)
           K == MarkAsHold(F)
           held(k) == IF k < Len(F) THEN [F[k] EXCEPT !.interp = "hold"] ELSE F[k]
<1>1. /\ Len(F) = c.n /\ DOMAIN F = 1 .. c.n /\ c.n \in Nat \ {0}
      /\ \A k \in 1 .. c.n : F[k].at = k - 1 /\ F[k].v = c.red[k - 1]
  BY FallbackAts, SMTT(30) DEF IsNormal
<1>2. \A k \in 1 .. c.n : F[k] = [at |-> F[k].at, v |-> F[k].v,
                                  interp |-> F[k].interp, pair |-> F[k].pair]
  BY DEF FallbackKeys
<1> HIDE DEF F
<1>3. K = [k \in 1 .. c.n |-> held(k)]
  BY <1>1 DEF MarkAsHold
<1>4. \A k \in 1 .. c.n : held(k).at = k - 1 /\ held(k).v = c.red[k - 1]
  BY <1>1, <1>2
<1> HIDE DEF K, held
<1>5. Len(K) = c.n /\ DOMAIN K = 1 .. c.n
  BY <1>1, <1>3
<1>6. \A k \in 1 .. c.n : K[k].at = k - 1 /\ K[k].v = c.red[k - 1]
  BY <1>3, <1>4
<1>7. WellFormed(c, K)
  <2>1. K # <<>> /\ K[1].at = 0 /\ K[Len(K)].at = c.n - 1
    BY <1>1, <1>5, <1>6
  <2>2. ASSUME NEW k \in 1 .. Len(K) - 1 PROVE K[k].at < K[k + 1].at
    <3>1. k \in 1 .. c.n /\ k + 1 \in 1 .. c.n
      BY <1>1, <1>5
    <3> QED
      BY <1>6, <3>1
  <2> QED
    BY <2>1, <2>2 DEF WellFormed
<1>8. ASSUME NEW t \in 0 .. c.n - 1
      PROVE  LET before == {k \in DOMAIN K : K[k].at <= t}
             IN  /\ before # {} /\ K[Max(before)].at = t
                 /\ Unit * Distance(c.src[t], K[Max(before)].v) <= c.tolerance * Unit
  <2> DEFINE before == {k \in DOMAIN K : K[k].at <= t}
  <2>1. t + 1 \in before /\ \A k \in before : k <= t + 1
    <3>1. t + 1 \in 1 .. c.n /\ (t + 1) - 1 = t /\ t <= t
      BY <1>1
    <3>2. t + 1 \in before
      BY <1>5, <1>6, <3>1
    <3>3. ASSUME NEW k \in before PROVE k <= t + 1
      <4>1. k \in 1 .. c.n /\ K[k].at = k - 1 /\ K[k].at <= t
        BY <1>5, <1>6
      <4> QED
        BY <4>1
    <3> QED
      BY <3>2, <3>3
  <2>2. Max(before) = t + 1
    <3>1. before \subseteq Nat
      BY <1>5
    <3> HIDE DEF before
    <3>2. Max(before) \in before /\ \A y \in before : Max(before) >= y
      <4>1. \A y \in before : t + 1 >= y
        BY <2>1, <3>1
      <4> QED
        BY <2>1, <4>1 DEF Max
    <3>3. Max(before) \in Nat /\ t + 1 <= Max(before) /\ Max(before) <= t + 1
      BY <2>1, <3>1, <3>2
    <3> QED
      BY <3>3
  <2>3. K[t + 1].at = t /\ K[t + 1].v = c.red[t]
    <3>1. t + 1 \in 1 .. c.n /\ (t + 1) - 1 = t
      BY <1>1
    <3> QED
      BY <1>6, <3>1
  <2>4. Unit * Distance(c.src[t], c.red[t]) <= c.tolerance * Unit
    BY FallbackIsExact
  <2> HIDE DEF before
  <2>5. /\ before # {} /\ K[Max(before)].at = t
        /\ Unit * Distance(c.src[t], K[Max(before)].v) <= c.tolerance * Unit
    BY <2>1, <2>2, <2>3, <2>4
  <2> QED
    BY <2>5 DEF before
<1>9. ShownWithin(c, K)
  BY <1>8 DEF ShownWithin
<1> QED
  BY <1>5, <1>7, <1>9 DEF K, F

\* Updates of a result, field by field.
IsRecord(r) ==
  r = [keys |-> r.keys, converged |-> r.converged, notes |-> r.notes,
       by |-> r.by]

\* Notes leave the rest as it was.
LEMMA OtherNotes ==
  ASSUME NEW r, IsRecord(r), NEW x
  PROVE  /\ IsRecord([r EXCEPT !.notes = x])
         /\ [r EXCEPT !.notes = x].keys = r.keys
         /\ [r EXCEPT !.notes = x].converged = r.converged
         /\ [r EXCEPT !.notes = x].notes = x
         /\ [r EXCEPT !.notes = x].by = r.by
BY DEF IsRecord

\* The records of a set of records.
LEMMA RecordOf ==
  ASSUME NEW K, NEW C, NEW W, NEW B, NEW r
  PROVE  /\ r \in [keys : K, converged : C, notes : W, by : B] => IsRecord(r)
         /\ IsRecord(r) /\ r.keys \in K /\ r.converged \in C /\ r.notes \in W
            /\ r.by \in B => r \in [keys : K, converged : C, notes : W, by : B]
<1>1. r \in [keys : K, converged : C, notes : W, by : B] => IsRecord(r)
  BY DEF IsRecord
<1>2. IsRecord(r) /\ r.keys \in K /\ r.converged \in C /\ r.notes \in W
      /\ r.by \in B => r \in [keys : K, converged : C, notes : W, by : B]
  BY DEF IsRecord
<1> QED
  BY <1>1, <1>2

\* A result with another verdict and origin.
WithOrigin(r, v, b) == [r EXCEPT !.converged = v, !.by = b]

\* Verdict and origin leave the rest as it was.
LEMMA OtherOrigin ==
  ASSUME NEW r, IsRecord(r), NEW v, NEW b
  PROVE  /\ IsRecord(WithOrigin(r, v, b))
         /\ WithOrigin(r, v, b).keys = r.keys
         /\ WithOrigin(r, v, b).notes = r.notes
         /\ WithOrigin(r, v, b).converged = v
         /\ WithOrigin(r, v, b).by = b
<1> DEFINE R == [keys : {r.keys}, converged : {r.converged, v},
                 notes : {r.notes}, by : {r.by, b}]
<1>1. r \in R
  BY RecordOf
<1>2. WithOrigin(r, v, b) \in R
  BY <1>1 DEF WithOrigin
<1>3. \A e \in R : IsRecord(e)
  BY RecordOf
<1>4. /\ WithOrigin(r, v, b).keys = r.keys
      /\ WithOrigin(r, v, b).notes = r.notes
      /\ WithOrigin(r, v, b).converged = v
      /\ WithOrigin(r, v, b).by = b
  BY <1>1 DEF WithOrigin
<1> HIDE DEF R
<1> QED
  BY <1>2, <1>3, <1>4

\* A result with another verdict and notes.
WithEnd(r, v, x) == [r EXCEPT !.converged = v, !.notes = x]

\* They leave the keys as they were.
LEMMA OtherEnd ==
  ASSUME NEW r, IsRecord(r), NEW v, NEW x
  PROVE  /\ IsRecord(WithEnd(r, v, x))
         /\ WithEnd(r, v, x).keys = r.keys
         /\ WithEnd(r, v, x).converged = v
<1> DEFINE R == [keys : {r.keys}, converged : {r.converged, v},
                 notes : {r.notes, x}, by : {r.by}]
<1>1. r \in R
  BY RecordOf
<1>2. WithEnd(r, v, x) \in R
  BY <1>1 DEF WithEnd
<1>3. \A e \in R : IsRecord(e)
  BY RecordOf
<1>4. /\ WithEnd(r, v, x).keys = r.keys
      /\ WithEnd(r, v, x).converged = v
  BY <1>1 DEF WithEnd
<1> HIDE DEF R
<1> QED
  BY <1>2, <1>3, <1>4

\* A result with other keys.
WithKeys(r, k, b, x) == [r EXCEPT !.keys = k, !.by = b, !.notes = x]

\* Other keys leave the verdict as it was.
LEMMA OtherKeys ==
  ASSUME NEW r, IsRecord(r), NEW k, NEW b, NEW x
  PROVE  /\ IsRecord(WithKeys(r, k, b, x))
         /\ WithKeys(r, k, b, x).keys = k
         /\ WithKeys(r, k, b, x).converged = r.converged
         /\ WithKeys(r, k, b, x).by = b
<1> DEFINE R == [keys : {r.keys, k}, converged : {r.converged},
                 notes : {r.notes, x}, by : {r.by, b}]
<1>1. r \in R
  BY RecordOf
<1>2. WithKeys(r, k, b, x) \in R
  BY <1>1 DEF WithKeys
<1>3. \A e \in R : IsRecord(e)
  BY RecordOf
<1>4. /\ WithKeys(r, k, b, x).keys = k
      /\ WithKeys(r, k, b, x).converged = r.converged
      /\ WithKeys(r, k, b, x).by = b
  BY <1>1 DEF WithKeys
<1> HIDE DEF R
<1> QED
  BY <1>2, <1>3, <1>4

\* A note leaves a result as good as it was.
LEMMA NoteStays ==
  ASSUME NEW c, NEW r, IsGood(c, r), NEW note
  PROVE  /\ IsGood(c, AppendNote(r, note))
         /\ AppendNote(r, note).keys = r.keys
         /\ AppendNote(r, note).converged = r.converged
         /\ AppendNote(r, note).by = r.by
         /\ AppendNote(r, note).notes = r.notes \cup {note}
<1> DEFINE q == AppendNote(r, note)
<1>1. IsRecord(r) /\ q = [r EXCEPT !.notes = r.notes \cup {note}]
  BY DEF AppendNote, IsGood, IsResult, IsRecord
<1> HIDE DEF q
<1>2. /\ q.keys = r.keys /\ q.converged = r.converged /\ q.by = r.by
      /\ q.notes = r.notes \cup {note} /\ IsRecord(q)
  BY <1>1, OtherNotes
<1>4. IsGood(c, q)
  BY <1>2 DEF IsGood, IsResult, IsRecord
<1> QED
  BY <1>2, <1>4 DEF q

\* What is not converged promises nothing.
LEMMA UnconvergedIsGood ==
  ASSUME NEW c, NEW keys, NEW notes, NEW by, Len(keys) \in Nat
  PROVE  IsGood(c, [keys |-> keys, converged |-> FALSE, notes |-> notes,
                    by |-> by])
BY DEF IsGood, IsResult

\* An empty result promises nothing, nor does the report of a cancel.
LEMMA EmptyIsGood ==
  ASSUME NEW c
  PROVE  /\ IsGood(c, EmptyKeys) /\ IsGood(c, Cancelled)
         /\ ~EmptyKeys.converged /\ ~Cancelled.converged
         /\ EmptyKeys.keys = <<>> /\ Cancelled.keys = <<>>
         /\ EmptyKeys.notes = {} /\ Cancelled.notes = {"cancelled"}
<1>1. EmptyKeys = [keys |-> <<>>, converged |-> FALSE, notes |-> {},
                   by |-> "none"]
  BY DEF EmptyKeys
<1>2. /\ IsRecord(Cancelled) /\ Cancelled.keys = <<>>
      /\ ~Cancelled.converged /\ Cancelled.notes = {"cancelled"}
  <2>1. IsRecord(EmptyKeys) /\ EmptyKeys.keys = <<>> /\ ~EmptyKeys.converged
    BY <1>1 DEF IsRecord
  <2>2. EmptyKeys.converged \in BOOLEAN
    BY <1>1
  <2> QED
    BY <2>1, OtherNotes, SMTT(30) DEF Cancelled
<1>3. Len(<<>>) \in Nat
  OBVIOUS
<1>4. Cancelled.converged \in BOOLEAN
  <2>1. IsRecord(EmptyKeys) /\ EmptyKeys.converged \in BOOLEAN
    BY <1>1 DEF IsRecord
  <2> QED
    BY <2>1, OtherNotes DEF Cancelled
<1>5. IsGood(c, EmptyKeys)
  BY <1>1, <1>3, UnconvergedIsGood
<1>6. IsGood(c, Cancelled)
  BY <1>2, <1>3, <1>4 DEF IsGood, IsResult, IsRecord
<1>7. /\ ~EmptyKeys.converged /\ EmptyKeys.keys = <<>> /\ EmptyKeys.notes = {}
  BY <1>1
<1> QED
  BY <1>2, <1>5, <1>6, <1>7

\* What the multimode solver promises is good.
LEMMA AnswerIsGood ==
  ASSUME NEW c, NEW m, IsAnswer(c, m)
  PROVE  IsGood(c, m) /\ m.by = "multimode"
<1>1. /\ m.keys \in Seq([at : Int, v : Int, interp : {"linear", "bezier"},
                         pair : Int \X Int])
      /\ m.converged \in BOOLEAN /\ m.by = "multimode"
      /\ m = [keys |-> m.keys, converged |-> m.converged, notes |-> m.notes,
              by |-> m.by]
  BY DEF IsAnswer
<1>2. Len(m.keys) \in Nat
  BY <1>1
<1> QED
  BY <1>1, <1>2 DEF IsAnswer, IsGood, IsResult, ShownWithin

\* The first anchor is a chain with nothing to judge.
LEMMA NewChain ==
  ASSUME NEW c, IsNormal(c), c.n > 0
  PROVE  IsChain(c, <<0>>) /\ AreJudged(c, <<0>>, <<>>)
<1>1. 0 \in 0 .. c.n - 1
  BY DEF IsNormal
<1>2. <<0>> \in Seq(0 .. c.n - 1)
  BY <1>1
<1>3. IsChain(c, <<0>>)
  BY <1>2 DEF IsChain
<1>4. <<>> \in Seq(Segments) /\ Len(<<>>) = 0 /\ Len(<<0>>) = 1
  OBVIOUS
<1> QED
  BY <1>3, <1>4 DEF AreJudged

\* A chain to the last sample makes keys that lead there.
LEMMA ChainWellFormed ==
  ASSUME NEW c, NEW a, NEW s, Len(a) \in Nat \ {0}, a[1] = 0, a[Len(a)] = c.n - 1,
         \A k \in 1 .. Len(a) - 1 : a[k] < a[k + 1]
  PROVE  WellFormed(c, AssembleKeys(c, a, s)) /\ Len(AssembleKeys(c, a, s)) = Len(a)
<1> DEFINE K == AssembleKeys(c, a, s)
           key(k) == [at |-> a[k], v |-> KeyValue(c, a, s, k),
                      interp |-> IF k < Len(a) THEN s[k].interp ELSE "bezier",
                      pair |-> IF k < Len(a) THEN s[k].pair ELSE Neutral]
<1>1. K = [k \in 1 .. Len(a) |-> key(k)]
  BY DEF AssembleKeys
<1>2. Len(K) = Len(a)
  <2> HIDE DEF key, K
  <2> QED
    BY <1>1
<1>3. \A k \in 1 .. Len(a) : K[k].at = a[k]
  <2>1. \A k : key(k).at = a[k]
    OBVIOUS
  <2> HIDE DEF K, key
  <2> QED
    BY <1>1, <2>1
<1> HIDE DEF K
<1>4. K # <<>> /\ K[1].at = 0 /\ K[Len(K)].at = c.n - 1
  BY <1>2, <1>3
<1>5. ASSUME NEW k \in 1 .. Len(K) - 1 PROVE K[k].at < K[k + 1].at
  <2>1. k \in 1 .. Len(a) /\ k + 1 \in 1 .. Len(a) /\ k \in 1 .. Len(a) - 1
    BY <1>2
  <2> QED
    BY <1>3, <2>1
<1> QED
  BY <1>2, <1>4, <1>5 DEF WellFormed, K

\* A placement is a chain, or all samples and not converged.
LEMMA PlacedIsGood ==
  ASSUME CallInv, N > 0, NEW r \in Placed
  PROVE  /\ IsGood(call, r)
         /\ "fallback" \in r.notes => r.keys = FallbackKeys(call)
<1>1. \/ \E a \in Chains[N] : r = PlacementKeys(a, Fits(a), TRUE)
      \/ r = PlacementKeys(FallbackAnchors, FallbackSegments, FALSE)
  <2> DEFINE placements == {p \in {[a |-> a, s |-> Fits(a)] : a \in Chains[N]} :
                              IsPlacement(p.a, p.s)}
             shortest == {p \in placements : call.allowRelaxed
                            \/ \A q \in placements : Len(p.a) <= Len(q.a)}
             fallback == PlacementKeys(FallbackAnchors, FallbackSegments, FALSE)
  <2>1. Placed = {PlacementKeys(p.a, p.s, TRUE) : p \in shortest}
                 \cup (IF call.allowRelaxed \/ placements = {}
                       THEN {fallback} ELSE {})
    BY DEF Placed
  <2>2. \A p \in shortest : \E a \in Chains[N] : p.a = a /\ p.s = Fits(a)
    OBVIOUS
  <2> HIDE DEF placements, shortest, fallback
  <2>3. CASE r = fallback
    BY <2>3 DEF fallback
  <2>4. CASE r # fallback
    <3>1. PICK p \in shortest : r = PlacementKeys(p.a, p.s, TRUE)
      BY <2>1, <2>4
    <3> QED
      BY <2>2, <3>1
  <2> QED
    BY <2>3, <2>4
<1>2. N \in Nat \ {0}
  BY DEF CallInv, IsNormal, N
<1>3. ASSUME NEW a \in Chains[N], r = PlacementKeys(a, Fits(a), TRUE)
      PROVE  /\ IsGood(call, r)
             /\ "fallback" \in r.notes => r.keys = FallbackKeys(call)
  <2>1. a \in {b \in UNION {[1 .. k -> 0 .. N - 1] : k \in 1 .. N} :
                 /\ b[1] = 0 /\ b[Len(b)] = N - 1
                 /\ \A k \in 2 .. Len(b) : b[k - 1] < b[k]}
    BY <1>3 DEF Chains, CallInv
  <2>2. PICK z \in 1 .. N : a \in [1 .. z -> 0 .. N - 1]
    BY <2>1
  <2>3. Len(a) = z
    <3> DEFINE S == 0 .. N - 1
    <3> HIDE DEF S
    <3>1. z \in Nat /\ a \in [1 .. z -> S]
      BY <1>2, <2>2 DEF S
    <3> QED
      BY <3>1
  <2>4. Len(a) \in Nat \ {0} /\ a[1] = 0 /\ a[Len(a)] = call.n - 1
    BY <1>2, <2>1, <2>2, <2>3 DEF N
  <2>5. ASSUME NEW k \in 1 .. Len(a) - 1 PROVE a[k] < a[k + 1]
    <3>1. k + 1 \in 2 .. Len(a) /\ (k + 1) - 1 = k
      BY <2>4
    <3> QED
      BY <2>1, <3>1
  <2> DEFINE K == AssembleKeys(call, a, Fits(a))
  <2>6. WellFormed(call, K) /\ Len(K) \in Nat
    BY <2>4, <2>5, ChainWellFormed
  <2> HIDE DEF K
  <2>7. r = [keys |-> K, converged |-> TRUE, notes |-> {}, by |-> "placement"]
    BY <1>3 DEF PlacementKeys, K
  <2> QED
    BY <2>6, <2>7 DEF IsGood, IsResult
<1>4. ASSUME r = PlacementKeys(FallbackAnchors, FallbackSegments, FALSE)
      PROVE  /\ IsGood(call, r)
             /\ "fallback" \in r.notes => r.keys = FallbackKeys(call)
  <2> DEFINE K == AssembleKeys(call, FallbackAnchors, FallbackSegments)
  <2>1. r = [keys |-> K, converged |-> FALSE, notes |-> {"fallback"},
             by |-> "placement"]
    BY <1>4 DEF PlacementKeys
  <2>2. Len(FallbackAnchors) = N /\ \A k \in 1 .. N : FallbackAnchors[k] = k - 1
    BY <1>2 DEF FallbackAnchors
  <2>3. \A k \in 1 .. N - 1 :
          /\ FallbackSegments[k].interp = "linear"
          /\ FallbackSegments[k].pair = Neutral
          /\ FallbackSegments[k].start = SampleValue
          /\ FallbackSegments[k].end = SampleValue
    BY <1>2 DEF FallbackSegments, Segment
  <2>4. ASSUME NEW k \in 1 .. N
        PROVE  KeyValue(call, FallbackAnchors, FallbackSegments, k) = call.red[k - 1]
    <3>1. k < N => ValueOr(FallbackSegments[k].start, call.red[k - 1]) = call.red[k - 1]
      <4>1. k < N => k \in 1 .. N - 1
        BY <1>2
      <4> QED
        BY <2>3, <4>1, ValueOrOwn
    <3>2. \A x : k > 1 => ValueOr(FallbackSegments[k - 1].end, x) = x
      <4>1. k > 1 => k - 1 \in 1 .. N - 1
        BY <1>2
      <4>2. k > 1 => FallbackSegments[k - 1].end = SampleValue
        BY <2>3, <4>1
      <4> QED
        BY <4>2, ValueOrOwn
    <3>3. FallbackAnchors[k] = k - 1 /\ Len(FallbackAnchors) = N
      BY <2>2
    <3> QED
      BY <3>1, <3>2, <3>3 DEF KeyValue
  <2>5. K = FallbackKeys(call)
    <3>1. \A k \in 1 .. N : k < N => k \in 1 .. N - 1
      BY <1>2
    <3> DEFINE key(k) == [at |-> FallbackAnchors[k],
                 v |-> KeyValue(call, FallbackAnchors, FallbackSegments, k),
                 interp |-> IF k < N THEN FallbackSegments[k].interp ELSE "bezier",
                 pair |-> IF k < N THEN FallbackSegments[k].pair ELSE Neutral]
               want(k) == [at |-> k - 1, v |-> call.red[k - 1],
                 interp |-> IF k < N THEN "linear" ELSE "bezier",
                 pair |-> Neutral]
    <3>2. K = [k \in 1 .. N |-> key(k)]
      BY <2>2 DEF AssembleKeys
    <3>3. FallbackKeys(call) = [k \in 1 .. N |-> want(k)]
      BY DEF FallbackKeys, N
    <3>4. \A k \in 1 .. N : key(k) = want(k)
      BY <2>2, <2>3, <2>4, <3>1
    <3> HIDE DEF key, want, K
    <3> QED
      BY <3>2, <3>3, <3>4
  <2>6. Len(K) \in Nat
    <3>1. Len(FallbackKeys(call)) = N
      BY FallbackAts DEF CallInv, N
    <3> QED
      BY <1>2, <2>5, <3>1
  <2> HIDE DEF K
  <2> QED
    BY <2>1, <2>5, <2>6, UnconvergedIsGood
<1> QED
  BY <1>1, <1>3, <1>4
------------------------------------------------------------------------------
(***************************************************************************)
(* One lemma per step.                                                     *)
(***************************************************************************)
LEMMA InvInit ==
  ASSUME TemporalInit
  PROVE  TemporalInv
<1>1. PICK o \in Calls : call = Normalize(o)
  BY DEF TemporalInit
<1>2. /\ turn = "start" /\ result = EmptyKeys /\ precheck = {}
      /\ seenCancel = FALSE
  BY DEF TemporalInit
<1>3. IsCall(o) /\ \A m \in MultiMode(Normalize(o)) : IsAnswer(Normalize(o), m)
  BY CallsAssumption, MultiModeAssumption
<1>4. IsNormal(call) /\ N = o.n /\ HasGaps(call)
  BY <1>1, <1>3, NormalizedCall, NormalizedGaps DEF N
<1>5. CallInv
  BY <1>1, <1>2, <1>3, <1>4 DEF CallInv
<1>6. ResultInv
  BY <1>2, EmptyIsGood DEF ResultInv
<1>7. PrecheckInv /\ PruneInv /\ SpanInv /\ CancelInv
  BY <1>2 DEF PrecheckInv, PruneInv, SpanInv, CancelInv
<1> QED
  BY <1>5, <1>6, <1>7 DEF TemporalInv

\* A step that does not replace the call.
LEMMA CallStays ==
  ASSUME CallInv, call' = call, turn' \notin {"start", "done"} => N > 0
  PROVE  CallInv'
BY DEF CallInv, N

\* A step that changes nothing.
LEMMA StutterStep ==
  ASSUME TemporalInv, UNCHANGED temporalVars
  PROVE  TemporalInv'
<1>1. /\ call' = call /\ turn' = turn /\ result' = result /\ precheck' = precheck
      /\ anchors' = anchors /\ segments' = segments /\ pruning' = pruning
      /\ cancelFile' = cancelFile /\ seenCancel' = seenCancel
  BY DEF temporalVars, work, host
<1>2. CallInv'
  BY <1>1, CallStays DEF TemporalInv, CallInv
<1>3. ResultInv' /\ PrecheckInv' /\ CancelInv'
  BY <1>1 DEF TemporalInv, ResultInv, PrecheckInv, CancelInv
<1>4. PruneInv' /\ SpanInv'
  BY <1>1 DEF TemporalInv, PruneInv, SpanInv, N
<1> QED
  BY <1>2, <1>3, <1>4 DEF TemporalInv

\* The cancel file appears.
LEMMA HostCancelsStep ==
  ASSUME TemporalInv, HostCancels
  PROVE  TemporalInv'
<1>1. /\ call' = call /\ turn' = turn /\ result' = result /\ precheck' = precheck
      /\ anchors' = anchors /\ segments' = segments /\ pruning' = pruning
      /\ cancelFile' = TRUE /\ seenCancel' = seenCancel
  BY DEF HostCancels, work
<1>2. CallInv'
  BY <1>1, CallStays DEF TemporalInv, CallInv
<1>3. ResultInv' /\ PrecheckInv' /\ CancelInv'
  BY <1>1 DEF TemporalInv, ResultInv, PrecheckInv, CancelInv
<1>4. PruneInv' /\ SpanInv'
  BY <1>1 DEF TemporalInv, PruneInv, SpanInv, N
<1> QED
  BY <1>2, <1>3, <1>4 DEF TemporalInv

\* A call that is turned away.
LEMMA IneligibleStep ==
  ASSUME TemporalInv, Ineligible
  PROVE  TemporalInv'
<1>1. /\ call' = call /\ turn = "start" /\ turn' = "done"
      /\ result' = AppendNote(EmptyKeys, call.input)
      /\ precheck' = precheck /\ seenCancel' = seenCancel
  BY DEF Ineligible, Become, host
<1>2. IsGood(call, AppendNote(EmptyKeys, call.input))
  BY EmptyIsGood, NoteStays
<1>3. ~seenCancel
  BY <1>1 DEF TemporalInv, CancelInv
<1>4. CallInv'
  BY <1>1, CallStays DEF TemporalInv
<1>5. ResultInv'
  BY <1>1, <1>2 DEF ResultInv
<1>6. PrecheckInv' /\ PruneInv' /\ SpanInv' /\ CancelInv'
  BY <1>1, <1>3 DEF TemporalInv, PrecheckInv, PruneInv, SpanInv, CancelInv
<1> QED
  BY <1>4, <1>5, <1>6 DEF TemporalInv

\* A call with samples has some.
LEMMA SampledCall ==
  ASSUME CallInv, call.input = "ok"
  PROVE  N > 0
BY DEF CallInv, IsNormal, N

\* The multimode solver answers before the placement, or is cancelled.
LEMMA PrecheckStep ==
  ASSUME TemporalInv, PrecheckMultiMode
  PROVE  TemporalInv'
<1>1. /\ call' = call /\ turn = "start" /\ call.input = "ok" /\ call.multimode
      /\ seenCancel' = (seenCancel \/ cancelFile) /\ cancelFile' = cancelFile
  BY DEF PrecheckMultiMode, Poll
<1>2. N > 0 /\ CallInv
  BY <1>1, SampledCall DEF TemporalInv
<1>3. CallInv'
  BY <1>1, <1>2, CallStays
<1>4. ~seenCancel /\ IsGood(call, result) /\ ~result.converged
  BY <1>1 DEF TemporalInv, CancelInv, ResultInv
<1>5. CASE cancelFile
  <2>1. result' = Cancelled /\ turn' = "done" /\ precheck' = precheck
    BY <1>5 DEF PrecheckMultiMode, Become
  <2>2. ResultInv'
    BY <1>1, <2>1, EmptyIsGood DEF ResultInv
  <2>3. CancelInv'
    BY <1>1, <1>5, <2>1, EmptyIsGood DEF CancelInv
  <2>4. PrecheckInv' /\ PruneInv' /\ SpanInv'
    BY <1>1, <2>1 DEF TemporalInv, PrecheckInv, PruneInv, SpanInv
  <2> QED
    BY <1>3, <2>2, <2>3, <2>4 DEF TemporalInv
<1>6. CASE ~cancelFile
  <2>1. PICK m \in MultiMode(call) :
          IF MultiModeFastAccepts(m)
          THEN /\ Become(AppendNote(m, "precheck"), "forward")
               /\ precheck' = {m}
          ELSE /\ turn' = "placement" /\ precheck' = {m}
               /\ UNCHANGED result
    BY <1>6 DEF PrecheckMultiMode
  <2>2. IsAnswer(call, m) /\ precheck' = {m}
    BY <1>2, <2>1 DEF CallInv
  <2>3. ~seenCancel'
    BY <1>1, <1>4, <1>6
  <2>4. CASE MultiModeFastAccepts(m)
    <3>1. result' = AppendNote(m, "precheck") /\ turn' = "forward"
      BY <2>1, <2>4 DEF Become
    <3>2. IsGood(call, AppendNote(m, "precheck"))
      BY <2>2, AnswerIsGood, NoteStays
    <3>3. ResultInv'
      BY <1>1, <3>1, <3>2 DEF ResultInv
    <3>4. PrecheckInv' /\ PruneInv' /\ SpanInv' /\ CancelInv'
      BY <1>1, <2>2, <2>3, <3>1 DEF PrecheckInv, PruneInv, SpanInv, CancelInv
    <3> QED
      BY <1>3, <3>3, <3>4 DEF TemporalInv
  <2>5. CASE ~MultiModeFastAccepts(m)
    <3>1. result' = result /\ turn' = "placement"
      BY <2>1, <2>5
    <3>2. ResultInv'
      BY <1>1, <1>4, <3>1 DEF ResultInv
    <3>3. PrecheckInv' /\ PruneInv' /\ SpanInv' /\ CancelInv'
      BY <1>1, <2>2, <2>3, <3>1 DEF PrecheckInv, PruneInv, SpanInv, CancelInv
    <3> QED
      BY <1>3, <3>2, <3>3 DEF TemporalInv
  <2> QED
    BY <2>4, <2>5
<1> QED
  BY <1>5, <1>6

\* The placement answers.
LEMMA PlacementStep ==
  ASSUME TemporalInv, SolvePlacement
  PROVE  TemporalInv'
<1>1. /\ call' = call /\ turn' = "promote" /\ precheck' = precheck
      /\ seenCancel' = (seenCancel \/ cancelFile) /\ cancelFile' = cancelFile
      /\ \/ turn = "placement"
         \/ turn = "start" /\ call.input = "ok" /\ ~call.multimode
  BY DEF SolvePlacement, Poll, Become
<1>2. N > 0 /\ CallInv
  BY <1>1, SampledCall DEF TemporalInv, CallInv
<1>3. CallInv'
  BY <1>1, <1>2, CallStays
<1>4. ~seenCancel
  BY <1>1 DEF TemporalInv, CancelInv
<1>5. PrecheckInv'
  <2>1. call.multimode => turn \notin {"start", "done"}
    BY <1>1
  <2> QED
    BY <1>1, <2>1 DEF TemporalInv, PrecheckInv
<1>6. PruneInv' /\ SpanInv'
  BY <1>1 DEF PruneInv, SpanInv
<1>7. CASE cancelFile
  <2>1. result' = AppendNote(Cancelled, "temporal_solver")
    BY <1>7 DEF SolvePlacement, Become
  <2>2. /\ IsGood(call, result') /\ result'.keys = <<>> /\ ~result'.converged
        /\ result'.notes = {"cancelled"} \cup {"temporal_solver"}
    <3>1. /\ IsGood(call, Cancelled) /\ ~Cancelled.converged
          /\ Cancelled.keys = <<>> /\ Cancelled.notes = {"cancelled"}
      BY EmptyIsGood
    <3>2. /\ IsGood(call, result') /\ result'.keys = Cancelled.keys
          /\ result'.converged = Cancelled.converged
          /\ result'.notes = Cancelled.notes \cup {"temporal_solver"}
      BY <2>1, <3>1, NoteStays
    <3> QED
      BY <3>1, <3>2
  <2>3. "fallback" \notin result'.notes
    BY <2>2
  <2>4. ResultInv'
    BY <1>1, <2>2, <2>3 DEF ResultInv
  <2>5. CancelInv'
    BY <1>1, <1>7, <2>2 DEF CancelInv
  <2> QED
    BY <1>3, <1>5, <1>6, <2>4, <2>5 DEF TemporalInv
<1>8. CASE ~cancelFile
  <2>1. PICK r \in Placed : result' = AppendNote(r, "temporal_solver")
    BY <1>8 DEF SolvePlacement, Become
  <2>2. /\ IsGood(call, r)
        /\ "fallback" \in r.notes => r.keys = FallbackKeys(call)
    BY <1>2, PlacedIsGood
  <2>3. /\ IsGood(call, result') /\ result'.keys = r.keys
        /\ result'.notes = r.notes \cup {"temporal_solver"}
    BY <2>1, <2>2, NoteStays
  <2>4. "fallback" \in result'.notes => result'.keys = FallbackKeys(call)
    BY <2>2, <2>3
  <2>5. ResultInv'
    BY <1>1, <2>3, <2>4 DEF ResultInv
  <2>6. CancelInv'
    BY <1>1, <1>4, <1>8 DEF CancelInv
  <2> QED
    BY <1>3, <1>5, <1>6, <2>5, <2>6 DEF TemporalInv
<1> QED
  BY <1>7, <1>8

\* The keys of a fallback that validated, held.
LEMMA HeldFallback ==
  ASSUME NEW c, IsNormal(c), c.n > 0, NEW r, IsGood(c, r), r.converged,
         r.keys = FallbackKeys(c), Validates(c, r.keys)
  PROVE  /\ IsGood(c, HoldFallback(r)) /\ HoldFallback(r).converged
         /\ Len(HoldFallback(r).keys) = Len(r.keys)
         /\ HoldFallback(r).by = r.by
<1> DEFINE q == AppendNote(r, "hold_export")
           h == HoldFallback(r)
<1>1. /\ IsGood(c, q) /\ q.keys = r.keys /\ q.converged = r.converged
      /\ q.by = r.by
  <2>1. IsGood(c, q)
    BY NoteStays
  <2>2. q.keys = r.keys
    BY NoteStays
  <2>3. q.converged = r.converged
    BY NoteStays
  <2>4. q.by = r.by
    BY NoteStays
  <2> QED
    BY <2>1, <2>2, <2>3, <2>4
<1>2. h = [q EXCEPT !.keys = MarkAsHold(q.keys)]
  BY DEF HoldFallback
<1> HIDE DEF q, h
<1>3. IsRecord(q)
  BY <1>1 DEF IsGood, IsResult, IsRecord
<1>4. /\ IsRecord(h) /\ h.keys = MarkAsHold(q.keys)
      /\ h.converged = q.converged /\ h.by = q.by
  BY <1>2, <1>3 DEF IsRecord
<1>5. /\ Len(MarkAsHold(FallbackKeys(c))) = c.n
      /\ WellFormed(c, MarkAsHold(FallbackKeys(c)))
      /\ ShownWithin(c, MarkAsHold(FallbackKeys(c)))
      /\ Len(FallbackKeys(c)) = c.n /\ c.n \in Nat
  BY HoldsAreShown, FallbackAts DEF IsNormal
<1>6. IsGood(c, h)
  BY <1>1, <1>4, <1>5 DEF IsGood, IsResult, IsRecord
<1> QED
  BY <1>1, <1>4, <1>5, <1>6 DEF h

\* The result of a fallback once promoted.
LEMMA PromotedFallback ==
  ASSUME NEW c, IsNormal(c), c.n > 0, NEW r, IsResult(r),
         r.keys = FallbackKeys(c), Validates(c, r.keys)
  PROVE  LET p == [r EXCEPT !.converged = TRUE, !.by = "fallback"]
         IN  /\ IsGood(c, p) /\ p.converged /\ p.by = "fallback"
             /\ p.keys = r.keys /\ p.notes = r.notes
<1> DEFINE p == [r EXCEPT !.converged = TRUE, !.by = "fallback"]
<1>1. /\ IsRecord(p) /\ p.keys = r.keys /\ p.notes = r.notes
      /\ p.converged = TRUE /\ p.by = "fallback"
  <2>1. IsRecord(r)
    BY DEF IsResult, IsRecord
  <2>2. PICK yes : yes = TRUE
    OBVIOUS
  <2>3. p = WithOrigin(r, yes, "fallback")
    BY <2>2 DEF WithOrigin
  <2> HIDE DEF p
  <2>4. IsRecord(p) /\ p.keys = r.keys /\ p.notes = r.notes
    BY <2>1, <2>3, OtherOrigin
  <2>5. p.converged = yes
    BY <2>1, <2>3, OtherOrigin
  <2>6. p.by = "fallback"
    BY <2>1, <2>3, OtherOrigin
  <2> QED
    BY <2>2, <2>4, <2>5, <2>6
<1> HIDE DEF p
<1>2. WellFormed(c, r.keys) /\ ShownWithin(c, r.keys)
  BY FallbackAts DEF ShownWithin
<1>3. IsGood(c, p)
  BY <1>1, <1>2 DEF IsGood, IsResult, IsRecord
<1>4. /\ IsGood(c, p) /\ p.converged /\ p.by = "fallback"
      /\ p.keys = r.keys /\ p.notes = r.notes
  BY <1>1, <1>3
<1> QED
  BY <1>4 DEF p

\* A fallback is promoted, pruned or left.
LEMMA PromoteStep ==
  ASSUME TemporalInv, Promote
  PROVE  TemporalInv'
<1>1. /\ call' = call /\ turn = "promote" /\ precheck' = precheck
      /\ seenCancel' = seenCancel /\ cancelFile' = cancelFile
  BY DEF Promote, host
<1>2. N > 0 /\ CallInv /\ IsNormal(call) /\ N = call.n
  BY <1>1 DEF TemporalInv, CallInv, N
<1>3. CallInv'
  BY <1>1, <1>2, CallStays
<1>4. /\ IsGood(call, result)
      /\ "fallback" \in result.notes => result.keys = FallbackKeys(call)
  BY <1>1 DEF TemporalInv, ResultInv
<1>5. turn' \in {"all", "prune"}
  BY DEF Promote, Become, StartPrune
<1>6. PrecheckInv' /\ SpanInv'
  BY <1>1, <1>5 DEF TemporalInv, PrecheckInv, SpanInv
<1>7. CASE result.converged \/ result.keys = <<>> \/ ~IsAllSamplesAnchorFallback
  <2>1. turn' = "all" /\ result' = result
    BY <1>1, <1>7 DEF Promote
  <2>2. ResultInv'
    BY <1>1, <1>4, <2>1 DEF ResultInv
  <2>3. PruneInv' /\ CancelInv'
    BY <1>1, <2>1 DEF TemporalInv, PruneInv, CancelInv
  <2> QED
    BY <1>3, <1>6, <2>2, <2>3 DEF TemporalInv
<1>8. CASE ~(result.converged \/ result.keys = <<>> \/ ~IsAllSamplesAnchorFallback)
  <2>1. ~seenCancel
    BY <1>1, <1>8 DEF TemporalInv, CancelInv
  <2>2. result.keys = FallbackKeys(call) /\ IsResult(result)
    BY <1>4, <1>8 DEF IsAllSamplesAnchorFallback, IsGood
  <2>3. CancelInv'
    BY <1>1, <2>1 DEF CancelInv
  <2>4. CASE ~Validates(call, result.keys)
    <3>1. result' = AppendNote(result, "validation_failed") /\ turn' = "all"
      BY <1>8, <2>4 DEF Promote, Become
    <3>2. IsGood(call, result')
      BY <1>4, <3>1, NoteStays
    <3>3. ResultInv' /\ PruneInv'
      BY <1>1, <3>1, <3>2 DEF ResultInv, PruneInv
    <3> QED
      BY <1>3, <1>6, <2>3, <3>3 DEF TemporalInv
  <2>5. CASE Validates(call, result.keys) /\ call.allowLinear
    <3>1. /\ result' = [result EXCEPT !.converged = TRUE, !.by = "fallback"]
          /\ turn' = "prune" /\ pruning' = "promote"
          /\ anchors' = <<0>> /\ segments' = <<>>
      BY <1>8, <2>5 DEF Promote, StartPrune
    <3>2. /\ IsGood(call, result') /\ result'.converged
          /\ result'.by = "fallback" /\ result'.keys = result.keys
      BY <1>2, <2>2, <2>5, <3>1, PromotedFallback
    <3>3. ResultInv'
      BY <1>1, <3>1, <3>2 DEF ResultInv
    <3>4. IsChain(call, anchors') /\ AreJudged(call, anchors', segments')
      BY <1>2, <3>1, NewChain
    <3>5. PruneInv'
      BY <1>1, <2>2, <2>5, <3>1, <3>2, <3>4 DEF PruneInv
    <3> QED
      BY <1>3, <1>6, <2>3, <3>3, <3>5 DEF TemporalInv
  <2>6. CASE Validates(call, result.keys) /\ ~call.allowLinear
    <3> DEFINE noted == AppendNote(result, "linear_prune")
               p == [noted EXCEPT !.converged = TRUE, !.by = "fallback"]
    <3>1. result' = HoldFallback(p) /\ turn' = "all"
      BY <1>8, <2>6 DEF Promote, Become
    <3>2. IsResult(noted) /\ noted.keys = FallbackKeys(call)
      BY <1>4, <2>2, NoteStays DEF IsGood
    <3> HIDE DEF noted
    <3>3. /\ IsGood(call, p) /\ p.converged /\ p.keys = FallbackKeys(call)
      BY <1>2, <2>2, <2>6, <3>2, PromotedFallback
    <3> HIDE DEF p
    <3>4. IsGood(call, result')
      BY <1>2, <2>2, <2>6, <3>1, <3>3, HeldFallback
    <3>5. ResultInv' /\ PruneInv'
      BY <1>1, <3>1, <3>4 DEF ResultInv, PruneInv
    <3> QED
      BY <1>3, <1>6, <2>3, <3>5 DEF TemporalInv
  <2> QED
    BY <2>4, <2>5, <2>6
<1> QED
  BY <1>7, <1>8

\* A prune of all samples begins.
LEMMA PruneAllSamplesStep ==
  ASSUME TemporalInv, PruneAllSamples
  PROVE  TemporalInv'
<1>1. /\ call' = call /\ turn = "all" /\ precheck' = precheck /\ result' = result
      /\ seenCancel' = seenCancel /\ cancelFile' = cancelFile
  BY DEF PruneAllSamples, host
<1>2. N > 0 /\ CallInv /\ IsNormal(call) /\ N = call.n
  BY <1>1 DEF TemporalInv, CallInv, N
<1>3. CallInv'
  BY <1>1, <1>2, CallStays
<1>4. IsGood(call, result)
  BY DEF TemporalInv, ResultInv
<1>5. \/ /\ turn' = "prune" /\ result.converged /\ pruning' = "all"
         /\ anchors' = <<0>> /\ segments' = <<>>
      \/ turn' = "multimode"
  BY DEF PruneAllSamples, StartPrune
<1>6. PrecheckInv' /\ SpanInv' /\ ResultInv'
  BY <1>1, <1>4, <1>5 DEF TemporalInv, PrecheckInv, SpanInv, ResultInv
<1>7. CancelInv'
  BY <1>1, <1>5 DEF TemporalInv, CancelInv
<1>8. PruneInv'
  <2>1. IsChain(call, <<0>>) /\ AreJudged(call, <<0>>, <<>>)
    BY <1>2, NewChain
  <2> QED
    BY <1>1, <1>5, <2>1 DEF PruneInv
<1> QED
  BY <1>3, <1>6, <1>7, <1>8 DEF TemporalInv

\* What the prune leaves behind for each of the two that ask for it.
LEMMA LeavePrune ==
  ASSUME TemporalInv, turn = "prune", call' = call, precheck' = precheck,
         cancelFile' = cancelFile,
         IsGood(call, result'), turn' \in {"all", "multimode"},
         seenCancel' => cancelFile /\ ~result'.converged
  PROVE  TemporalInv'
<1>1. CallInv'
  BY CallStays DEF TemporalInv, CallInv
<1>2. ResultInv'
  BY DEF ResultInv
<1>3. PrecheckInv'
  BY DEF TemporalInv, PrecheckInv
<1>4. PruneInv' /\ SpanInv'
  BY DEF PruneInv, SpanInv
<1>5. CancelInv'
  <2>1. turn' \notin {"start", "placement", "prune", "promote", "span"}
    OBVIOUS
  <2> QED
    BY <2>1 DEF CancelInv
<1> QED
  BY <1>1, <1>2, <1>3, <1>4, <1>5 DEF TemporalInv

\* A prune that is refused leaves the result it started from, held if it was the
\* fallback.
LEMMA RefusedIsGood ==
  ASSUME TemporalInv, turn = "prune", PruneRefused
  PROVE  IsGood(call, result') /\ result'.converged
         /\ Len(result'.keys) = Len(result.keys)
<1>1. /\ IsGood(call, result) /\ result.converged /\ IsNormal(call) /\ call.n > 0
      /\ pruning = "promote" =>
           result.keys = FallbackKeys(call) /\ Validates(call, result.keys)
  BY DEF TemporalInv, ResultInv, PruneInv, CallInv, N
<1> DEFINE q == AppendNote(result, "linear_prune")
<1>2. IsGood(call, q) /\ q.keys = result.keys
  BY <1>1, NoteStays
<1>3. q.converged
  <2>1. q.converged = result.converged
    BY <1>1, NoteStays
  <2> QED
    BY <1>1, <2>1
<1> HIDE DEF q
<1>4. CASE pruning = "promote"
  <2>1. result' = HoldFallback(q)
    BY <1>4 DEF PruneRefused, q
  <2> QED
    BY <1>1, <1>2, <1>3, <1>4, <2>1, HeldFallback
<1>5. CASE pruning # "promote"
  <2>1. result' = q
    BY <1>5 DEF PruneRefused, q
  <2> QED
    BY <1>2, <1>3, <2>1
<1> QED
  BY <1>4, <1>5

\* A prune that gives up.
LEMMA GivesUp ==
  ASSUME TemporalInv, turn = "prune", PruneGivesUp, call' = call,
         precheck' = precheck, cancelFile' = cancelFile, seenCancel' = seenCancel
  PROVE  TemporalInv'
<1>1. IsGood(call, result')
  BY RefusedIsGood DEF PruneGivesUp
<1>2. turn' \in {"all", "multimode"}
  BY DEF PruneGivesUp
<1>3. ~seenCancel
  BY DEF TemporalInv, CancelInv
<1> QED
  BY <1>1, <1>2, <1>3, LeavePrune

\* A prune with nothing to leave out.
LEMMA PruneTooFewStep ==
  ASSUME TemporalInv, PruneTooFew
  PROVE  TemporalInv'
BY GivesUp DEF PruneTooFew, host

\* A prune that is cancelled.
LEMMA PruneCancelledStep ==
  ASSUME TemporalInv, PruneCancelled
  PROVE  TemporalInv'
<1>1. /\ turn = "prune" /\ call' = call /\ precheck' = precheck /\ cancelFile
      /\ cancelFile' = cancelFile /\ turn' \in {"all", "multimode"}
  BY DEF PruneCancelled, Become
<1>2. result' = [result EXCEPT !.converged = FALSE, !.notes = {"cancelled"}]
  BY DEF PruneCancelled, Become
<1>3. IsRecord(result) /\ Len(result.keys) \in Nat
  BY DEF TemporalInv, ResultInv, IsGood, IsResult, IsRecord
<1>4. PICK no : no = FALSE
  OBVIOUS
<1>5. result' = WithEnd(result, no, {"cancelled"})
  BY <1>2, <1>4 DEF WithEnd
<1>6. IsRecord(result') /\ result'.keys = result.keys
  BY <1>3, <1>5, OtherEnd
<1>7. result'.converged = no
  BY <1>3, <1>5, OtherEnd
<1>8. ~result'.converged /\ result'.converged \in BOOLEAN
  BY <1>4, <1>7
<1>9. IsGood(call, result')
  BY <1>3, <1>6, <1>8 DEF IsGood, IsResult, IsRecord
<1> QED
  BY <1>1, <1>8, <1>9, LeavePrune

\* The gaps of the prune.
LEMMA GapsType ==
  ASSUME CallInv, N >= 3
  PROVE  MaxGap \in Int /\ MaxGap >= 1 /\ LongGap \in Int
<1>1. /\ call.gap \in Int /\ call.forwardGap \in Int /\ N \in Int /\ N - 1 \in Int
      /\ 1 \in Int
  BY DEF CallInv, IsNormal, HasGaps, N
<1> DEFINE wide == Max({1, call.gap})
<1>2. wide \in Int /\ wide >= 1
  <2>1. Max({1, call.gap}) \in Int /\ Max({1, call.gap}) >= 1
    BY <1>1, LargerOfTwo, Zenon
  <2> QED
    BY <2>1
<1> HIDE DEF wide
<1>3. Min({N - 1, wide}) \in Int
  BY <1>1, <1>2, SmallerOfTwo
<1>4. Min({N - 1, wide}) >= 1
  <2>1. Min({N - 1, wide}) \in {N - 1, wide}
    <3>1. \E z \in {N - 1, wide} : \A w \in {N - 1, wide} : z <= w
      <4>1. CASE N - 1 <= wide
        BY <1>1, <1>2, <4>1
      <4>2. CASE wide <= N - 1
        BY <1>1, <1>2, <4>2
      <4> QED
        BY <1>1, <1>2, <4>1, <4>2
    <3> QED
      BY <3>1 DEF Min
  <2> QED
    BY <1>1, <1>2, <2>1
<1>5. MaxGap = Min({N - 1, wide})
  BY DEF MaxGap, wide
<1>6. MaxGap \in Int /\ 16 * MaxGap \in Int
  BY <1>3, <1>5
<1> DEFINE leap == Min({call.forwardGap, 16 * MaxGap})
<1>7. leap \in Int
  BY <1>1, <1>6, SmallerOfTwo
<1> HIDE DEF leap
<1> DEFINE far == Max({MaxGap, leap})
<1>8. far \in Int
  BY <1>6, <1>7, LargerOfTwo
<1> HIDE DEF far
<1>9. Min({N - 1, far}) \in Int
  BY <1>1, <1>8, SmallerOfTwo
<1>10. LongGap = Min({N - 1, far})
  BY DEF LongGap, far, leap
<1> QED
  BY <1>3, <1>4, <1>5, <1>9, <1>10

\* The smaller of two lies between them.
LEMMA SmallerBetween ==
  ASSUME NEW x \in Int, NEW y \in Int, NEW low \in Int, low < x, low < y
  PROVE  Min({x, y}) \in Int /\ low < Min({x, y}) /\ Min({x, y}) <= x
<1>1. \E z \in {x, y} : \A w \in {x, y} : z <= w
  <2>1. CASE x <= y
    BY <2>1
  <2>2. CASE y <= x
    BY <2>2
  <2> QED
    BY <2>1, <2>2
<1>2. Min({x, y}) \in {x, y} /\ \A w \in {x, y} : Min({x, y}) <= w
  BY <1>1 DEF Min
<1> QED
  BY <1>2

\* A candidate end lies after the cursor and among the samples.
LEMMA EndsAreAhead ==
  ASSUME CallInv, N >= 3, NEW i \in 0 .. N - 1, i < N - 1,
         NEW end \in FallbackPruneCandidateEnds(i, N - 1, MaxGap, LongGap)
  PROVE  end \in Nat /\ i < end /\ end < N
<1>1. MaxGap \in Int /\ LongGap \in Int /\ N \in Int /\ N - 1 \in Int /\ i \in Int
  BY GapsType DEF CallInv, IsNormal, N
<1> DEFINE far == LongGap
           gap == MaxGap
           leaps == IF far > gap
               THEN {far, (3 * far) \div 4, far \div 2, far \div 3, 4 * gap,
                     3 * gap, (5 * gap) \div 2, 2 * gap, (3 * gap) \div 2}
               ELSE {}
           offsets == {x \in leaps \cup 1 .. Min({far, 2 * gap}) : x > 0}
<1>2. FallbackPruneCandidateEnds(i, N - 1, MaxGap, LongGap)
        = {Min({N - 1, i + x}) : x \in offsets} \ {i}
  BY DEF FallbackPruneCandidateEnds
<1>3. offsets \subseteq Int
  <2>1. \A x \in Int : x \div 2 \in Int /\ x \div 3 \in Int /\ x \div 4 \in Int
    OBVIOUS
  <2>2. leaps \subseteq Int
    BY <1>1, <2>1
  <2>3. Min({far, 2 * gap}) \in Int
    <3>1. far \in Int /\ 2 * gap \in Int
      BY <1>1
    <3> HIDE DEF far, gap
    <3> QED
      BY <3>1, SmallerOfTwo
  <2> DEFINE top == Min({far, 2 * gap})
  <2>4. 1 .. top \subseteq Int
    <3>1. top \in Int
      BY <2>3
    <3> HIDE DEF top
    <3> QED
      BY <3>1
  <2>5. \A x \in offsets : x \in leaps \/ x \in 1 .. top
    OBVIOUS
  <2> HIDE DEF leaps, top, offsets
  <2> QED
    BY <2>2, <2>4, <2>5
<1>4. \A x \in offsets : x > 0
  OBVIOUS
<1> HIDE DEF offsets
<1>5. PICK x \in offsets : end = Min({N - 1, i + x})
  BY <1>2
<1>6. i + x \in Int /\ i < i + x
  BY <1>1, <1>3, <1>4
<1>7. end \in Int /\ i < end /\ end <= N - 1
  BY <1>1, <1>5, <1>6, SmallerBetween
<1> QED
  BY <1>1, <1>7

\* So does the end of a long still run.
LEMMA StillRunIsAhead ==
  ASSUME CallInv, N >= 3, Cursor \in 0 .. N - 1, Cursor < N - 1,
         NEW end \in LongStillRun
  PROVE  end \in Nat /\ Cursor < end /\ end < N
<1> DEFINE run == {k \in Cursor .. call.n - 1 :
                     \A m \in Cursor .. k : /\ call.src[m] = call.src[Cursor]
                                            /\ call.red[m] = call.red[Cursor]}
           here == Min({N - 1, Cursor + MaxGap})
<1>1. end = Max(run) /\ end \notin 0 .. here
  BY DEF LongStillRun, ExactStaticRunEnd
<1>2. MaxGap \in Int /\ MaxGap >= 1 /\ N \in Nat /\ N = call.n
  BY GapsType DEF CallInv, IsNormal, N
<1>3. here \in Int /\ Cursor < here
  <2>1. N - 1 \in Int /\ Cursor + MaxGap \in Int /\ Cursor \in Int
        /\ Cursor < Cursor + MaxGap
    BY <1>2
  <2> QED
    BY <2>1, SmallerBetween
<1>4. run \subseteq 0 .. N - 1 /\ Cursor \in run
  <2>1. \A m \in Cursor .. Cursor : m = Cursor
    OBVIOUS
  <2> QED
    BY <1>2, <2>1
<1> HIDE DEF run, here
<1>5. \E z \in run : \A y \in run : z >= y
  <2> DEFINE T == {N - y : y \in run}
  <2>1. T \subseteq Nat /\ T # {}
    BY <1>2, <1>4
  <2>2. PICK t \in T : \A y \in T : t <= y
    <3> HIDE DEF T
    <3> QED
      BY <2>1, SmallestElement
  <2>3. PICK z \in run : t = N - z
    BY <2>2
  <2>4. \A y \in run : N - z <= N - y
    BY <2>2, <2>3
  <2>5. \A y \in run : y \in Int
    BY <1>4
  <2> QED
    BY <1>2, <2>3, <2>4, <2>5
<1>6. end \in run
  BY <1>1, <1>5 DEF Max
<1> QED
  BY <1>1, <1>2, <1>3, <1>4, <1>6

\* The value the last segment left at the cursor.
LEMMA LeftIsAnchorValue ==
  ASSUME NEW a, NEW s, a = anchors, s = segments, s \in Seq(Segments),
         Len(a) = Len(s) + 1
  PROVE  AnchorValue = LeftAt(call, a, s, Len(a))
<1>1. s = <<>> <=> Len(a) = 1
  BY DEF Segments
<1>2. s # <<>> => Len(a) - 1 = Len(s)
  OBVIOUS
<1> QED
  BY <1>1, <1>2 DEF AnchorValue, LeftAt, Cursor

\* A prune takes one more segment, or gives up.
LEMMA PruneSpanStep ==
  ASSUME TemporalInv, PruneSpan
  PROVE  TemporalInv'
<1>1. turn = "prune" /\ N >= 3 /\ Cursor < N - 1
  BY DEF PruneSpan
<1>2. /\ CallInv /\ IsNormal(call) /\ N = call.n
      /\ IsChain(call, anchors) /\ AreJudged(call, anchors, segments)
  BY <1>1 DEF TemporalInv, CallInv, PruneInv, N
<1>3. \/ \E count : \E end \in LongStillRun \cup FallbackPruneCandidateEnds(
                                     Cursor, N - 1, MaxGap, LongGap) :
           PruneFit(end).feasible /\ Take(end, PruneFit(end), count)
      \/ /\ PruneGivesUp
         /\ UNCHANGED <<call, precheck, work, pruning, host>>
  <2> DEFINE Try(order, end) == [order |-> order, end |-> end,
                                 fit |-> PruneFit(end)]
             ends == FallbackPruneCandidateEnds(Cursor, N - 1, MaxGap, LongGap)
             tries == {Try(1, end) : end \in LongStillRun}
                      \cup {Try(Cardinality(LongStillRun)
                                + Cardinality({x \in ends : x >= end}), end) :
                              end \in ends}
             feasible == {f \in tries : f.fit.feasible}
             first == {f \in feasible : /\ \A g \in feasible : f.order <= g.order
                                        /\ checks + f.order <= MaxChecks}
  <2>1. \/ \E f \in first : Take(f.end, f.fit, f.order)
        \/ /\ first = {} /\ PruneGivesUp
           /\ UNCHANGED <<call, precheck, work, pruning, host>>
    BY DEF PruneSpan
  <2>2. \A f \in first : /\ f.end \in LongStillRun \cup ends
                         /\ f.fit = PruneFit(f.end) /\ f.fit.feasible
    <3>1. \A f \in tries : \E order : \E end \in LongStillRun \cup ends :
                              f = Try(order, end)
      <4> HIDE DEF Try, ends
      <4> QED
        OBVIOUS
    <3>2. \A order, end : Try(order, end).end = end
                          /\ Try(order, end).fit = PruneFit(end)
      OBVIOUS
    <3>3. \A f \in first : f \in tries /\ f.fit.feasible
      <4> HIDE DEF tries
      <4> QED
        OBVIOUS
    <3> HIDE DEF first, feasible, tries, Try, ends
    <3> QED
      BY <3>1, <3>2, <3>3
  <2> HIDE DEF first, ends
  <2>3. CASE \E f \in first : Take(f.end, f.fit, f.order)
    BY <2>2, <2>3 DEF ends
  <2> QED
    BY <2>1, <2>3
<1>4. CASE \E count : \E end \in LongStillRun \cup FallbackPruneCandidateEnds(
                                     Cursor, N - 1, MaxGap, LongGap) :
             PruneFit(end).feasible /\ Take(end, PruneFit(end), count)
  <2>1. PICK count :
          \E end \in LongStillRun \cup FallbackPruneCandidateEnds(
                                     Cursor, N - 1, MaxGap, LongGap) :
            PruneFit(end).feasible /\ Take(end, PruneFit(end), count)
    BY <1>4
  <2>0. PICK end \in LongStillRun \cup FallbackPruneCandidateEnds(
                                     Cursor, N - 1, MaxGap, LongGap) :
           PruneFit(end).feasible /\ Take(end, PruneFit(end), count)
    BY <2>1
  <2>2. Cursor \in 0 .. N - 1 /\ Len(anchors) \in Nat \ {0}
    BY <1>2, ChainIsAscending DEF Cursor
  <2>3. end \in Nat /\ Cursor < end /\ end < N
    BY <1>1, <1>2, <2>0, <2>2, EndsAreAhead, StillRunIsAhead
  <2>4. AnchorValue = LeftAt(call, anchors, segments, Len(anchors))
    BY <1>2, LeftIsAnchorValue DEF AreJudged
  <2>5. AnchorValue \in Int
    <3>1. Len(anchors) \in 1 .. Len(anchors)
      BY <2>2
    <3> QED
      BY <1>2, <2>4, <3>1, LeftType
  <2>6. IsJudged(call, PruneFit(end), Cursor, end, AnchorValue)
    BY <1>2, <2>0, <2>2, <2>3, <2>5, PruneSegmentIsJudged DEF PruneFit
  <2>7. /\ anchors' = Append(anchors, end)
        /\ segments' = Append(segments, PruneFit(end))
        /\ call' = call /\ turn' = turn /\ result' = result
        /\ precheck' = precheck /\ pruning' = pruning
        /\ cancelFile' = cancelFile /\ seenCancel' = seenCancel
    BY <2>0 DEF Take, host
  <2>8. IsChain(call, anchors') /\ AreJudged(call, anchors', segments')
    BY <1>2, <2>3, <2>4, <2>6, <2>7, JudgedAppend DEF Cursor
  <2>9. CallInv'
    BY <1>2, <2>7, CallStays DEF CallInv
  <2>10. ResultInv' /\ PrecheckInv'
    BY <2>7 DEF TemporalInv, ResultInv, PrecheckInv
  <2>11. CancelInv' /\ SpanInv'
    BY <1>1, <2>7 DEF TemporalInv, CancelInv, SpanInv
  <2>12. PruneInv'
    BY <1>1, <2>7, <2>8 DEF TemporalInv, PruneInv
  <2> QED
    BY <2>9, <2>10, <2>11, <2>12 DEF TemporalInv
<1>5. CASE /\ PruneGivesUp
           /\ UNCHANGED <<call, precheck, work, pruning, host>>
  BY <1>1, <1>5, GivesUp DEF host
<1> QED
  BY <1>3, <1>4, <1>5

\* A prune reaches the last sample.
LEMMA PruneDoneStep ==
  ASSUME TemporalInv, PruneDone
  PROVE  TemporalInv'
<1>1. /\ turn = "prune" /\ N >= 3 /\ Cursor = N - 1 /\ call' = call
      /\ precheck' = precheck /\ cancelFile' = cancelFile
      /\ seenCancel' = seenCancel
  BY DEF PruneDone, host
<1>2. /\ CallInv /\ IsNormal(call) /\ N = call.n /\ IsChain(call, anchors)
      /\ AreJudged(call, anchors, segments) /\ IsGood(call, result)
      /\ result.converged /\ ~seenCancel
  BY <1>1 DEF TemporalInv, CallInv, PruneInv, ResultInv, CancelInv, N
<1>3. CASE Len(anchors) < Len(result.keys) /\ Validates(call, PruneCandidate)
  <2>1. /\ result' = WithKeys(result, PruneCandidate, "prune",
                              result.notes \cup {"linear_prune"})
        /\ turn' \in {"all", "multimode"}
    BY <1>3 DEF PruneDone, PruneReturns, WithKeys
  <2>2. IsRecord(result)
    BY <1>2 DEF IsGood, IsResult, IsRecord
  <2>3. IsRecord(result') /\ result'.keys = PruneCandidate
    BY <2>1, <2>2, OtherKeys
  <2>4. result'.converged = result.converged
    BY <2>1, <2>2, OtherKeys
  <2>5. WellFormed(call, PruneCandidate)
    <3>1. anchors[Len(anchors)] = call.n - 1
      BY <1>1, <1>2 DEF Cursor
    <3> QED
      BY <1>2, <3>1, AssembledWellFormed DEF PruneCandidate
  <2>6. Len(PruneCandidate) \in Nat
    BY <1>2, AssembledKeys, ChainIsAscending DEF PruneCandidate
  <2>7. IsGood(call, result')
    BY <1>2, <1>3, <2>3, <2>4, <2>5, <2>6
    DEF IsGood, IsResult, IsRecord, ShownWithin
  <2> QED
    BY <1>1, <1>2, <2>1, <2>7, LeavePrune
<1>4. CASE ~(Len(anchors) < Len(result.keys) /\ Validates(call, PruneCandidate))
  <2>1. PruneGivesUp
    BY <1>4 DEF PruneDone
  <2> QED
    BY <1>1, <2>1, GivesUp
<1> QED
  BY <1>3, <1>4

\* The multimode result is weighed against the one at hand.
LEMMA ConsiderMultiModeStep ==
  ASSUME TemporalInv, ConsiderMultiMode
  PROVE  TemporalInv'
<1>1. /\ turn = "multimode" /\ turn' = "forward" /\ call' = call
      /\ precheck' = precheck /\ cancelFile' = cancelFile
      /\ seenCancel' = seenCancel
  BY DEF ConsiderMultiMode, Become, host
<1>2. /\ CallInv /\ N > 0 /\ IsGood(call, result)
      /\ \A m \in precheck : IsAnswer(call, m)
      /\ call.multimode => precheck # {}
      /\ seenCancel => cancelFile /\ ~result.converged
  BY <1>1 DEF TemporalInv, CallInv, ResultInv, PrecheckInv, CancelInv
<1>3. CallInv' /\ PrecheckInv' /\ PruneInv' /\ SpanInv'
  <2>1. CallInv'
    BY <1>1, <1>2, CallStays
  <2>2. PrecheckInv' /\ PruneInv' /\ SpanInv'
    BY <1>1, <1>2 DEF PrecheckInv, PruneInv, SpanInv
  <2> QED
    BY <2>1, <2>2
<1> DEFINE m == CHOOSE x \in precheck : TRUE
<1>4. \/ result' = result
      \/ call.multimode /\ result' = AppendNote(m, "multimode")
      \/ result' = AppendNote(result, "multimode_rejected")
  BY DEF ConsiderMultiMode, Become
<1>5. call.multimode => m \in precheck
  BY <1>2
<1> HIDE DEF m
<1>6. CASE result' = result
  <2>1. ResultInv'
    BY <1>1, <1>2, <1>6 DEF ResultInv
  <2>2. CancelInv'
    BY <1>1, <1>2, <1>6 DEF CancelInv
  <2> QED
    BY <1>3, <2>1, <2>2 DEF TemporalInv
<1>7. CASE call.multimode /\ result' = AppendNote(m, "multimode")
  <2>1. IsGood(call, m) /\ m.by = "multimode"
    BY <1>2, <1>5, <1>7, AnswerIsGood
  <2>2. IsGood(call, result') /\ result'.keys = m.keys
    BY <1>7, <2>1, NoteStays
  <2>3. result'.by = "multimode"
    BY <1>7, <2>1, NoteStays
  <2>4. ResultInv'
    BY <1>1, <2>2 DEF ResultInv
  <2>5. CancelInv'
    <3>1. \E x \in precheck' : x.keys = result'.keys
      BY <1>1, <1>5, <1>7, <2>2
    <3> QED
      BY <1>1, <1>2, <2>3, <3>1 DEF CancelInv
  <2> QED
    BY <1>3, <2>4, <2>5 DEF TemporalInv
<1>8. CASE result' = AppendNote(result, "multimode_rejected")
  <2>1. IsGood(call, result')
    BY <1>2, <1>8, NoteStays
  <2>2. result'.converged = result.converged
    BY <1>2, <1>8, NoteStays
  <2>3. ResultInv'
    BY <1>1, <2>1 DEF ResultInv
  <2>4. CancelInv'
    BY <1>1, <1>2, <2>2 DEF CancelInv
  <2> QED
    BY <1>3, <2>3, <2>4 DEF TemporalInv
<1> QED
  BY <1>4, <1>6, <1>7, <1>8

\* The forward span is tried, or not.
LEMMA ConsiderForwardStep ==
  ASSUME TemporalInv, ConsiderForward
  PROVE  TemporalInv'
<1>1. /\ turn = "forward" /\ result' = result /\ call' = call
      /\ precheck' = precheck /\ cancelFile' = cancelFile
      /\ seenCancel' = seenCancel
      /\ \/ /\ turn' = "span" /\ anchors' = <<0>> /\ segments' = <<>>
            /\ ForwardLongestSpanEligible
         \/ turn' = "done"
  BY DEF ConsiderForward, host
<1>2. CallInv /\ IsNormal(call) /\ N > 0 /\ N = call.n
  BY <1>1 DEF TemporalInv, CallInv, N
<1>3. CallInv'
  BY <1>1, <1>2, CallStays
<1>4. ResultInv' /\ PrecheckInv' /\ PruneInv'
  BY <1>1 DEF TemporalInv, ResultInv, PrecheckInv, PruneInv
<1>5. CancelInv'
  BY <1>1 DEF TemporalInv, CancelInv
<1>6. SpanInv'
  <2>1. CASE turn' # "span"
    BY <2>1 DEF SpanInv
  <2>2. CASE turn' = "span"
    <3>1. N' = N /\ N >= 2
      BY <1>1, <1>2, <2>2 DEF ForwardLongestSpanEligible, IsNormal, N
    <3>2. IsChain(call, <<0>>) /\ AreJudged(call, <<0>>, <<>>)
      BY <1>2, NewChain
    <3>3. \A k \in 1 .. Len(<<>>) : FALSE
      OBVIOUS
    <3> QED
      BY <1>1, <2>2, <3>1, <3>2, <3>3 DEF SpanInv
  <2> QED
    BY <2>1, <2>2
<1> QED
  BY <1>3, <1>4, <1>5, <1>6 DEF TemporalInv

\* What returns keeps the invariant.
LEMMA ReturnFromSpan ==
  ASSUME TemporalInv, turn = "span", turn' = "done", call' = call,
         precheck' = precheck, cancelFile' = cancelFile, IsGood(call, result'),
         seenCancel' => cancelFile /\
           (result'.converged => result'.by = "multimode"
                                 /\ \E m \in precheck : m.keys = result'.keys)
  PROVE  TemporalInv'
<1>1. CallInv'
  BY CallStays DEF TemporalInv
<1>2. ResultInv'
  BY DEF ResultInv
<1>3. PrecheckInv'
  BY DEF TemporalInv, PrecheckInv
<1>4. PruneInv' /\ SpanInv'
  BY DEF PruneInv, SpanInv
<1>5. CancelInv'
  BY DEF CancelInv
<1> QED
  BY <1>1, <1>2, <1>3, <1>4, <1>5 DEF TemporalInv

\* A forward span that is cancelled.
LEMMA SpanCancelledStep ==
  ASSUME TemporalInv, SpanCancelled
  PROVE  TemporalInv'
<1>1. /\ turn = "span" /\ turn' = "done" /\ call' = call /\ precheck' = precheck
      /\ cancelFile /\ cancelFile' = cancelFile /\ result' = Cancelled
  BY DEF SpanCancelled, Become
<1>2. IsGood(call, result') /\ ~result'.converged
  BY <1>1, EmptyIsGood
<1> QED
  BY <1>1, <1>2, ReturnFromSpan

\* The forward span's result is refused.
LEMMA SpanRefused ==
  ASSUME TemporalInv, turn = "span",
         Become(AppendNote(result, "forward_rejected"), "done"),
         UNCHANGED <<call, precheck, work, pruning, host>>
  PROVE  TemporalInv'
<1>1. /\ turn' = "done" /\ call' = call /\ precheck' = precheck
      /\ cancelFile' = cancelFile /\ seenCancel' = seenCancel
      /\ result' = AppendNote(result, "forward_rejected")
  BY DEF Become, host
<1>2. /\ IsGood(call, result)
      /\ seenCancel => cancelFile /\
           (result.converged => result.by = "multimode"
                                /\ \E m \in precheck : m.keys = result.keys)
  BY DEF TemporalInv, ResultInv, CancelInv
<1>3. /\ IsGood(call, result') /\ result'.keys = result.keys
      /\ result'.by = result.by
  BY <1>1, <1>2, NoteStays
<1>4. result'.converged = result.converged
  BY <1>1, <1>2, NoteStays
<1>5. seenCancel' => cancelFile /\
        (result'.converged => result'.by = "multimode"
                              /\ \E m \in precheck : m.keys = result'.keys)
  BY <1>1, <1>2, <1>3, <1>4
<1> QED
  BY <1>1, <1>3, <1>5, ReturnFromSpan

\* A forward span takes one more segment, or finds none.
LEMMA TakeSpanStep ==
  ASSUME TemporalInv, TakeSpan
  PROVE  TemporalInv'
<1>1. turn = "span" /\ Cursor < N - 1 /\ ~cancelFile
  BY DEF TakeSpan
<1>2. /\ CallInv /\ IsNormal(call) /\ N = call.n /\ N >= 2 /\ N \in Nat
      /\ call.forwardGap \in Int
      /\ IsChain(call, anchors) /\ AreJudged(call, anchors, segments)
      /\ \A k \in 1 .. Len(segments) : segments[k] = Keep
  BY <1>1 DEF TemporalInv, CallInv, SpanInv, IsNormal, HasGaps, N
<1> DEFINE farthest == Min({N - 1, Cursor + call.forwardGap})
<1>3. \/ \E count : \E end \in Cursor + 1 .. farthest :
           /\ FitForwardLongestSpanLinearSegment(call, Cursor, end).feasible
           /\ Take(end, FitForwardLongestSpanLinearSegment(call, Cursor, end),
                   count)
      \/ /\ Become(AppendNote(result, "forward_rejected"), "done")
         /\ UNCHANGED <<call, precheck, work, pruning, host>>
  <2> DEFINE Try(e) == [end |-> e, order |-> farthest - e + 1,
                        fit |-> FitForwardLongestSpanLinearSegment(
                                    call, Cursor, e)]
             tries == {Try(e) : e \in Cursor + 1 .. farthest}
             feasible == {f \in tries : f.fit.feasible}
             first == {f \in feasible :
                         /\ \A g \in feasible : f.order <= g.order
                         /\ checks + f.order <= call.forwardChecks}
  <2>1. \/ \E f \in first : Take(f.end, f.fit, f.order)
        \/ /\ Become(AppendNote(result, "forward_rejected"), "done")
           /\ UNCHANGED <<call, precheck, work, pruning, host>>
    BY DEF TakeSpan
  <2>2. \A f \in first : \E e \in Cursor + 1 .. farthest :
          /\ f.end = e /\ f.fit.feasible
          /\ f.fit = FitForwardLongestSpanLinearSegment(call, Cursor, e)
    <3>1. \A f \in tries : \E e \in Cursor + 1 .. farthest : f = Try(e)
      <4> HIDE DEF Try
      <4> QED
        OBVIOUS
    <3>2. \A e : /\ Try(e).end = e
                 /\ Try(e).fit
                      = FitForwardLongestSpanLinearSegment(call, Cursor, e)
      OBVIOUS
    <3>3. \A f \in first : f \in tries /\ f.fit.feasible
      <4> HIDE DEF tries
      <4> QED
        OBVIOUS
    <3> HIDE DEF first, feasible, tries, Try, farthest
    <3> QED
      BY <3>1, <3>2, <3>3
  <2> HIDE DEF first, farthest
  <2>3. CASE \E f \in first : Take(f.end, f.fit, f.order)
    <3>1. PICK f \in first : Take(f.end, f.fit, f.order)
      BY <2>3
    <3>2. PICK e \in Cursor + 1 .. farthest :
            /\ f.end = e /\ f.fit.feasible
            /\ f.fit = FitForwardLongestSpanLinearSegment(call, Cursor, e)
      BY <2>2
    <3> QED
      BY <3>1, <3>2
  <2> QED
    BY <2>1, <2>3
<1>4. CASE \E count : \E end \in Cursor + 1 .. farthest :
             /\ FitForwardLongestSpanLinearSegment(call, Cursor, end).feasible
             /\ Take(end, FitForwardLongestSpanLinearSegment(call, Cursor, end),
                     count)
  <2>1. Cursor \in 0 .. N - 1 /\ Len(anchors) \in Nat \ {0}
    BY <1>2, ChainIsAscending DEF Cursor
  <2>2. farthest \in Int /\ farthest <= N - 1
    <3>1. N - 1 \in Int /\ Cursor + call.forwardGap \in Int
      BY <1>2, <2>1
    <3> QED
      BY <3>1, SmallerOfTwo
  <2> HIDE DEF farthest
  <2>0. PICK count :
           \E end \in Cursor + 1 .. farthest :
             /\ FitForwardLongestSpanLinearSegment(call, Cursor, end).feasible
             /\ Take(end, FitForwardLongestSpanLinearSegment(call, Cursor, end),
                     count)
    BY <1>4
  <2>3. PICK end \in Cursor + 1 .. farthest :
             /\ FitForwardLongestSpanLinearSegment(call, Cursor, end).feasible
             /\ Take(end, FitForwardLongestSpanLinearSegment(call, Cursor, end),
                     count)
    BY <2>0
  <2>4. end \in Nat /\ Cursor < end /\ end < N
    BY <1>2, <2>1, <2>2, <2>3
  <2>5. /\ FitForwardLongestSpanLinearSegment(call, Cursor, end) = Keep
        /\ IsJudged(call, Keep, Cursor, end, call.red[Cursor])
    BY <1>2, <2>1, <2>3, <2>4, StrictChordIsJudged
  <2>6. LeftAt(call, anchors, segments, Len(anchors)) = call.red[Cursor]
    <3>1. CASE Len(anchors) = 1
      BY <3>1 DEF LeftAt, Cursor
    <3>2. CASE Len(anchors) # 1
      <4>1. Len(anchors) - 1 \in 1 .. Len(segments)
        BY <1>2, <2>1, <3>2 DEF AreJudged
      <4>2. segments[Len(anchors) - 1].end = SampleValue
        BY <1>2, <4>1 DEF Keep, Segment
      <4> QED
        BY <3>2, <4>2, ValueOrOwn DEF LeftAt, Cursor
    <3> QED
      BY <3>1, <3>2
  <2>7. /\ anchors' = Append(anchors, end)
        /\ segments' = Append(segments, Keep)
        /\ call' = call /\ turn' = turn /\ result' = result
        /\ precheck' = precheck /\ pruning' = pruning
        /\ cancelFile' = cancelFile /\ seenCancel' = seenCancel
    BY <2>3, <2>5 DEF Take, host
  <2>8. IsChain(call, anchors') /\ AreJudged(call, anchors', segments')
    BY <1>2, <2>4, <2>5, <2>6, <2>7, JudgedAppend DEF Cursor
  <2>9. \A k \in 1 .. Len(segments') : segments'[k] = Keep
    <3>1. segments \in Seq(Segments) /\ Keep \in Segments
      BY <1>2, <2>5 DEF AreJudged, IsJudged
    <3>2. \A S : \A s \in Seq(S) : \A x \in S : \A k \in 1 .. Len(Append(s, x)) :
            \/ Append(s, x)[k] = x
            \/ (k \in 1 .. Len(s) /\ Append(s, x)[k] = s[k])
      OBVIOUS
    <3> QED
      BY <1>2, <2>7, <3>1, <3>2
  <2>10. CallInv'
    BY <1>1, <1>2, <2>7, CallStays DEF CallInv
  <2>11. ResultInv' /\ PrecheckInv'
    BY <2>7 DEF TemporalInv, ResultInv, PrecheckInv
  <2>12. ~seenCancel
    BY <1>1 DEF TemporalInv, CancelInv
  <2>13. CancelInv' /\ PruneInv'
    BY <1>1, <2>7, <2>12 DEF CancelInv, PruneInv
  <2>14. SpanInv'
    BY <1>2, <2>7, <2>8, <2>9 DEF SpanInv, N
  <2> QED
    BY <2>10, <2>11, <2>13, <2>14 DEF TemporalInv
<1>5. CASE /\ Become(AppendNote(result, "forward_rejected"), "done")
           /\ UNCHANGED <<call, precheck, work, pruning, host>>
  BY <1>1, <1>5, SpanRefused
<1> QED
  BY <1>3, <1>4, <1>5

\* The keys of a finished forward span pass as a whole.
LEMMA ForwardIsGood ==
  ASSUME TemporalInv, turn = "span", Cursor = N - 1
  PROVE  /\ WellFormed(call, AssembleKeys(call, anchors, segments))
         /\ Validates(call, AssembleKeys(call, anchors, segments))
         /\ Len(AssembleKeys(call, anchors, segments)) \in Nat
         /\ Len(anchors) >= 2
<1>1. /\ IsNormal(call) /\ N = call.n /\ N >= 2 /\ N \in Nat
      /\ IsChain(call, anchors) /\ AreJudged(call, anchors, segments)
      /\ \A k \in 1 .. Len(segments) : segments[k] = Keep
  BY DEF TemporalInv, CallInv, SpanInv, IsNormal, N
<1>2. anchors[Len(anchors)] = call.n - 1 /\ Len(anchors) \in Nat \ {0}
  BY <1>1, ChainIsAscending DEF Cursor
<1>3. Len(anchors) >= 2
  <2>1. anchors[1] = 0
    BY <1>1 DEF IsChain
  <2> QED
    BY <1>1, <1>2, <2>1
<1>4. \A k \in 1 .. Len(segments) :
        segments[k].interp = "bezier" => EasesFit(call)
  BY <1>1 DEF Keep, Segment
<1>5. Len(AssembleKeys(call, anchors, segments)) \in Nat
  BY <1>1, <1>2, AssembledKeys
<1> QED
  BY <1>1, <1>2, <1>3, <1>4, <1>5, AssembledWellFormed, JudgedCompose

\* A forward span reaches the last sample.
LEMMA SpanDoneStep ==
  ASSUME TemporalInv, SpanDone
  PROVE  TemporalInv'
<1> DEFINE K == AssembleKeys(call, anchors, segments)
           forward == [keys |-> K, converged |-> TRUE, notes |-> {"forward"},
                       by |-> "forward"]
<1>1. /\ turn = "span" /\ Cursor = N - 1
      /\ UNCHANGED <<call, precheck, work, pruning, host>>
      /\ Become(IF Better(forward, result) THEN forward
                ELSE AppendNote(result, "forward_rejected"), "done")
  BY DEF SpanDone
<1>2. WellFormed(call, K) /\ Validates(call, K) /\ Len(K) \in Nat
  BY <1>1, ForwardIsGood
<1>6. Len(anchors) >= 2
  BY <1>1, ForwardIsGood
<1> HIDE DEF K
<1>3. IsGood(call, forward)
  BY <1>2 DEF IsGood, IsResult, ShownWithin
<1>4. CASE Better(forward, result)
  <2>1. /\ turn' = "done" /\ call' = call /\ precheck' = precheck
        /\ cancelFile' = cancelFile /\ seenCancel' = seenCancel
        /\ result' = forward
    BY <1>1, <1>4 DEF Become, host
  <2>2. ~seenCancel
    <3>1. seenCancel => anchors = <<0>>
      BY <1>1 DEF TemporalInv, CancelInv
    <3>2. anchors = <<0>> => Len(anchors) = 1
      OBVIOUS
    <3>3. ~(anchors = <<0>>)
      <4>1. ~(1 >= 2)
        OBVIOUS
      <4> QED
        BY <1>6, <3>2, <4>1, Zenon
    <3> QED
      BY <3>1, <3>3
  <2> HIDE DEF forward
  <2> QED
    BY <1>1, <1>3, <2>1, <2>2, ReturnFromSpan
<1>5. CASE ~Better(forward, result)
  BY <1>1, <1>5, SpanRefused
<1> QED
  BY <1>4, <1>5

\* Every step.
LEMMA InvNext ==
  ASSUME TemporalInv, TemporalNext
  PROVE  TemporalInv'
<1>1. ASSUME Solve PROVE TemporalInv'
  BY <1>1, IneligibleStep, PrecheckStep, PlacementStep, PromoteStep,
     PruneAllSamplesStep, PruneTooFewStep, PruneCancelledStep, PruneSpanStep,
     PruneDoneStep, ConsiderMultiModeStep, ConsiderForwardStep,
     SpanCancelledStep, TakeSpanStep, SpanDoneStep DEF Solve
<1>2. CASE TemporalReturned
  BY <1>2, StutterStep DEF TemporalReturned
<1> QED
  BY <1>1, <1>2, HostCancelsStep DEF TemporalNext

\* The invariant holds of every behaviour.
THEOREM TemporalInvariance == TemporalSpec => []TemporalInv
<1>1. TemporalInit => TemporalInv
  BY InvInit
<1>2. TemporalInv /\ [TemporalNext]_temporalVars => TemporalInv'
  BY InvNext, StutterStep
<1> QED
  BY <1>1, <1>2, PTL DEF TemporalSpec

------------------------------------------------------------------------------
(***************************************************************************)
(* What the candidates keep.                                               *)
(***************************************************************************)
\* Whatever replaced the placement really follows the source.
THEOREM ReplacementsFollow == TemporalSpec => []ReplacedResultsFollowTheSource
<1>1. TemporalInv => ReplacedResultsFollowTheSource
  BY DEF TemporalInv, ResultInv, IsGood, ReplacedResultsFollowTheSource
<1> QED
  BY <1>1, TemporalInvariance, PTL

\* After a cancel only the multimode result solved before it is returned.
THEOREM CancelReturnsThePrecheck == TemporalSpec => []CancelKeepsOnlyThePrecheck
<1>1. TemporalInv => CancelKeepsOnlyThePrecheck
  BY DEF TemporalInv, CancelInv, CancelKeepsOnlyThePrecheck
<1> QED
  BY <1>1, TemporalInvariance, PTL

\* No step replaces the call.
LEMMA CallNeverChanges ==
  ASSUME TemporalNext
  PROVE  call' = call
BY DEF TemporalNext, HostCancels, Solve, Ineligible, PrecheckMultiMode,
  SolvePlacement, Promote, PruneAllSamples, PruneTooFew, PruneCancelled, PruneSpan,
  PruneDone, ConsiderMultiMode, ConsiderForward, SpanCancelled, TakeSpan, SpanDone,
  TemporalReturned, Take, temporalVars

\* It stays the normal form of one of those that are made.
LEMMA CallIsNormalized == TemporalSpec => [](\E o \in Calls : call = Normalize(o))
<1> DEFINE Normalized == \E o \in Calls : call = Normalize(o)
<1>1. TemporalInit => Normalized
  BY DEF TemporalInit
<1>2. Normalized /\ [TemporalNext]_temporalVars => Normalized'
  BY CallNeverChanges DEF temporalVars
<1> QED
  BY <1>1, <1>2, PTL DEF TemporalSpec

\* Where the influences of a call leave room for the pairs a prune fits, what
\* the prune puts together passes as a whole before it is validated again.  The
\* keys carry the pair as it is, the judgement clamped it.
THEOREM PrunedKeysCompose ==
  ASSUME \A o \in Calls : EasesFit(Normalize(o))
  PROVE  TemporalSpec => []PrunedSegmentsCompose
<1>1. TemporalInv /\ (\E o \in Calls : call = Normalize(o))
        => PrunedSegmentsCompose
  <2> SUFFICES ASSUME TemporalInv, \E o \in Calls : call = Normalize(o),
                      turn = "prune", N >= 3, Cursor = N - 1
               PROVE  Validates(call, PruneCandidate)
    BY DEF PrunedSegmentsCompose
  <2>1. EasesFit(call)
    OBVIOUS
  <2>2. /\ IsNormal(call) /\ N = call.n /\ N \in Nat /\ IsChain(call, anchors)
        /\ AreJudged(call, anchors, segments)
    BY DEF TemporalInv, CallInv, PruneInv, IsNormal, N
  <2>3. anchors[Len(anchors)] = call.n - 1 /\ Len(anchors) \in Nat \ {0}
    BY <2>2, ChainIsAscending DEF Cursor
  <2>4. Len(anchors) >= 2
    <3>1. anchors[1] = 0
      BY <2>2 DEF IsChain
    <3> QED
      BY <2>2, <2>3, <3>1
  <2> QED
    BY <2>1, <2>2, <2>3, <2>4, JudgedCompose DEF PruneCandidate
<1> QED
  BY <1>1, TemporalInvariance, CallIsNormalized, PTL

\* A step that is no trade for the worse.
NoWorse == result.converged /\ result' # result =>
             IF result'.converged THEN Len(result'.keys) <= Len(result.keys)
             ELSE cancelFile

\* A note trades nothing.
LEMMA NoteIsNoWorse ==
  ASSUME TemporalInv, NEW note, result' = AppendNote(result, note)
  PROVE  NoWorse
<1>1. IsGood(call, result) /\ Len(result.keys) \in Nat
  BY DEF TemporalInv, ResultInv, IsGood, IsResult
<1>2. result'.keys = result.keys
  BY <1>1, NoteStays
<1>3. result'.converged = result.converged
  BY <1>1, NoteStays
<1>4. Len(result.keys) <= Len(result.keys)
  BY <1>1
<1> QED
  BY <1>2, <1>3, <1>4 DEF NoWorse

\* A better candidate is no worse.
LEMMA BetterIsNoWorse ==
  ASSUME TemporalInv, NEW candidate, Better(candidate, result),
         result'.keys = candidate.keys, result'.converged = candidate.converged,
         Len(candidate.keys) \in Nat
  PROVE  NoWorse
<1>1. SUFFICES ASSUME result.converged
               PROVE  result'.converged /\ Len(result'.keys) <= Len(result.keys)
  BY DEF NoWorse
<1>2. result.keys # <<>> /\ Len(result.keys) \in Nat
  BY <1>1 DEF TemporalInv, ResultInv, IsGood, IsResult, WellFormed
<1>3. Len(candidate.keys) < Len(result.keys) /\ candidate.converged
  BY <1>1, <1>2 DEF Better
<1>4. Len(candidate.keys) <= Len(result.keys)
  BY <1>2, <1>3
<1> QED
  BY <1>3, <1>4

\* Neither is a prune that gives up.
LEMMA RefusedIsNoWorse ==
  ASSUME TemporalInv, turn = "prune", PruneGivesUp
  PROVE  NoWorse
<1>1. Len(result'.keys) = Len(result.keys) /\ Len(result.keys) \in Nat
  BY RefusedIsGood DEF PruneGivesUp, TemporalInv, ResultInv, IsGood, IsResult
<1>2. result'.converged
  BY RefusedIsGood DEF PruneGivesUp
<1> QED
  BY <1>1, <1>2 DEF NoWorse

\* Nor a forward span that is taken.
LEMMA ForwardIsNoWorse ==
  ASSUME TemporalInv, SpanDone
  PROVE  NoWorse
<1> DEFINE K == AssembleKeys(call, anchors, segments)
           forward == [keys |-> K, converged |-> TRUE, notes |-> {"forward"},
                       by |-> "forward"]
<1>1. /\ turn = "span" /\ Cursor = N - 1
      /\ result' = IF Better(forward, result) THEN forward
                   ELSE AppendNote(result, "forward_rejected")
  BY DEF SpanDone, Become
<1>2. Len(K) \in Nat
  BY <1>1, ForwardIsGood
<1> HIDE DEF K
<1>3. forward.keys = K /\ forward.converged
  OBVIOUS
<1>4. CASE Better(forward, result)
  <2>1. result' = forward
    BY <1>1, <1>4
  <2>2. result'.keys = forward.keys /\ Len(forward.keys) \in Nat
    BY <1>2, <2>1
  <2>3. result'.converged = forward.converged
    BY <2>1
  <2> HIDE DEF forward
  <2> QED
    BY <1>4, <2>2, <2>3, BetterIsNoWorse
<1>5. CASE ~Better(forward, result)
  BY <1>1, <1>5, NoteIsNoWorse
<1> QED
  BY <1>4, <1>5

\* Nor the multimode result, where it is taken.
LEMMA MultiModeIsNoWorse ==
  ASSUME TemporalInv, ConsiderMultiMode
  PROVE  NoWorse
<1> DEFINE m == CHOOSE x \in precheck : TRUE
<1>1. \/ result' = result
      \/ call.multimode /\ Better(m, result) /\ result' = AppendNote(m, "multimode")
      \/ result' = AppendNote(result, "multimode_rejected")
  BY DEF ConsiderMultiMode, Become
<1>2. call.multimode => m \in precheck
  BY DEF TemporalInv, PrecheckInv, ConsiderMultiMode
<1> HIDE DEF m
<1>3. CASE result' = result
  BY <1>3 DEF NoWorse
<1>4. CASE call.multimode /\ Better(m, result)
           /\ result' = AppendNote(m, "multimode")
  <2>1. IsGood(call, m)
    BY <1>2, <1>4, AnswerIsGood DEF TemporalInv, PrecheckInv
  <2>2. result'.keys = m.keys /\ Len(m.keys) \in Nat
    BY <1>4, <2>1, NoteStays DEF IsGood, IsResult
  <2>3. result'.converged = m.converged
    BY <1>4, <2>1, NoteStays
  <2> QED
    BY <1>4, <2>2, <2>3, BetterIsNoWorse
<1>5. CASE result' = AppendNote(result, "multimode_rejected")
  BY <1>5, NoteIsNoWorse
<1> QED
  BY <1>1, <1>3, <1>4, <1>5

\* Nor a finished prune.
LEMMA PruneIsNoWorse ==
  ASSUME TemporalInv, PruneDone
  PROVE  NoWorse
<1>1. turn = "prune"
  BY DEF PruneDone
<1>2. CASE PruneGivesUp
  BY <1>1, <1>2, RefusedIsNoWorse
<1>3. CASE ~PruneGivesUp
  <2>1. result' = WithKeys(result, PruneCandidate, "prune",
                           result.notes \cup {"linear_prune"})
    BY <1>3 DEF PruneDone, PruneReturns, WithKeys
  <2>2. IsRecord(result)
    BY <1>1 DEF TemporalInv, ResultInv, IsGood, IsResult, IsRecord
  <2>7. /\ Len(anchors) < Len(result.keys)
        /\ Len(result.keys) \in Nat
        /\ IsNormal(call) /\ IsChain(call, anchors)
        /\ AreJudged(call, anchors, segments)
    BY <1>1, <1>3
       DEF PruneDone, TemporalInv, CallInv, PruneInv, ResultInv, IsGood, IsResult
  <2>3. result'.keys = PruneCandidate
    BY <2>1, <2>2, OtherKeys
  <2>4. result'.converged = result.converged
    BY <2>1, <2>2, OtherKeys
  <2>5. Len(PruneCandidate) = Len(anchors) /\ Len(anchors) \in Nat
    BY <2>7, AssembledKeys, ChainIsAscending DEF PruneCandidate
  <2>6. Len(result'.keys) <= Len(result.keys)
    BY <2>7, <2>3, <2>5
  <2> QED
    BY <2>4, <2>6 DEF NoWorse
<1> QED
  BY <1>2, <1>3

\* Nor any other step.
LEMMA StepIsNoWorse ==
  ASSUME TemporalInv, TemporalNext
  PROVE  NoWorse
<1>1. turn \in {"start", "placement"} => NoWorse
  BY DEF TemporalInv, ResultInv, NoWorse
<1>2. result' = result => NoWorse
  BY DEF NoWorse
<1>3. ASSUME Promote PROVE NoWorse
  BY <1>3, <1>2 DEF Promote, NoWorse
<1>4. ASSUME PruneCancelled PROVE NoWorse
  <2>1. IsRecord(result)
    BY DEF TemporalInv, ResultInv, IsGood, IsResult, IsRecord
  <2>2. result' = [result EXCEPT !.converged = FALSE, !.notes = {"cancelled"}]
    BY <1>4 DEF PruneCancelled, Become
  <2>3. PICK no : no = FALSE
    OBVIOUS
  <2>4. result' = WithEnd(result, no, {"cancelled"})
    BY <2>2, <2>3 DEF WithEnd
  <2>5. result'.converged = no
    BY <2>1, <2>4, OtherEnd
  <2>6. ~result'.converged
    BY <2>3, <2>5
  <2> QED
    BY <1>4, <2>6 DEF PruneCancelled, NoWorse
<1>5. ASSUME PruneSpan PROVE NoWorse
  <2>1. turn = "prune" /\ (result' = result \/ PruneGivesUp)
    BY <1>5 DEF PruneSpan, Take
  <2> QED
    BY <1>2, <2>1, RefusedIsNoWorse
<1>6. ASSUME PruneTooFew PROVE NoWorse
  BY <1>6, RefusedIsNoWorse DEF PruneTooFew
<1>7. ASSUME SpanCancelled PROVE NoWorse
  <2>1. cancelFile /\ result' = Cancelled
    BY <1>7 DEF SpanCancelled, Become
  <2>2. ~Cancelled.converged
    BY EmptyIsGood
  <2> QED
    BY <2>1, <2>2 DEF NoWorse
<1>8. ASSUME TakeSpan PROVE NoWorse
  <2>1. result' = result \/ result' = AppendNote(result, "forward_rejected")
    BY <1>8 DEF TakeSpan, Take, Become
  <2> QED
    BY <1>2, <2>1, NoteIsNoWorse
<1>9. ASSUME HostCancels \/ PruneAllSamples \/ ConsiderForward \/ TemporalReturned
      PROVE  NoWorse
  BY <1>9, <1>2 DEF HostCancels, PruneAllSamples, ConsiderForward, TemporalReturned,
                    temporalVars
<1>10. ASSUME Ineligible \/ PrecheckMultiMode \/ SolvePlacement PROVE NoWorse
  BY <1>10, <1>1 DEF Ineligible, PrecheckMultiMode, SolvePlacement
<1> QED
  BY <1>3, <1>4, <1>5, <1>6, <1>7, <1>8, <1>9, <1>10, PruneIsNoWorse,
     MultiModeIsNoWorse, ForwardIsNoWorse DEF TemporalNext, Solve

\* A converged result is given up only for a converged one with no more keys, or
\* for a cancel.
THEOREM ResultsOnlyImprove == TemporalSpec => NeverTradesForWorse
<1>1. TemporalInv /\ [TemporalNext]_temporalVars
        => [result.converged /\ result' # result =>
              IF result'.converged THEN Len(result'.keys) <= Len(result.keys)
              ELSE cancelFile]_temporalVars
  BY StepIsNoWorse DEF NoWorse
<1> QED
  BY <1>1, TemporalInvariance, PTL DEF TemporalSpec, NeverTradesForWorse
==============================================================================
