--------------------------- MODULE MCPathMultiMode ---------------------------
(***************************************************************************)
(* Small calls of the multi-mode solver: paths of three or four vertices   *)
(* over five samples, whose vertices stand, move evenly, ease, jerk or     *)
(* move late, with and without budgets.                                    *)
(***************************************************************************)
EXTENDS PathMultiMode

Motion(a, b, c, d, e) == <<a, b, c, d, e>>
Still == Motion(0, 0, 0, 0, 0)
Even == Motion(0, 2, 4, 6, 8)
EasedIn == Motion(0, 1, 3, 7, 8)
Jerk == Motion(0, 8, 0, 8, 0)
Late == Motion(0, 0, 0, 0, 8)

\* Near an ease that starts fast, but too far from even for a region; two eases
\* that are the reverse of one another, and one of them backwards.
Fast == Motion(0, 5, 5, 7, 8)
Rushed == Motion(0, 20, 20, 27, 27)
Delayed == Motion(0, 0, 7, 7, 27)
Backwards == Motion(0, -20, -20, -27, -27)

\* Even enough when its progress is rounded to a step of the grid, but not else.
Rounded == Motion(0, 9, 22, 32, 50)

Along(motions) ==
  [v \in 0 .. Len(motions) - 1 |-> [k \in 0 .. 4 |-> motions[v + 1][k + 1]]]

Paths ==
  {Along(<<a, b, c>>) : a \in {Still, Even, EasedIn, Jerk, Late},
                        b \in {Still, Even, EasedIn, Jerk, Late},
                        c \in {Still, EasedIn, Late}}
  \cup {Along(<<a, b, b, c>>) : a \in {Still, Late}, b \in {Even, Jerk},
                                c \in {Even, EasedIn}}
  \cup {Along(<<Still, Rounded, Still>>), Along(<<Still, Fast, Still>>),
        Along(<<Fast, Even, Late>>), Along(<<Delayed, Rushed, Rushed, Backwards>>),
        Along(<<Delayed, Rushed, Rushed>>), Along(<<Rushed, Delayed, Rushed, Still>>)}
  \cup {[v \in 0 .. 2 |-> [k \in {0} |-> v]]}      \* one sample

\* The source may have been off by one at a sample when it was reduced.
Originals(p) == {p, [p EXCEPT ![0][2] = @ + 1]}

Call(entry, p, original, checks, percent, large, deep) ==
  [entry |-> entry, path |-> p, original |-> original, checks |-> checks,
   keyPercent |-> percent, large |-> large, deep |-> deep]

MCCalls ==
  {Call("temporal", p, p, 0, percent, FALSE, FALSE) : p \in Paths, percent \in {0, 60}}
  \cup {Call("temporal", p, o, checks, 0, large, FALSE) :
          p \in {Along(<<Jerk, Late, EasedIn>>)},
          o \in Originals(Along(<<Jerk, Late, EasedIn>>)),
          checks \in {0, 12, 25}, large \in BOOLEAN}
  \cup {Call("subpaths", p, p, 0, 0, FALSE, deep) : p \in Paths, deep \in BOOLEAN}
  \cup {Call("summary", p, p, 0, 0, FALSE, FALSE) : p \in Paths}
  \cup {Call(entry, p, p, 12, 0, FALSE, TRUE) :
          entry \in {"subpaths", "summary"}, p \in {Along(<<Late, Jerk, Late>>)}}

Eases == {<<90, 10>>, <<10, 90>>}

\* The fixture of the test of the semantic split: two vertices that start late,
\* two that start early, each pair along an ease of its own.
OpposedSemanticTiming == Along(<<Delayed, Delayed, Rushed, Rushed>>)

OpposedCalls ==
  {Call("subpaths", OpposedSemanticTiming, OpposedSemanticTiming, 10000, 0, FALSE, TRUE)}

\* What the test expects of it: the two pairs are emitted as a semantic split.
OpposedTimingIsSplit ==
  pc = "done" /\ out.converged => out.notes = "semantic_split"
==============================================================================
