------------------------ MODULE MCPostSolveReduction ------------------------
(***************************************************************************)
(* Two keys, with the same number of vertices or not.                      *)
(***************************************************************************)
EXTENDS PostSolveReduction

MCKeys == {<<5, 5>>, <<5, 4>>, <<3, 5>>, <<4, 4>>}

\* Three in a row that tie two and two.
MCErrors == {0, 1, 2}
MCScreenErrors == {0, 2}

\* In both keys vertex 2 is sharp, in the second one only as long as vertex 3
\* follows; in the first one vertex 4 becomes sharp when vertex 3 goes.
MCCorners ==
  ({1} \X {0, 1} \X {2} \X (0 .. 4)) \cup ({2} \X {0, 1} \X {2} \X {3})
    \cup ({1} \X (0 .. 2) \X {4} \X {0})
==============================================================================
