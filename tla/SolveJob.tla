------------------------------ MODULE SolveJob ------------------------------
(***************************************************************************)
(* What `bbsolver solve` promises the process that launched it.  The host  *)
(* sees two things: the output bundle and the exit code.  Properties are   *)
(* solved one at a time, the bundle is written at most once, and the exit  *)
(* code says truthfully which bundle is there: 0 a complete one, 5 a       *)
(* partial one that covers a prefix of the properties, and either of them  *)
(* to its last byte.  A write cut short leaves only exit code 1.           *)
(***************************************************************************)
EXTENDS Integers

CONSTANT N        \* number of properties in the sample bundle

VARIABLES solved,   \* properties whose results are final
          bundle,   \* the output file: kind, how many properties, all its bytes?
          exit      \* the exit code, -1 while the process runs

vars == <<solved, bundle, exit>>

NoBundle == [kind |-> "none", count |-> 0, whole |-> FALSE]
Undecided == exit = -1 /\ bundle = NoBundle

Init == solved = 0 /\ Undecided

SolveProperty ==
  /\ Undecided /\ solved < N
  /\ solved' = solved + 1
  /\ UNCHANGED <<bundle, exit>>

\* Only a full set of results is published as complete.
PublishComplete ==
  /\ Undecided /\ solved = N
  /\ \E whole \in BOOLEAN :
       bundle' = [kind |-> "complete", count |-> N, whole |-> whole]
  /\ UNCHANGED <<solved, exit>>

Succeed == /\ exit = -1 /\ bundle.kind = "complete" /\ bundle.whole
           /\ exit' = 0 /\ UNCHANGED <<solved, bundle>>

\* A partial bundle covers what was solved, and comes with exit code 5.
Cancel == /\ Undecided
          /\ bundle' = [kind |-> "partial", count |-> solved, whole |-> TRUE]
          /\ exit' = 5 /\ UNCHANGED solved

Fail == exit = -1 /\ exit' = 1 /\ UNCHANGED <<solved, bundle>>

RejectUsage == /\ Undecided /\ solved = 0
               /\ exit' = 2 /\ UNCHANGED <<solved, bundle>>

Next == SolveProperty \/ PublishComplete \/ Succeed \/ Cancel \/ Fail
        \/ RejectUsage

Spec == Init /\ [][Next]_vars
=============================================================================
