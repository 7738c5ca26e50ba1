----------------------------- MODULE MCKeyFidelity -----------------------------
(***************************************************************************)
(* How well keys follow samples: the fit of one segment, or the cleanup of *)
(* the keys of one property.  Each run is of one of the two, and the other *)
(* stands still.                                                           *)
(***************************************************************************)
EXTENDS MCSegmentFit, MCKeyCleanup

VARIABLE part    \* what is explored

fidelityVars == <<part, vars, cleanupVars>>

FidelityInit ==
  \/ /\ part = "fit" /\ clip = CHOOSE c \in Clips : TRUE
     /\ CleanupInit /\ Init
  \/ /\ part = "cleanup" /\ call = CHOOSE c \in Calls : TRUE
     /\ Init /\ CleanupInit

Fits == part = "fit" /\ Next /\ UNCHANGED <<part, cleanupVars>>
CleansUp == part = "cleanup" /\ CleanupNext /\ UNCHANGED <<part, vars>>

FidelitySpec == FidelityInit /\ [][Fits \/ CleansUp]_fidelityVars
==============================================================================
