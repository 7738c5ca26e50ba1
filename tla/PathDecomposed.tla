---------------------------- MODULE PathDecomposed ----------------------------
(***************************************************************************)
(* SolvePathDecomposedProperty: a path is solved whole, then taken apart   *)
(* into the channels of its vertices, which are solved in parallel, put    *)
(* together again on the key times of the whole path, and kept only if     *)
(* that is better.  The tasks of the loop share a cancel flag, a counter   *)
(* and the progress stream, whose Emit is one step here (ProgressStream).  *)
(***************************************************************************)
EXTENDS Integers, Sequences, FiniteSets

CONSTANTS
  Children,      \* the channels of the path's vertices
  Workers,       \* tasks the loop runs at a time
  Errors,        \* ranks of max_err; those up to Tolerance pass
  Tolerance,
  EmitMayThrow   \* whether the progress stream can fail

ASSUME DecomposedAssumption ==
  /\ IsFiniteSet(Children) /\ Children # {} /\ Workers \in Nat \ {0}
  /\ Errors \subseteq Nat /\ Errors # {} /\ Tolerance \in Nat

VARIABLES
  pc,           \* where SolvePathDecomposedProperty is
  flat,         \* flat_keys
  child,        \* where the task of each child is
  childKeys,    \* child_keys of each task, its child_results slot once finished
  cancelled,    \* the atomic flag
  doneCount,    \* child_done_count
  childDone,    \* what a task's fetch_add returned, plus one
  events,       \* child_done of the vert_done events, as they were written
  reassembled,  \* the keys put together from the children
  result,       \* what is returned
  cancelFile    \* whether the cancel file is there

loopVars == <<child, childKeys, cancelled, doneCount, childDone, events>>
vars == <<pc, flat, loopVars, reassembled, result, cancelFile>>

Outcomes == {"none", "cancelled", "converged", "not_converged", "empty"}
TaskStates ==
  {"waiting", "solving", "solved", "emitting", "emitted", "finished",
   "skipped", "threw"}
Keys == [from : {"nothing", "flat", "children", "cancelled"},
         cancelled : BOOLEAN, converged : BOOLEAN, err : Errors]

Nothing == [from |-> "nothing", cancelled |-> FALSE, converged |-> FALSE,
            err |-> CHOOSE e \in Errors : TRUE]

Init ==
  /\ pc = "flat" /\ flat = Nothing
  /\ child = [c \in Children |-> "waiting"]
  /\ childKeys = [c \in Children |-> "none"]
  /\ cancelled = FALSE /\ doneCount = 0
  /\ childDone = [c \in Children |-> 0] /\ events = <<>>
  /\ reassembled = Nothing /\ result = Nothing
  /\ cancelFile = FALSE

HostTouchesCancelFile ==
  /\ pc \notin {"done", "threw"}
  /\ cancelFile' = ~cancelFile
  /\ UNCHANGED <<pc, flat, loopVars, reassembled, result>>

------------------------------------------------------------------------------
(***************************************************************************)
(* Before the loop.  A plain solve that polls while the file is there      *)
(* gives up; one that does not poll any more converges or not.             *)
(***************************************************************************)
SolveFlat ==
  /\ pc = "flat" /\ pc' = "decompose"
  /\ \E gaveUp \in {FALSE, cancelFile}, converged \in BOOLEAN, e \in Errors :
       flat' = [from |-> "flat", cancelled |-> gaveUp,
                converged |-> converged /\ ~gaveUp, err |-> e]
  /\ UNCHANGED <<loopVars, reassembled, result, cancelFile>>

Return(keys) == pc' = "done" /\ result' = keys

\* Cancelled, not a path, or a path whose vertices come and go.
ReturnFlat ==
  /\ pc = "decompose"
  /\ Return(flat)
  /\ UNCHANGED <<flat, loopVars, reassembled, cancelFile>>

StartChildren ==
  /\ pc = "decompose" /\ ~flat.cancelled /\ ~cancelFile
  /\ pc' = "children"
  /\ UNCHANGED <<flat, loopVars, reassembled, result, cancelFile>>

------------------------------------------------------------------------------
(***************************************************************************)
(* solve_child.                                                            *)
(***************************************************************************)
Running == {c \in Children :
              child[c] \in {"solving", "solved", "emitting", "emitted"}}

\* A body that throws cancels the loop: no further body starts.
Stopped == \E c \in Children : child[c] = "threw"

Becomes(c, state) == child' = [child EXCEPT ![c] = state]

TaskStarts(c) ==
  /\ child[c] = "waiting" /\ Cardinality(Running) < Workers
  /\ Becomes(c, IF cancelled \/ Stopped THEN "skipped" ELSE "solving")
  /\ UNCHANGED <<childKeys, cancelled, doneCount, childDone, events>>

TaskSolves(c) ==
  /\ child[c] = "solving"
  /\ \E outcome \in Outcomes \ {"none"} :
       /\ outcome = "cancelled" => cancelFile
       /\ childKeys' = [childKeys EXCEPT ![c] = outcome]
  /\ Becomes(c, "solved")
  /\ UNCHANGED <<cancelled, doneCount, childDone, events>>

TaskCounts(c) ==
  /\ child[c] = "solved"
  /\ doneCount' = doneCount + 1
  /\ childDone' = [childDone EXCEPT ![c] = doneCount + 1]
  /\ Becomes(c, "emitting")
  /\ UNCHANGED <<childKeys, cancelled, events>>

TaskEmits(c) ==
  /\ child[c] = "emitting"
  /\ events' = Append(events, childDone[c])
  /\ Becomes(c, "emitted")
  /\ UNCHANGED <<childKeys, cancelled, doneCount, childDone>>

\* The keys of a task that throws never reach its slot.
TaskThrows(c) ==
  /\ EmitMayThrow /\ child[c] = "emitting"
  /\ Becomes(c, "threw")
  /\ UNCHANGED <<childKeys, cancelled, doneCount, childDone, events>>

\* The poll alone, without the note of the keys.
TaskFinishesByPoll(c) ==
  /\ child[c] = "emitted"
  /\ cancelled' = (cancelled \/ cancelFile)
  /\ Becomes(c, "finished")
  /\ UNCHANGED <<childKeys, doneCount, childDone, events>>

TaskFinishes(c) ==
  /\ child[c] = "emitted"
  /\ cancelled' = (cancelled \/ childKeys[c] = "cancelled" \/ cancelFile)
  /\ Becomes(c, "finished")
  /\ UNCHANGED <<childKeys, doneCount, childDone, events>>

Task(c) ==
  \/ TaskStarts(c) \/ TaskSolves(c) \/ TaskCounts(c)
  \/ TaskEmits(c) \/ TaskThrows(c) \/ TaskFinishes(c)

SolveChildren ==
  /\ pc = "children"
  /\ \E c \in Children : Task(c)
  /\ UNCHANGED <<pc, flat, reassembled, result, cancelFile>>

------------------------------------------------------------------------------
(***************************************************************************)
(* After the loop.                                                         *)
(***************************************************************************)
Joined ==
  /\ pc = "children"
  /\ \A c \in Children : child[c] \in {"finished", "skipped", "threw"}

RethrowFromLoop ==
  /\ Joined /\ Stopped
  /\ pc' = "threw"
  /\ UNCHANGED <<flat, loopVars, reassembled, result, cancelFile>>

ReturnCancelled ==
  /\ Joined /\ ~Stopped /\ cancelled
  /\ Return([Nothing EXCEPT !.from = "cancelled", !.cancelled = TRUE])
  /\ UNCHANGED <<flat, loopVars, reassembled, cancelFile>>

\* ReassemblePathKeys on the times of the flat keys, of which a solve that was
\* not cancelled has at least one; then PassesKeyValidation against the
\* samples, whose screen error is free.
ReassemblePathKeys ==
  /\ Joined /\ ~Stopped /\ ~cancelled
  /\ pc' = "validated"
  /\ \E e \in Errors, screenOk \in BOOLEAN :
       reassembled' =
         [from |-> "children", cancelled |-> FALSE, err |-> e,
          converged |-> /\ \A c \in Children : childKeys[c] = "converged"
                        /\ e <= Tolerance /\ screenOk]
  /\ UNCHANGED <<flat, loopVars, result, cancelFile>>

\* Keys that do not validate would win here if they had the smaller error.
PrefersFlatByError == flat.err <= reassembled.err

PrefersFlat ==
  \/ ~reassembled.converged
  \/ (flat.converged /\ flat.err <= reassembled.err)

ChooseResult ==
  /\ pc = "validated"
  /\ Return(IF PrefersFlat THEN flat ELSE reassembled)
  /\ UNCHANGED <<flat, loopVars, reassembled, cancelFile>>

Solve ==
  \/ SolveFlat \/ ReturnFlat \/ StartChildren \/ SolveChildren
  \/ RethrowFromLoop \/ ReturnCancelled \/ ReassemblePathKeys \/ ChooseResult

Returned == pc \in {"done", "threw"} /\ UNCHANGED vars

Next == HostTouchesCancelFile \/ Solve \/ Returned

Spec == Init /\ [][Next]_vars
------------------------------------------------------------------------------
TypeOK ==
  /\ pc \in {"flat", "decompose", "children", "validated", "done", "threw"}
  /\ flat \in Keys /\ reassembled \in Keys /\ result \in Keys
  /\ child \in [Children -> TaskStates]
  /\ childKeys \in [Children -> Outcomes]
  /\ cancelled \in BOOLEAN /\ cancelFile \in BOOLEAN
  /\ doneCount \in 0 .. Cardinality(Children)
  /\ childDone \in [Children -> 0 .. Cardinality(Children)]

\* Keys are only put together when every slot of child_results was filled by
\* a solve that ran to its end: no child skipped for the flag, none that gave
\* up on a file that is gone by now, none lost to an exception.
NoChildLost ==
  pc = "validated" =>
    \A c \in Children :
      child[c] = "finished" /\ childKeys[c] \notin {"none", "cancelled"}

\* Taking the path apart never loses what the whole path had: a result that
\* is not the report of a cancel converged if the flat keys did, and is no
\* further from the samples; one made of children is validated.
DecompositionOnlyImproves ==
  (pc = "done" /\ result.from # "cancelled") =>
    /\ flat.converged => (result.converged /\ result.err <= flat.err)
    /\ result.from = "children" => (result.converged /\ result.err <= Tolerance)
==============================================================================
