---------------------------- MODULE MCParallelTasks ----------------------------
(***************************************************************************)
(* The threads of the solver: the tasks that solve the three channels of   *)
(* one vertex, two at a time, or three tasks that write two events each of *)
(* three bytes to one progress stream.  Each run is of one of the two, and *)
(* the other stands still.                                                 *)
(***************************************************************************)
EXTENDS PathDecomposed, ProgressStream

CONSTANTS vert, in_tangent, out_tangent, e1, e2, e3

MCChildren == {vert, in_tangent, out_tangent}
MCErrors == 0 .. 2
MCEmitters == {e1, e2, e3}

VARIABLE part    \* what is explored

parallelVars == <<part, vars, writerVars>>

ParallelInit == part \in {"path", "stream"} /\ Init /\ WriterInit

SolvesPath == part = "path" /\ Next /\ UNCHANGED <<part, writerVars>>

WritesStream == part = "stream" /\ WriterNext /\ UNCHANGED <<part, vars>>

\* That the tasks do not get stuck is EveryTaskGetsThrough.
StreamRests == part = "stream" /\ UNCHANGED parallelVars

(***************************************************************************)
(* A thread that can run does: the scheduler never stops the process, and  *)
(* a blocked write(2) returns because the host drains the pipe.            *)
(***************************************************************************)
ParallelSpec ==
  /\ ParallelInit
  /\ [][SolvesPath \/ WritesStream \/ StreamRests]_parallelVars
  /\ WF_parallelVars(WritesStream)

\* EveryEmitReturns, where the stream is explored: no task waits for the mutex
\* of ProgressWriter::Emit for ever, not even behind one that threw.
EveryTaskGetsThrough == part = "stream" => EveryEmitReturns
==============================================================================
