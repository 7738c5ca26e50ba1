---------------------------- MODULE ProgressStream ----------------------------
(***************************************************************************)
(* ProgressWriter::Emit.  The tasks of a parallel loop share one writer.   *)
(* Emit locks the writer's mutex and writes its line with as many write(2) *)
(* calls as it takes; a call may write a part of what is left, and one     *)
(* that fails, or writes nothing, makes Emit throw and leave the line as   *)
(* it is.  An interrupted call (EINTR) is repeated and changes nothing, so *)
(* it is a stuttering step here.                                           *)
(***************************************************************************)
EXTENDS LineStream

CONSTANT WritesMayFail   \* whether write(2) fails other than with EINTR

VARIABLES
  holder,     \* who holds mutex_: nobody, or one emitter
  remaining   \* bytes the holder has left to write

writerVars == <<stream, emitted, failed, holder, remaining>>

WriterInit == StreamInit /\ holder = {} /\ remaining = 0

\* Emit as it would be without the lock_guard.
LockIgnored(e) ==
  /\ Pending(e) /\ e \notin holder
  /\ holder' = {e} /\ remaining' = LineLength
  /\ UNCHANGED <<stream, emitted, failed>>

Lock(e) ==
  /\ holder = {} /\ Pending(e)
  /\ holder' = {e} /\ remaining' = LineLength
  /\ UNCHANGED <<stream, emitted, failed>>

Written == LineLength - remaining

\* What a call would write if every one started over.
ChunkFromStart(e, c) == SubSeq(Line(e, emitted[e] + 1), 1, c)

\* The data pointer advances by what was written.
Chunk(e, c) == SubSeq(Line(e, emitted[e] + 1), Written + 1, Written + c)

Write(e) ==
  /\ holder = {e}
  /\ \E c \in 1 .. remaining :
       /\ stream' = stream \o Chunk(e, c)
       /\ remaining' = remaining - c
  /\ UNCHANGED <<emitted, failed, holder>>

\* ... and without the guard's destructor: nobody can unlock.
WriteFailsHoldingLock(e) ==
  /\ WritesMayFail /\ holder = {e} /\ remaining > 0
  /\ holder' = Emitters /\ remaining' = 0
  /\ failed' = failed \cup {e}
  /\ UNCHANGED <<stream, emitted>>

WriteFails(e) ==
  /\ WritesMayFail /\ holder = {e} /\ remaining > 0
  /\ holder' = {} /\ remaining' = 0
  /\ failed' = failed \cup {e}
  /\ UNCHANGED <<stream, emitted>>

Unlock(e) ==
  /\ holder = {e} /\ remaining = 0
  /\ holder' = {}
  /\ emitted' = [emitted EXCEPT ![e] = @ + 1]
  /\ UNCHANGED <<stream, failed, remaining>>

Emit(e) == Lock(e) \/ Write(e) \/ WriteFails(e) \/ Unlock(e)

WriterNext == \E e \in Emitters : Emit(e)

WriterSpec == WriterInit /\ [][WriterNext]_writerVars
------------------------------------------------------------------------------
(* The holder has written the first bytes of its line, right at the end.   *)
InFlight == IF holder = {} THEN 0 ELSE Written

WriterTypeOK ==
  /\ stream \in Seq(Emitters \X (1 .. Events) \X (1 .. LineLength))
  /\ emitted \in [Emitters -> 0 .. Events]
  /\ failed \subseteq Emitters
  /\ holder = {} \/ \E e \in Emitters : holder = {e} /\ Pending(e)
  /\ remaining \in 0 .. LineLength
  /\ holder = {} => remaining = 0

Follows(x, y) ==
  \/ y = <<x[1], x[2], x[3] + 1>>
  \/ (x[3] = LineLength /\ y[3] = 1)

\* docs/API_REFERENCE.md:359 "Each line is a complete JSON object": whatever
\* the tasks of a parallel loop emit together, the bytes of a line stand
\* together and the next line starts after its newline, except behind an Emit
\* that threw: a write that fails half way spoils at most that line and the
\* one after it.
OnlyAThrowTearsALine ==
  \A i \in 1 .. Len(stream) - 1 :
    \/ Follows(stream[i], stream[i + 1])
    \/ (stream[i][1] \in failed /\ stream[i + 1][3] = 1)

\* The writer is an event stream in that sense: up to the bytes in flight,
\* what it writes is whole lines and the rests of failed ones.
Committed == SubSeq(stream, 1, Len(stream) - InFlight)
Promise == INSTANCE LineStream WITH stream <- Committed
KeepsPromise == Promise!StreamSpec

\* No task waits for the writer for ever, not even behind one that threw.
EveryEmitReturns ==
  <>(\A e \in Emitters : e \in failed \/ emitted[e] = Events)
==============================================================================
