-------------------------- MODULE ParallelTasks_proofs --------------------------
(***************************************************************************)
(* The threads of the solver.  The children of a path that is taken apart, *)
(* for every number of them and of workers: no channel is missing from     *)
(* what is put together, and the result is no worse than the whole path's. *)
(* And the progress stream their tasks share, for every number of tasks,   *)
(* events and bytes of a line: the writer keeps lines apart.               *)
(***************************************************************************)
EXTENDS PathDecomposed, ProgressStream, SequenceTheorems, TLAPS

(***************************************************************************)
(* The children of a path.                                                 *)
(***************************************************************************)
ChildTypes ==
  /\ child \in [Children -> TaskStates]
  /\ childKeys \in [Children -> Outcomes]
  /\ cancelled \in BOOLEAN

KeyTypes ==
  /\ flat \in Keys /\ reassembled \in Keys /\ result \in Keys
  /\ cancelFile \in BOOLEAN

\* What has become of the keys of a child: a task past its solve has an
\* outcome, one that found the solve cancelled has raised the flag, and one
\* that was skipped saw the flag or an exception.
SlotsTell ==
  \A c \in Children :
    /\ child[c] \in {"solved", "emitting", "emitted", "finished"}
         => childKeys[c] # "none"
    /\ child[c] = "finished" /\ childKeys[c] = "cancelled" => cancelled
    /\ child[c] = "skipped" => cancelled \/ Stopped

\* The candidates are what they are called.
KeysAre ==
  /\ pc # "flat" => flat.from = "flat"
  /\ pc = "flat" => flat.from = "nothing"
  /\ pc = "validated" => reassembled.from = "children"
  /\ reassembled.converged => reassembled.err <= Tolerance

IInv ==
  /\ ChildTypes /\ KeyTypes /\ SlotsTell /\ KeysAre
  /\ NoChildLost /\ DecompositionOnlyImproves

------------------------------------------------------------------------------
LEMMA NothingType == Nothing \in Keys /\ Nothing.converged = FALSE
<1>1. \E e \in Errors : TRUE
  BY DecomposedAssumption
<1>2. (CHOOSE e \in Errors : TRUE) \in Errors
  BY <1>1
<1> QED
  BY <1>2 DEF Nothing, Keys

LEMMA Initially == Init => IInv
<1> SUFFICES ASSUME Init PROVE IInv
  OBVIOUS
<1>1. ChildTypes /\ KeyTypes
  BY NothingType DEF Init, ChildTypes, KeyTypes, TaskStates, Outcomes
<1>2. SlotsTell
  BY DEF Init, SlotsTell
<1>3. KeysAre
  BY NothingType DEF Init, KeysAre, Nothing
<1> QED
  BY <1>1, <1>2, <1>3 DEF Init, IInv, NoChildLost, DecompositionOnlyImproves

------------------------------------------------------------------------------
\* Each step of a task keeps the slots telling.
LEMMA TaskKeeps ==
  ASSUME ChildTypes, SlotsTell, NEW c \in Children, Task(c)
  PROVE  ChildTypes' /\ SlotsTell'
<1> USE DEF ChildTypes, TaskStates, Outcomes
<1>1. CASE TaskStarts(c)
  <2>1. /\ child[c] = "waiting" /\ UNCHANGED <<childKeys, cancelled>>
        /\ \/ child' = [child EXCEPT ![c] = "skipped"] /\ (cancelled \/ Stopped)
           \/ child' = [child EXCEPT ![c] = "solving"]
    BY <1>1 DEF TaskStarts, Becomes
  <2>2. Stopped => Stopped'
    BY <2>1 DEF Stopped
  <2>3. ChildTypes'
    BY <2>1
  <2> QED
    BY <2>1, <2>2, <2>3 DEF SlotsTell
<1>2. CASE TaskSolves(c)
  <2>1. /\ child[c] = "solving" /\ UNCHANGED cancelled
        /\ child' = [child EXCEPT ![c] = "solved"]
    BY <1>2 DEF TaskSolves, Becomes
  <2>2. PICK outcome \in Outcomes \ {"none"} :
          childKeys' = [childKeys EXCEPT ![c] = outcome]
    BY <1>2 DEF TaskSolves
  <2>3. Stopped => Stopped'
    BY <2>1 DEF Stopped
  <2> QED
    BY <2>1, <2>2, <2>3 DEF SlotsTell
<1>3. CASE TaskCounts(c) \/ TaskEmits(c)
  <2>1. /\ UNCHANGED <<childKeys, cancelled>>
        /\ \/ child[c] = "solved" /\ child' = [child EXCEPT ![c] = "emitting"]
           \/ child[c] = "emitting" /\ child' = [child EXCEPT ![c] = "emitted"]
    BY <1>3 DEF TaskCounts, TaskEmits, Becomes
  <2>2. Stopped => Stopped'
    BY <2>1 DEF Stopped
  <2> QED
    BY <2>1, <2>2 DEF SlotsTell
<1>4. CASE TaskThrows(c)
  <2>1. /\ child[c] = "emitting" /\ UNCHANGED <<childKeys, cancelled>>
        /\ child' = [child EXCEPT ![c] = "threw"]
    BY <1>4 DEF TaskThrows, Becomes
  <2>2. Stopped'
    BY <2>1 DEF Stopped
  <2> QED
    BY <2>1, <2>2 DEF SlotsTell
<1>5. CASE TaskFinishes(c)
  <2>1. /\ child[c] = "emitted" /\ UNCHANGED childKeys
        /\ child' = [child EXCEPT ![c] = "finished"]
        /\ cancelled' = (cancelled \/ childKeys[c] = "cancelled" \/ cancelFile)
    BY <1>5 DEF TaskFinishes, Becomes
  <2>2. Stopped => Stopped'
    BY <2>1 DEF Stopped
  <2>3. cancelled' \in BOOLEAN
    BY <2>1
  <2>4. cancelled \/ childKeys[c] = "cancelled" => cancelled'
    BY <2>1
  <2> QED
    BY <2>1, <2>2, <2>3, <2>4 DEF SlotsTell
<1> QED
  BY <1>1, <1>2, <1>3, <1>4, <1>5 DEF Task

\* A step that is not a task's.
LEMMA SlotsStay ==
  ASSUME ChildTypes, SlotsTell, UNCHANGED loopVars
  PROVE  ChildTypes' /\ SlotsTell'
BY DEF ChildTypes, SlotsTell, loopVars, Stopped

------------------------------------------------------------------------------
LEMMA NextKeeps ==
  ASSUME IInv, [Next]_vars
  PROVE  IInv'
<1> USE DEF IInv, Keys
<1>1. CASE HostTouchesCancelFile
  BY <1>1, SlotsStay DEF HostTouchesCancelFile, KeyTypes, KeysAre, NoChildLost,
     DecompositionOnlyImproves, loopVars
<1>2. CASE SolveFlat
  <2>1. PICK gaveUp \in {FALSE, cancelFile}, converged \in BOOLEAN, e \in Errors :
          flat' = [from |-> "flat", cancelled |-> gaveUp,
                   converged |-> converged /\ ~gaveUp, err |-> e]
    BY <1>2 DEF SolveFlat
  <2>2. gaveUp \in BOOLEAN /\ (converged /\ ~gaveUp) \in BOOLEAN
    BY <2>1 DEF KeyTypes
  <2>3. flat' \in Keys /\ flat'.from = "flat"
    BY <2>1, <2>2
  <2> QED
    BY <1>2, <2>3, SlotsStay DEF SolveFlat, KeyTypes, KeysAre, NoChildLost,
       DecompositionOnlyImproves
<1>3. CASE ReturnFlat
  <2>1. /\ pc = "decompose" /\ pc' = "done" /\ result' = flat
        /\ UNCHANGED <<flat, loopVars, reassembled, cancelFile>>
    BY <1>3 DEF ReturnFlat, Return
  <2>2. flat.err \in Nat /\ flat.from = "flat"
    BY <2>1, DecomposedAssumption DEF KeyTypes, KeysAre
  <2> QED
    BY <2>1, <2>2, SlotsStay DEF KeyTypes, KeysAre, NoChildLost,
       DecompositionOnlyImproves
<1>4. CASE StartChildren
  BY <1>4, SlotsStay DEF StartChildren, KeyTypes, KeysAre, NoChildLost,
     DecompositionOnlyImproves
<1>5. CASE SolveChildren
  <2>1. PICK c \in Children : Task(c)
    BY <1>5 DEF SolveChildren
  <2> QED
    BY <1>5, <2>1, TaskKeeps DEF SolveChildren, KeyTypes, KeysAre, NoChildLost,
       DecompositionOnlyImproves
<1>6. CASE RethrowFromLoop
  BY <1>6, SlotsStay DEF RethrowFromLoop, Joined, KeyTypes, KeysAre, NoChildLost,
     DecompositionOnlyImproves
<1>7. CASE ReturnCancelled
  <2>1. /\ pc = "children" /\ pc' = "done"
        /\ result' = [Nothing EXCEPT !.from = "cancelled", !.cancelled = TRUE]
        /\ UNCHANGED <<flat, loopVars, reassembled, cancelFile>>
    BY <1>7 DEF ReturnCancelled, Return, Joined
  <2>2. result' \in Keys /\ result'.from = "cancelled"
    BY <2>1, NothingType
  <2> QED
    BY <2>1, <2>2, SlotsStay DEF KeyTypes, KeysAre, NoChildLost,
       DecompositionOnlyImproves
<1>8. CASE ReassemblePathKeys
  <2>1. /\ pc = "children" /\ pc' = "validated" /\ ~Stopped /\ ~cancelled
        /\ \A c \in Children : child[c] \in {"finished", "skipped", "threw"}
        /\ UNCHANGED <<flat, loopVars, result, cancelFile>>
    BY <1>8 DEF ReassemblePathKeys, Joined
  <2>2. PICK e \in Errors, screenOk \in BOOLEAN :
          reassembled' =
            [from |-> "children", cancelled |-> FALSE, err |-> e,
             converged |-> /\ \A c \in Children : childKeys[c] = "converged"
                           /\ e <= Tolerance /\ screenOk]
    BY <1>8 DEF ReassemblePathKeys
  <2>3. /\ reassembled' \in Keys /\ reassembled'.from = "children"
        /\ reassembled'.converged => reassembled'.err <= Tolerance
    BY <2>2
  <2>4. NoChildLost'
    <3> SUFFICES ASSUME NEW c \in Children
                 PROVE  child[c] = "finished" /\ childKeys[c] \notin {"none", "cancelled"}
      BY <2>1 DEF NoChildLost, loopVars
    <3>1. child[c] # "threw"
      BY <2>1 DEF Stopped
    <3>2. child[c] # "skipped"
      BY <2>1 DEF SlotsTell
    <3>3. child[c] = "finished"
      BY <2>1, <3>1, <3>2
    <3> QED
      BY <2>1, <3>3 DEF SlotsTell
  <2> QED
    BY <2>1, <2>3, <2>4, SlotsStay DEF KeyTypes, KeysAre, DecompositionOnlyImproves
<1>9. CASE ChooseResult
  <2>1. /\ pc = "validated" /\ pc' = "done"
        /\ result' = IF PrefersFlat THEN flat ELSE reassembled
        /\ UNCHANGED <<flat, loopVars, reassembled, cancelFile>>
    BY <1>9 DEF ChooseResult, Return
  <2>2. /\ flat.err \in Nat /\ reassembled.err \in Nat
        /\ flat.from = "flat" /\ reassembled.from = "children"
        /\ reassembled.converged => reassembled.err <= Tolerance
    BY <2>1, DecomposedAssumption DEF KeyTypes, KeysAre
  <2>3. result' \in Keys
    BY <2>1 DEF KeyTypes
  <2>4. DecompositionOnlyImproves'
    <3>1. CASE PrefersFlat
      BY <2>1, <2>2, <3>1 DEF DecompositionOnlyImproves
    <3>2. CASE ~PrefersFlat
      BY <2>1, <2>2, <3>2 DEF DecompositionOnlyImproves, PrefersFlat
    <3> QED
      BY <3>1, <3>2
  <2> QED
    BY <2>1, <2>2, <2>3, <2>4, SlotsStay DEF KeyTypes, KeysAre, NoChildLost
<1>10. CASE UNCHANGED vars
  BY <1>10, SlotsStay DEF vars, KeyTypes, KeysAre, NoChildLost,
     DecompositionOnlyImproves, loopVars
<1> QED
  BY <1>1, <1>2, <1>3, <1>4, <1>5, <1>6, <1>7, <1>8, <1>9, <1>10
     DEF Next, Solve, Returned

LEMMA Invariance == Spec => []IInv
BY Initially, NextKeeps, PTL DEF Spec

\* Whatever the interleaving, a channel that was skipped, gave up or threw is
\* never among those put together.
THEOREM EveryChildCounts == Spec => []NoChildLost
<1>1. IInv => NoChildLost
  BY DEF IInv
<1> QED
  BY <1>1, Invariance, PTL

\* A path taken apart is never worse than the whole path was.
THEOREM OnlyImproves == Spec => []DecompositionOnlyImproves
<1>1. IInv => DecompositionOnlyImproves
  BY DEF IInv
<1> QED
  BY <1>1, Invariance, PTL

------------------------------------------------------------------------------
(***************************************************************************)
(* The writer.                                                             *)
(***************************************************************************)
Bytes == Emitters \X (1 .. Events) \X (1 .. LineLength)

\* What the holder has written so far stands at the end of the stream.
HolderAtTheEnd ==
  /\ InFlight <= Len(stream)
  /\ \A e \in Emitters : holder = {e} =>
       \A i \in 1 .. InFlight :
         stream[Len(stream) - InFlight + i] = <<e, emitted[e] + 1, i>>

\* In front of it a line has ended, or one has been torn.
CommittedEndsALine ==
  LET last == Len(stream) - InFlight IN
    last > 0 => stream[last][3] = LineLength \/ stream[last][1] \in failed

WriterInv ==
  /\ WriterTypeOK
  /\ HolderAtTheEnd
  /\ CommittedEndsALine
  /\ OnlyAThrowTearsALine

\* A piece of a line is the bytes between its two positions.
LEMMA PieceOfLine ==
  ASSUME NEW e \in Emitters, NEW k \in 1 .. Events,
         NEW a \in Nat, NEW b \in Nat, a <= b, b <= LineLength
  PROVE  /\ SubSeq(Line(e, k), a + 1, b) \in Seq(Bytes)
         /\ Len(SubSeq(Line(e, k), a + 1, b)) = b - a
         /\ \A i \in 1 .. b - a :
              SubSeq(Line(e, k), a + 1, b)[i] = <<e, k, a + i>>
<1>1. \A i \in a + 1 .. b : Line(e, k)[i] = <<e, k, i>> /\ i \in 1 .. LineLength
  BY StreamAssumption DEF Line
<1>2. \A i \in a + 1 .. b : Line(e, k)[i] \in Bytes
  BY <1>1 DEF Bytes
<1>3. /\ SubSeq(Line(e, k), a + 1, b) \in Seq(Bytes)
      /\ Len(SubSeq(Line(e, k), a + 1, b)) =
           IF a + 1 <= b THEN b - (a + 1) + 1 ELSE 0
      /\ \A i \in 1 .. b - (a + 1) + 1 :
           SubSeq(Line(e, k), a + 1, b)[i] = Line(e, k)[a + 1 + i - 1]
  <2> DEFINE l == Line(e, k)
             f == a + 1
  <2>1. f \in Int /\ b \in Int /\ \A i \in f .. b : l[i] \in Bytes
    BY <1>2
  <2> HIDE DEF l, f
  <2>2. /\ SubSeq(l, f, b) \in Seq(Bytes)
        /\ Len(SubSeq(l, f, b)) = IF f <= b THEN b - f + 1 ELSE 0
        /\ \A i \in 1 .. b - f + 1 : SubSeq(l, f, b)[i] = l[f + i - 1]
    BY <2>1, SubSeqProperties
  <2> QED BY <2>2 DEF l, f
<1>4. Len(SubSeq(Line(e, k), a + 1, b)) = b - a
  BY <1>3
<1>5. ASSUME NEW i \in 1 .. b - a
      PROVE  SubSeq(Line(e, k), a + 1, b)[i] = <<e, k, a + i>>
  <2>1. i \in 1 .. b - (a + 1) + 1 /\ a + 1 + i - 1 = a + i
        /\ a + i \in a + 1 .. b
    OBVIOUS
  <2>2. SubSeq(Line(e, k), a + 1, b)[i] = Line(e, k)[a + i]
    BY <1>3, <2>1
  <2> QED BY <1>1, <2>1, <2>2
<1> QED BY <1>3, <1>4, <1>5

\* The piece a call to write(2) appends.
LEMMA ChunkAppended ==
  ASSUME WriterTypeOK, NEW e \in Emitters, holder = {e}, NEW c \in 1 .. remaining
  PROVE  LET t == stream \o Chunk(e, c) IN
         /\ t \in Seq(Bytes) /\ Len(t) = Len(stream) + c
         /\ \A i \in 1 .. Len(stream) : t[i] = stream[i]
         /\ \A i \in 1 .. c :
              t[Len(stream) + i] = <<e, emitted[e] + 1, Written + i>>
<1> DEFINE t == stream \o Chunk(e, c)
<1>1. /\ Written \in Nat /\ Written + c \in Nat /\ Written <= Written + c
      /\ Written + c <= LineLength /\ emitted[e] + 1 \in 1 .. Events
      /\ (Written + c) - Written = c
  <2>1. Pending(e)
    BY DEF WriterTypeOK
  <2>2. emitted[e] \in 0 .. Events /\ remaining \in 0 .. LineLength
    BY DEF WriterTypeOK
  <2> QED BY StreamAssumption, <2>1, <2>2 DEF Written, Pending
<1>2. /\ Chunk(e, c) \in Seq(Bytes) /\ Len(Chunk(e, c)) = c
      /\ \A i \in 1 .. c :
           Chunk(e, c)[i] = <<e, emitted[e] + 1, Written + i>>
  <2> HIDE DEF Bytes
  <2> DEFINE w == Written
             k == emitted[e] + 1
             d == Written + c
  <2>1. /\ SubSeq(Line(e, k), w + 1, d) \in Seq(Bytes)
        /\ Len(SubSeq(Line(e, k), w + 1, d)) = d - w
        /\ \A i \in 1 .. d - w :
             SubSeq(Line(e, k), w + 1, d)[i] = <<e, k, w + i>>
    <3>1. k \in 1 .. Events /\ w \in Nat /\ d \in Nat /\ w <= d /\ d <= LineLength
      BY <1>1
    <3> HIDE DEF k, w, d
    <3> QED BY <3>1, PieceOfLine
  <2>2. d - w = c
    BY <1>1
  <2> QED BY <2>1, <2>2 DEF Chunk
<1>3. stream \in Seq(Bytes)
  BY DEF WriterTypeOK, Bytes
<1>4. /\ t \in Seq(Bytes) /\ Len(t) = Len(stream) + Len(Chunk(e, c))
      /\ \A i \in 1 .. Len(stream) + Len(Chunk(e, c)) :
           t[i] = IF i <= Len(stream) THEN stream[i]
                  ELSE Chunk(e, c)[i - Len(stream)]
  <2> HIDE DEF Bytes
  <2> QED BY <1>2, <1>3, ConcatProperties, Zenon
<1>5. Len(stream) \in Nat
  BY <1>3
<1>6. ASSUME NEW i \in 1 .. c
      PROVE  t[Len(stream) + i] = <<e, emitted[e] + 1, Written + i>>
  <2>1. /\ Len(stream) + i \in 1 .. Len(stream) + c
        /\ ~(Len(stream) + i <= Len(stream))
        /\ (Len(stream) + i) - Len(stream) = i
    BY <1>5
  <2>2. t[Len(stream) + i] = Chunk(e, c)[i]
    BY <1>2, <1>4, <2>1
  <2> QED BY <1>2, <2>2
<1>7. ASSUME NEW i \in 1 .. Len(stream) PROVE t[i] = stream[i]
  BY <1>2, <1>4, <1>5
<1> QED BY <1>2, <1>4, <1>6, <1>7

LEMMA WriterInitially == WriterInit => WriterInv
<1> SUFFICES ASSUME WriterInit PROVE WriterInv
  OBVIOUS
<1> USE DEF WriterInit, StreamInit
<1>1. Len(stream) = 0 /\ InFlight = 0
  BY DEF InFlight
<1>2. WriterTypeOK
  BY StreamAssumption DEF WriterTypeOK
<1>3. HolderAtTheEnd /\ CommittedEndsALine
  BY <1>1 DEF HolderAtTheEnd, CommittedEndsALine
<1>4. OnlyAThrowTearsALine
  BY <1>1 DEF OnlyAThrowTearsALine
<1> QED BY <1>2, <1>3, <1>4 DEF WriterInv

LEMMA LockPreserves ==
  ASSUME WriterInv, NEW e \in Emitters, Lock(e)
  PROVE  WriterInv'
<1> USE DEF WriterInv, Lock
<1>1. InFlight' = 0 /\ InFlight = 0 /\ Len(stream) \in Nat
  BY StreamAssumption DEF InFlight, Written, WriterTypeOK
<1>2. WriterTypeOK'
  <2>1. Pending(e)' /\ holder' = {e}
    BY DEF Pending
  <2> QED BY <2>1, StreamAssumption DEF WriterTypeOK
<1>3. HolderAtTheEnd'
  BY <1>1 DEF HolderAtTheEnd
<1>4. CommittedEndsALine'
  BY <1>1 DEF CommittedEndsALine
<1>5. OnlyAThrowTearsALine'
  BY DEF OnlyAThrowTearsALine, Follows
<1> QED BY <1>2, <1>3, <1>4, <1>5

LEMMA WritePreserves ==
  ASSUME WriterInv, NEW e \in Emitters, Write(e)
  PROVE  WriterInv'
<1>1. PICK c \in 1 .. remaining :
        stream' = stream \o Chunk(e, c) /\ remaining' = remaining - c
  BY DEF Write
<1>2. /\ holder = {e} /\ WriterTypeOK
      /\ UNCHANGED <<emitted, failed, holder>>
  BY DEF Write, WriterInv
<1> DEFINE L == Len(stream)
           w == Written
           k == emitted[e] + 1
<1>3. /\ stream' \in Seq(Bytes) /\ Len(stream') = L + c
      /\ \A i \in 1 .. L : stream'[i] = stream[i]
      /\ \A i \in 1 .. c : stream'[L + i] = <<e, k, w + i>>
  <2>1. /\ stream' \in Seq(Bytes) /\ Len(stream') = Len(stream) + c
        /\ \A i \in 1 .. Len(stream) : stream'[i] = stream[i]
        /\ \A i \in 1 .. c :
             stream'[Len(stream) + i] = <<e, emitted[e] + 1, Written + i>>
    BY <1>1, <1>2, ChunkAppended
  <2> QED BY <2>1
<1>4. /\ L \in Nat /\ w \in Nat /\ w <= L /\ c \in 1 .. LineLength
      /\ w + c <= LineLength /\ InFlight = w /\ InFlight' = w + c
      /\ remaining' \in 0 .. LineLength
  <2>1. L \in Nat /\ remaining \in 0 .. LineLength
    BY <1>2 DEF WriterTypeOK
  <2>2. InFlight = w /\ InFlight <= L
    BY <1>2 DEF InFlight, WriterInv, HolderAtTheEnd
  <2>3. InFlight' = LineLength - remaining'
    BY <1>2 DEF InFlight, Written
  <2> QED BY <1>1, <2>1, <2>2, <2>3, StreamAssumption DEF Written
<1>5. k' = k
  BY <1>2
<1>6. \A i \in 1 .. w : stream[L - w + i] = <<e, k, i>>
  BY <1>2, <1>4 DEF WriterInv, HolderAtTheEnd
<1>7. L - w > 0 => stream[L - w][3] = LineLength \/ stream[L - w][1] \in failed
  BY <1>4 DEF WriterInv, CommittedEndsALine
<1>8. \A i \in 1 .. L - 1 : \/ Follows(stream[i], stream[i + 1])
                            \/ (stream[i][1] \in failed /\ stream[i + 1][3] = 1)
  BY DEF WriterInv, OnlyAThrowTearsALine
<1>9. WriterTypeOK'
  <2>1. stream' \in Seq(Emitters \X (1 .. Events) \X (1 .. LineLength))
    BY <1>3 DEF Bytes
  <2>2. Pending(e) /\ (Pending(e) => Pending(e)')
    BY <1>2 DEF WriterTypeOK, Pending
  <2>3. holder' # {}
    BY <1>2
  <2> QED BY <1>2, <1>4, <2>1, <2>2, <2>3 DEF WriterTypeOK
<1> HIDE DEF L, w, k
<1>10. HolderAtTheEnd'
  <2>1. ASSUME NEW i \in 1 .. w + c
        PROVE  stream'[L - w + i] = <<e, k, i>>
    <3>1. CASE i <= w
      <4>1. L - w + i \in 1 .. L /\ i \in 1 .. w
        BY <1>4, <3>1
      <4> QED BY <1>3, <1>6, <4>1
    <3>2. CASE i > w
      <4>1. i - w \in 1 .. c /\ L - w + i = L + (i - w) /\ w + (i - w) = i
        BY <1>4, <3>2
      <4> QED BY <1>3, <4>1
    <3> QED BY <1>4, <3>1, <3>2
  <2>2. Len(stream') - InFlight' = L - w
    BY <1>3, <1>4
  <2>3. InFlight' <= Len(stream')
    BY <1>3, <1>4
  <2>4. \A f \in Emitters : holder' = {f} => f = e
    BY <1>2
  <2> QED BY <1>2, <1>4, <1>5, <2>1, <2>2, <2>3, <2>4 DEF HolderAtTheEnd, k
<1>11. CommittedEndsALine'
  <2>1. Len(stream') - InFlight' = L - w
    BY <1>3, <1>4
  <2>2. L - w > 0 => stream'[L - w] = stream[L - w]
    BY <1>3, <1>4
  <2> QED BY <1>2, <1>7, <2>1, <2>2 DEF CommittedEndsALine
<1>12. OnlyAThrowTearsALine'
  <2> SUFFICES ASSUME NEW i \in 1 .. Len(stream') - 1
               PROVE  \/ Follows(stream'[i], stream'[i + 1])
                      \/ (stream'[i][1] \in failed /\ stream'[i + 1][3] = 1)
    BY <1>2 DEF OnlyAThrowTearsALine, Follows
  <2>0. i \in Nat /\ i >= 1 /\ i <= L + c - 1
    BY <1>3, <1>4
  <2>1. CASE i < L
    <3>1. i \in 1 .. L - 1 /\ i \in 1 .. L /\ i + 1 \in 1 .. L
      BY <1>4, <2>0, <2>1
    <3> QED BY <1>3, <1>8, <3>1
  <2>2. CASE i = L
    <3>1. stream'[i] = stream[L] /\ stream'[i + 1] = <<e, k, w + 1>>
      <4>1. L \in 1 .. L /\ 1 \in 1 .. c
        BY <1>4, <2>0, <2>2
      <4> QED BY <1>3, <2>2, <4>1
    <3>2. CASE w = 0
      <4>1. L - w = L /\ L > 0 /\ w + 1 = 1
        BY <1>4, <2>0, <2>2, <3>2
      <4> QED BY <1>7, <3>1, <4>1 DEF Follows
    <3>3. CASE w > 0
      <4>1. w \in 1 .. w /\ L - w + w = L
        BY <1>4, <3>3
      <4>2. stream[L] = <<e, k, w>>
        BY <1>6, <4>1
      <4> QED BY <3>1, <4>2 DEF Follows
    <3> QED BY <1>4, <3>2, <3>3
  <2>3. CASE i > L
    <3>1. /\ i - L \in 1 .. c /\ i - L + 1 \in 1 .. c
          /\ L + (i - L) = i /\ L + (i - L + 1) = i + 1
          /\ w + (i - L + 1) = w + (i - L) + 1
      BY <1>4, <2>0, <2>3
    <3>2. /\ stream'[i] = <<e, k, w + (i - L)>>
          /\ stream'[i + 1] = <<e, k, w + (i - L) + 1>>
      BY <1>3, <3>1
    <3> QED BY <3>2 DEF Follows
  <2> QED BY <1>4, <2>0, <2>1, <2>2, <2>3
<1> QED BY <1>9, <1>10, <1>11, <1>12 DEF WriterInv

LEMMA WriteFailsPreserves ==
  ASSUME WriterInv, NEW e \in Emitters, WriteFails(e)
  PROVE  WriterInv'
<1> USE DEF WriterInv, WriteFails
<1>1. /\ Len(stream) \in Nat /\ InFlight = Written /\ InFlight \in 0 .. LineLength
      /\ InFlight' = 0 /\ InFlight <= Len(stream)
  BY StreamAssumption DEF InFlight, Written, WriterTypeOK, HolderAtTheEnd
<1>2. WriterTypeOK'
  BY StreamAssumption DEF WriterTypeOK
<1>3. HolderAtTheEnd'
  BY <1>1 DEF HolderAtTheEnd
<1>4. CommittedEndsALine'
  <2> SUFFICES ASSUME Len(stream) > 0
               PROVE  stream[Len(stream)][3] = LineLength
                        \/ stream[Len(stream)][1] \in failed'
    BY <1>1 DEF CommittedEndsALine
  <2>1. CASE InFlight = 0
    BY <1>1, <2>1 DEF CommittedEndsALine
  <2>2. CASE InFlight > 0
    <3>1. InFlight \in 1 .. InFlight
          /\ Len(stream) - InFlight + InFlight = Len(stream)
      BY <1>1, <2>2
    <3>2. stream[Len(stream)] = <<e, emitted[e] + 1, InFlight>>
      BY <3>1 DEF HolderAtTheEnd
    <3> QED BY <3>2
  <2> QED BY <1>1, <2>1, <2>2
<1>5. OnlyAThrowTearsALine'
  BY DEF OnlyAThrowTearsALine, Follows
<1> QED BY <1>2, <1>3, <1>4, <1>5

LEMMA UnlockPreserves ==
  ASSUME WriterInv, NEW e \in Emitters, Unlock(e)
  PROVE  WriterInv'
<1> USE DEF WriterInv, Unlock
<1>1. /\ Len(stream) \in Nat /\ InFlight = LineLength /\ InFlight \in Nat \ {0}
      /\ InFlight' = 0 /\ InFlight <= Len(stream)
  BY StreamAssumption DEF InFlight, Written, WriterTypeOK, HolderAtTheEnd
<1>2. WriterTypeOK'
  <2>1. Pending(e)
    BY DEF WriterTypeOK
  <2>2. emitted' \in [Emitters -> 0 .. Events]
    BY <2>1, StreamAssumption DEF WriterTypeOK, Pending
  <2> QED BY <2>2 DEF WriterTypeOK
<1>3. HolderAtTheEnd'
  BY <1>1 DEF HolderAtTheEnd
<1>4. CommittedEndsALine'
  <2>1. InFlight \in 1 .. InFlight
        /\ Len(stream) - InFlight + InFlight = Len(stream)
    BY <1>1
  <2>2. stream[Len(stream)] = <<e, emitted[e] + 1, LineLength>>
    BY <1>1, <2>1 DEF HolderAtTheEnd
  <2> QED BY <1>1, <2>2 DEF CommittedEndsALine
<1>5. OnlyAThrowTearsALine'
  BY DEF OnlyAThrowTearsALine, Follows
<1> QED BY <1>2, <1>3, <1>4, <1>5

LEMMA WriterStepKeeps == WriterInv /\ [WriterNext]_writerVars => WriterInv'
<1> SUFFICES ASSUME WriterInv, [WriterNext]_writerVars PROVE WriterInv'
  OBVIOUS
<1>1. CASE WriterNext
  <2>1. PICK e \in Emitters : Emit(e)
    BY <1>1 DEF WriterNext
  <2> QED BY <2>1, LockPreserves, WritePreserves, WriteFailsPreserves,
             UnlockPreserves DEF Emit
<1>2. CASE UNCHANGED writerVars
  BY <1>2 DEF writerVars, WriterInv, WriterTypeOK, Pending, HolderAtTheEnd, InFlight, Written,
              CommittedEndsALine, OnlyAThrowTearsALine, Follows
<1> QED BY <1>1, <1>2

THEOREM WriterInvariance == WriterSpec => []WriterInv
<1>1. WriterInit => WriterInv
  BY WriterInitially
<1>2. WriterInv /\ [WriterNext]_writerVars => WriterInv'
  BY WriterStepKeeps
<1> QED BY <1>1, <1>2, PTL DEF WriterSpec

\* Types of the writer's state: in particular mutex_ is only ever held by a
\* task whose Emit is under way.
THEOREM WriterTypeCorrect == WriterSpec => []WriterTypeOK
<1>1. WriterInv => WriterTypeOK
  BY DEF WriterInv
<1> QED BY <1>1, WriterInvariance, PTL

\* Whatever tasks emit together, a byte out of place follows the line of an
\* Emit that threw.
THEOREM LinesStayApart == WriterSpec => []OnlyAThrowTearsALine
<1>1. WriterInv => OnlyAThrowTearsALine
  BY DEF WriterInv
<1> QED BY <1>1, WriterInvariance, PTL

------------------------------------------------------------------------------
(***************************************************************************)
(* The writer implements LineStream.                                       *)
(***************************************************************************)
LEMMA HolderFacts ==
  ASSUME WriterInv, NEW e \in Emitters, holder = {e}
  PROVE  /\ Pending(e) /\ emitted[e] + 1 \in 1 .. Events
         /\ Written \in 0 .. LineLength /\ InFlight = Written
         /\ Len(stream) \in Nat /\ Written <= Len(stream)
         /\ stream \in Seq(Bytes)
<1> USE DEF WriterInv
<1>1. Pending(e) /\ emitted[e] \in 0 .. Events
  BY DEF WriterTypeOK
<1>2. Written \in 0 .. LineLength /\ InFlight = Written
  BY StreamAssumption DEF WriterTypeOK, Written, InFlight
<1>3. stream \in Seq(Bytes) /\ Written <= Len(stream)
  BY <1>2 DEF WriterTypeOK, Bytes, HolderAtTheEnd
<1> QED BY <1>1, <1>2, <1>3, StreamAssumption DEF Pending

\* The stream is what was committed and the beginning of the holder's line.
LEMMA StreamSplits ==
  ASSUME WriterInv, NEW e \in Emitters, holder = {e}
  PROVE  stream = Committed \o SubSeq(Line(e, emitted[e] + 1), 1, Written)
<1> DEFINE L == Len(stream)
           w == Written
           k == emitted[e] + 1
           piece == SubSeq(Line(e, k), 0 + 1, w)
           base == SubSeq(stream, 1, L - w)
<1>1. /\ k \in 1 .. Events /\ w \in 0 .. LineLength /\ InFlight = w
      /\ L \in Nat /\ w <= L /\ stream \in Seq(Bytes)
  BY HolderFacts
<1>2. \A i \in 1 .. w : stream[L - w + i] = <<e, k, i>>
  BY <1>1 DEF WriterInv, HolderAtTheEnd
<1>3. Committed = base /\ piece = SubSeq(Line(e, k), 1, w)
  BY <1>1 DEF Committed
<1> HIDE DEF L, w, k
<1>4. /\ piece \in Seq(Bytes) /\ Len(piece) = w
      /\ \A i \in 1 .. w : piece[i] = <<e, k, i>>
  <2>1. 0 \in Nat /\ w \in Nat /\ 0 <= w /\ w <= LineLength /\ w - 0 = w
        /\ \A i \in 1 .. w : 0 + i = i
    BY <1>1
  <2>2. /\ piece \in Seq(Bytes) /\ Len(piece) = w - 0
        /\ \A i \in 1 .. w - 0 : piece[i] = <<e, k, 0 + i>>
    BY <1>1, <2>1, PieceOfLine, ZenonT(60)
  <2> QED BY <2>1, <2>2
<1>5. /\ base \in Seq(Bytes) /\ Len(base) = L - w
      /\ \A i \in 1 .. L - w : base[i] = stream[i]
  <2> DEFINE m == L - w
  <2>1. 1 \in Int /\ m \in Int /\ \A i \in 1 .. m : stream[i] \in Bytes
    <3>1. \A i \in 1 .. Len(stream) : stream[i] \in Bytes
      BY <1>1, ElementOfSeq
    <3> QED BY <1>1, <3>1 DEF L
  <2> HIDE DEF m
  <2>2. /\ SubSeq(stream, 1, m) \in Seq(Bytes)
        /\ Len(SubSeq(stream, 1, m)) = IF 1 <= m THEN m - 1 + 1 ELSE 0
        /\ \A i \in 1 .. m - 1 + 1 : SubSeq(stream, 1, m)[i] = stream[1 + i - 1]
    BY <2>1, SubSeqProperties
  <2> QED BY <1>1, <2>2 DEF m
<1> HIDE DEF piece, base
<1>6. /\ base \o piece \in Seq(Bytes) /\ Len(base \o piece) = L
      /\ \A i \in 1 .. L :
           (base \o piece)[i] = IF i <= L - w THEN base[i] ELSE piece[i - (L - w)]
  <2>1. /\ base \o piece \in Seq(Bytes)
        /\ Len(base \o piece) = Len(base) + Len(piece)
        /\ \A i \in 1 .. Len(base) + Len(piece) :
             (base \o piece)[i] = IF i <= Len(base) THEN base[i]
                                  ELSE piece[i - Len(base)]
    BY <1>4, <1>5, ConcatProperties
  <2>2. Len(base) + Len(piece) = L
    BY <1>1, <1>4, <1>5
  <2> QED BY <1>5, <2>1, <2>2
<1>7. ASSUME NEW i \in 1 .. L PROVE stream[i] = (base \o piece)[i]
  <2>1. CASE i <= L - w
    BY <1>1, <1>5, <1>6, <2>1
  <2>2. CASE i > L - w
    <3>1. i - (L - w) \in 1 .. w /\ L - w + (i - (L - w)) = i
      BY <1>1, <2>2
    <3>2. (base \o piece)[i] = piece[i - (L - w)]
      BY <1>1, <1>6, <2>2
    <3> QED BY <1>2, <1>4, <3>1, <3>2
  <2>3. i <= L - w \/ i > L - w
    BY <1>1
  <2> QED BY <2>1, <2>2, <2>3
<1>8. stream = base \o piece
  <2>1. Len(stream) = Len(base \o piece)
    BY <1>6 DEF L
  <2>2. \A i \in 1 .. Len(stream) : stream[i] = (base \o piece)[i]
    BY <1>7 DEF L
  <2> QED BY <1>1, <1>6, <2>1, <2>2, SeqEqual
<1>9. SubSeq(Line(e, emitted[e] + 1), 1, Written) = piece /\ Committed = base
  BY <1>3 DEF w, k
<1> QED BY <1>8, <1>9

LEMMA InitMapsToInit == WriterInit => Promise!StreamInit
<1> SUFFICES ASSUME WriterInit PROVE Promise!StreamInit
  OBVIOUS
<1>1. Committed = <<>>
  BY DEF WriterInit, StreamInit, Committed, InFlight
<1> QED BY <1>1 DEF WriterInit, StreamInit, Promise!StreamInit

LEMMA LockMapsToStutter ==
  ASSUME WriterInv, NEW e \in Emitters, Lock(e)
  PROVE  UNCHANGED <<Committed, emitted, failed>>
<1>1. InFlight = 0 /\ InFlight' = 0
  BY StreamAssumption DEF Lock, InFlight, Written
<1> QED BY <1>1 DEF Lock, Committed

LEMMA WriteMapsToStutter ==
  ASSUME WriterInv, NEW e \in Emitters, Write(e)
  PROVE  UNCHANGED <<Committed, emitted, failed>>
<1>1. PICK c \in 1 .. remaining :
        stream' = stream \o Chunk(e, c) /\ remaining' = remaining - c
  BY DEF Write
<1>2. /\ holder = {e} /\ WriterTypeOK /\ UNCHANGED <<emitted, failed, holder>>
  BY DEF Write, WriterInv
<1>3. /\ stream' \in Seq(Bytes) /\ Len(stream') = Len(stream) + c
      /\ \A i \in 1 .. Len(stream) : stream'[i] = stream[i]
  BY <1>1, <1>2, ChunkAppended
<1>4. /\ Written \in 0 .. LineLength /\ InFlight = Written
      /\ Len(stream) \in Nat /\ Written <= Len(stream)
      /\ stream \in Seq(Bytes)
  BY <1>2, HolderFacts
<1>5. remaining \in 0 .. LineLength /\ InFlight' = Written + c
  BY <1>1, <1>2, StreamAssumption DEF WriterTypeOK, InFlight, Written
<1> DEFINE m == Len(stream) - Written
<1>6. /\ Committed = SubSeq(stream, 1, m) /\ Committed' = SubSeq(stream', 1, m)
      /\ m \in 0 .. Len(stream)
  <2>1. Len(stream') - InFlight' = m
    BY <1>1, <1>3, <1>4, <1>5
  <2> QED BY <1>4, <2>1 DEF Committed
<1> HIDE DEF m
<1>7. SubSeq(stream, 1, m) = SubSeq(stream', 1, m)
  <2>1. ASSUME NEW i \in 1 .. m
        PROVE  stream[i] \in Bytes /\ stream'[i] = stream[i]
    <3>1. i \in 1 .. Len(stream)
      BY <1>4, <1>6
    <3>2. stream[i] \in Bytes
      BY <1>4, <3>1, ElementOfSeq
    <3> QED BY <1>3, <3>1, <3>2
  <2>2. 1 \in Int /\ m \in Int
    BY <1>4, <1>6
  <2>3. /\ SubSeq(stream, 1, m) \in Seq(Bytes)
        /\ Len(SubSeq(stream, 1, m)) = IF 1 <= m THEN m - 1 + 1 ELSE 0
        /\ \A i \in 1 .. m - 1 + 1 : SubSeq(stream, 1, m)[i] = stream[1 + i - 1]
    BY <2>1, <2>2, SubSeqProperties
  <2>4. /\ SubSeq(stream', 1, m) \in Seq(Bytes)
        /\ Len(SubSeq(stream', 1, m)) = IF 1 <= m THEN m - 1 + 1 ELSE 0
        /\ \A i \in 1 .. m - 1 + 1 :
             SubSeq(stream', 1, m)[i] = stream'[1 + i - 1]
    <3>1. \A i \in 1 .. m : stream'[i] \in Bytes
      BY <2>1
    <3> QED BY <2>2, <3>1, SubSeqProperties
  <2>5. ASSUME NEW i \in 1 .. Len(SubSeq(stream, 1, m))
        PROVE  SubSeq(stream, 1, m)[i] = SubSeq(stream', 1, m)[i]
    <3>1. i \in 1 .. m /\ i \in 1 .. m - 1 + 1 /\ 1 + i - 1 = i
      BY <2>2, <2>3
    <3> QED BY <2>1, <2>3, <2>4, <3>1
  <2> QED BY <2>3, <2>4, <2>5, SeqEqual
<1> QED BY <1>2, <1>6, <1>7

\* A holder that is done, or that failed, leaves its line in the stream.
LEMMA WriteFailsMapsToTear ==
  ASSUME WriterInv, NEW e \in Emitters, WriteFails(e)
  PROVE  Promise!TearLine(e)
<1>1. holder = {e} /\ remaining > 0 /\ holder' = {}
      /\ failed' = failed \cup {e} /\ UNCHANGED <<stream, emitted>>
  BY DEF WriteFails
<1>2. /\ Pending(e) /\ Written \in 0 .. LineLength /\ Len(stream) \in Nat
      /\ stream \in Seq(Bytes)
  BY <1>1, HolderFacts
<1>3. Written \in 0 .. LineLength - 1
  BY <1>1, <1>2, StreamAssumption DEF Written, WriterInv, WriterTypeOK
<1>4. Committed' = stream
  <2>1. Len(stream') - InFlight' = Len(stream)
    BY <1>1, <1>2 DEF InFlight
  <2> QED BY <1>1, <1>2, <2>1, SubSeqFull DEF Committed
<1>5. Committed' = Committed \o SubSeq(Line(e, emitted[e] + 1), 1, Written)
  BY <1>1, <1>4, StreamSplits
<1> QED BY <1>1, <1>2, <1>3, <1>5
        DEF Promise!TearLine, Promise!Pending, Promise!Line, Pending, Line

LEMMA UnlockMapsToLine ==
  ASSUME WriterInv, NEW e \in Emitters, Unlock(e)
  PROVE  Promise!AppendLine(e)
<1>1. holder = {e} /\ remaining = 0 /\ holder' = {}
      /\ emitted' = [emitted EXCEPT ![e] = @ + 1] /\ UNCHANGED <<stream, failed>>
  BY DEF Unlock
<1>2. /\ Pending(e) /\ Len(stream) \in Nat /\ stream \in Seq(Bytes)
      /\ emitted[e] + 1 \in 1 .. Events
  BY <1>1, HolderFacts
<1>3. Written = LineLength
  BY <1>1, StreamAssumption DEF Written
<1>4. Committed' = stream
  <2>1. Len(stream') - InFlight' = Len(stream)
    BY <1>1, <1>2 DEF InFlight
  <2> QED BY <1>1, <1>2, <2>1, SubSeqFull DEF Committed
<1> DEFINE l == Line(e, emitted[e] + 1)
<1>5. SubSeq(l, 1, LineLength) = l
  <2>1. l \in Seq(Bytes) /\ Len(l) = LineLength
    BY <1>2, StreamAssumption DEF Line, Bytes
  <2> HIDE DEF l
  <2> QED BY <2>1, SubSeqFull
<1>6. Committed' = Committed \o l
  BY <1>1, <1>3, <1>4, <1>5, StreamSplits
<1> QED BY <1>1, <1>2, <1>6
        DEF Promise!AppendLine, Promise!Pending, Promise!Line, Pending, Line

\* The writer is an event stream: every step of it appends one whole line,
\* tears one, or shows nothing.
THEOREM Implements == WriterSpec => KeepsPromise
<1>1. WriterInit => Promise!StreamInit
  BY InitMapsToInit
<1>2. WriterInv /\ [WriterNext]_writerVars
        => [Promise!StreamNext]_<<Committed, emitted, failed>>
  <2> SUFFICES ASSUME WriterInv, [WriterNext]_writerVars
               PROVE  [Promise!StreamNext]_<<Committed, emitted, failed>>
    OBVIOUS
  <2>1. CASE WriterNext
    <3>1. PICK e \in Emitters : Emit(e)
      BY <2>1 DEF WriterNext
    <3>2. CASE Lock(e)
      BY <3>2, LockMapsToStutter
    <3>3. CASE Write(e)
      BY <3>3, WriteMapsToStutter
    <3>4. CASE WriteFails(e)
      BY <3>4, WriteFailsMapsToTear DEF Promise!StreamNext
    <3>5. CASE Unlock(e)
      BY <3>5, UnlockMapsToLine DEF Promise!StreamNext
    <3> QED BY <3>1, <3>2, <3>3, <3>4, <3>5 DEF Emit
  <2>2. CASE UNCHANGED writerVars
    BY <2>2 DEF writerVars, Committed, InFlight, Written
  <2> QED BY <2>1, <2>2
<1> QED BY <1>1, <1>2, WriterInvariance, PTL
        DEF WriterSpec, KeepsPromise, Promise!StreamSpec
==============================================================================
