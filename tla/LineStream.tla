------------------------------ MODULE LineStream ------------------------------
(***************************************************************************)
(* What an event stream promises its reader: an event is appended whole or *)
(* its emitter fails, and what a failed emitter leaves is the beginning of *)
(* one line.                                                               *)
(***************************************************************************)
EXTENDS Integers, Sequences

CONSTANTS
  Emitters,     \* the tasks that share the writer
  Events,       \* bound: events each of them emits
  LineLength    \* bytes of a line, its newline the last one

ASSUME StreamAssumption == Events \in Nat /\ LineLength \in Nat \ {0}

VARIABLES
  stream,    \* the bytes written; a byte is <<emitter, event, position>>
  emitted,   \* events of each emitter that are out
  failed     \* the emitters whose Emit threw

Line(e, k) == [b \in 1 .. LineLength |-> <<e, k, b>>]

StreamInit ==
  /\ stream = <<>>
  /\ emitted = [e \in Emitters |-> 0]
  /\ failed = {}

Pending(e) == e \notin failed /\ emitted[e] < Events

AppendLine(e) ==
  /\ Pending(e)
  /\ stream' = stream \o Line(e, emitted[e] + 1)
  /\ emitted' = [emitted EXCEPT ![e] = @ + 1]
  /\ UNCHANGED failed

TearLine(e) ==
  /\ Pending(e)
  /\ \E c \in 0 .. LineLength - 1 :
       stream' = stream \o SubSeq(Line(e, emitted[e] + 1), 1, c)
  /\ failed' = failed \cup {e}
  /\ UNCHANGED emitted

StreamNext == \E e \in Emitters : AppendLine(e) \/ TearLine(e)

StreamSpec == StreamInit /\ [][StreamNext]_<<stream, emitted, failed>>
==============================================================================
