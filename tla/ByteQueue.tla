----------------------------- MODULE ByteQueue -----------------------------
(***************************************************************************)
(* What a stream buffer promises: bytes come out in the order they went    *)
(* in, each once.  Bytes are numbered as they are written.                 *)
(***************************************************************************)
EXTENDS Integers, Sequences

VARIABLES queue, delivered

vars == <<queue, delivered>>

Init == queue = <<>> /\ delivered = <<>>

Put ==
  /\ Len(queue') > Len(queue)
  /\ queue' = [i \in 1..Len(queue') |-> Len(delivered) + i]
  /\ UNCHANGED delivered

Get == \E n \in 1..Len(queue) :
  /\ delivered' = delivered \o SubSeq(queue, 1, n)
  /\ queue' = SubSeq(queue, n + 1, Len(queue))

Next == Put \/ Get

Spec == Init /\ [][Next]_vars
=============================================================================
