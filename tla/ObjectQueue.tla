----------------------------- MODULE ObjectQueue -----------------------------
(***************************************************************************)
(* What an object arena promises: a queue.  Elements are put at its end,   *)
(* clear() destroys them from the front, one after the other.              *)
(***************************************************************************)
EXTENDS Sequences

CONSTANT Values

VARIABLE queue

Init == queue = <<>>

Put == \E v \in Values : queue' = Append(queue, v)
DestroyFirst == queue # <<>> /\ queue' = Tail(queue)

Next == Put \/ DestroyFirst

Spec == Init /\ [][Next]_queue
=============================================================================
