---------------------------- MODULE InfoQueueSpec ----------------------------
(* One queue of InfoQueue under any sequence of calls.                     *)
EXTENDS InfoQueue

CONSTANT Node

VARIABLE q

Init == q = <<>>

Next == \/ \E p \in Node : q' = enqueue(q, p)
        \/ q # <<>> /\ q' = dequeue(q)

Spec == Init /\ [][Next]_q
=============================================================================
