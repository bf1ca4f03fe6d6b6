------------------------------ MODULE InfoQueue ------------------------------
(***************************************************************************)
(* The singly linked queues of VencInputBufferInfo nodes that              *)
(* FrameBufferManager.c keeps (empty_quene, input_quene, used_quene and    *)
(* allocate_queue), seen as sequences of nodes, head first.                *)
(*                                                                         *)
(* InfoList models the same two functions on head and next pointers and    *)
(* is shown to implement what is written here.                             *)
(***************************************************************************)
EXTENDS Sequences, Functions

\* The place of node p in queue q.
PlaceOf(q, p) == CHOOSE i \in DOMAIN q : q[i] = p

\* Mutant: the node goes to the front.
enqueueFirst(q, p) == <<p>> \o q

(***************************************************************************)
(* enqueue walks to the last node, makes p its successor and clears        *)
(* p->next.  A node that is already queued therefore does not appear       *)
(* twice: it becomes the last one, and what followed it is cut off.        *)
(***************************************************************************)
enqueue(q, p) ==
  IF p \in Range(q) THEN SubSeq(q, 1, PlaceOf(q, p)) ELSE Append(q, p)

\* Mutant: *pp_head is not moved on.
dequeueKeepsHead(q) == q

\* dequeue unlinks the head; the caller has tested that there is one.
dequeue(q) == Tail(q)
=============================================================================
