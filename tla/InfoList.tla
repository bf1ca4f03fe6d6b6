------------------------------- MODULE InfoList -------------------------------
(***************************************************************************)
(* enqueue and dequeue of vencoder/FrameBufferManager.c on pointers: a     *)
(* head pointer and the next field of every node.  The nodes live in an    *)
(* array from calloc.  Nothing in the code keeps a caller from enqueueing  *)
(* a node that is queued already (ReturnOneAllocateInputBuffer takes the   *)
(* node from an index the application passes), so every node may be given  *)
(* at any time.                                                            *)
(***************************************************************************)
EXTENDS Naturals, Sequences, FiniteSets

CONSTANTS Node,   \* the elements of buffer_quene or allocate_buffer
          NULL

ASSUME NullAssumption == NULL \notin Node

VARIABLES head, next

vars == <<head, next>>

Init ==
  /\ head = NULL
  /\ next = [p \in Node |-> NULL]

\* The i-th node from the head on, and NULL past the end.
At(i) ==
  LET walk[k \in 1 .. i] ==
        IF k = 1 THEN head
        ELSE IF walk[k - 1] = NULL THEN NULL ELSE next[walk[k - 1]]
  IN  walk[i]

\* The node where the while loop of enqueue stops.
Last == CHOOSE p \in Node :
          next[p] = NULL /\ \E i \in 1 .. Cardinality(Node) : At(i) = p

\* Mutant: p->next is not cleared behind the last node.
enqueueKeepsNext(p) ==
  \/ /\ head # NULL
     /\ next' = [next EXCEPT ![Last] = p]
     /\ UNCHANGED head
  \/ /\ head = NULL
     /\ head' = p
     /\ next' = [next EXCEPT ![p] = NULL]

enqueue(p) ==
  \/ /\ head # NULL
     /\ next' = [next EXCEPT ![Last] = p, ![p] = NULL]
     /\ UNCHANGED head
  \/ /\ head = NULL
     /\ head' = p
     /\ next' = [next EXCEPT ![p] = NULL]

dequeue ==
  /\ head # NULL
  /\ head' = next[head]
  /\ next' = [next EXCEPT ![head] = NULL]

Next == (\E p \in Node : enqueue(p)) \/ dequeue

Spec == Init /\ [][Next]_vars

-----------------------------------------------------------------------------

\* The pointers implement the sequences that the other modules use, the queue
\* cut off after a node that was queued twice included.  So a walk along next
\* always ends: on a cycle it would find more nodes than have been enqueued.
Length == Cardinality({i \in 1 .. Cardinality(Node) : At(i) # NULL})
queued == [i \in 1 .. Length |-> At(i)]
Queue == INSTANCE InfoQueueSpec WITH q <- queued
QueueSpec == Queue!Spec
=============================================================================
