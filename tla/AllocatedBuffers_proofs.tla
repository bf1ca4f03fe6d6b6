----------------------- MODULE AllocatedBuffers_proofs -----------------------
(***************************************************************************)
(* What is proved of the picture buffers of FrameBufferManager.c, for any  *)
(* number of buffers and of threads and wherever an allocation fails: no   *)
(* buffer is lost or with two users (PicturesConserved), the memory in use *)
(* is what the array points to (PicturesFreed), and a buffer that can be   *)
(* got has all its planes (PicturesComplete).  The invariant BuffersInv    *)
(* follows the allocation plane by plane and, once it is complete, each    *)
(* buffer between the queue, the clients' calls and the application.       *)
(***************************************************************************)
EXTENDS AllocatedBuffers, SequenceTheorems, TLAPS

-----------------------------------------------------------------------------
(* The queues, as long as no node is queued twice.                         *)

\* The nodes of a non-empty queue are among S, and its head is one of them.
LEMMA QueueRange ==
  ASSUME NEW S, NEW q \in Seq(S)
  PROVE  /\ Range(q) = {q[n] : n \in 1 .. Len(q)}
         /\ Range(q) \subseteq S
         /\ q # <<>> => Head(q) \in Range(q) /\ Head(q) \in S
  BY LenProperties, EmptySeq DEF Range

\* A node that is not queued goes to the end: the queue has this one node more
\* and still holds each node once.
LEMMA EnqueueFresh ==
  ASSUME NEW S, NEW q \in Seq(S), NEW p \in S, p \notin Range(q), IsInjective(q)
  PROVE  /\ enqueue(q, p) = Append(q, p)
         /\ enqueue(q, p) \in Seq(S)
         /\ Range(enqueue(q, p)) = Range(q) \cup {p}
         /\ IsInjective(enqueue(q, p))
         /\ enqueue(q, p) # <<>>
         /\ q # <<>> => Head(enqueue(q, p)) = Head(q)
<1>1. enqueue(q, p) = Append(q, p)
  BY DEF enqueue
<1> DEFINE r == Append(q, p)
<1>2. /\ r \in Seq(S) /\ Len(r) = Len(q) + 1 /\ Len(q) \in Nat
      /\ \A n \in 1 .. Len(q) : r[n] = q[n]
      /\ r[Len(q) + 1] = p
  BY LenProperties
<1>3. /\ Range(r) = {r[n] : n \in 1 .. Len(q) + 1}
      /\ Range(q) = {q[n] : n \in 1 .. Len(q)}
  BY <1>2, QueueRange
<1> HIDE DEF r
<1>4. Range(r) = Range(q) \cup {p}
  BY <1>2, <1>3
<1>5. IsInjective(r)
  BY <1>2, <1>3, LenProperties DEF IsInjective
<1>6. r # <<>>
  BY <1>2, EmptySeq
<1>7. q # <<>> => Head(r) = Head(q)
  BY <1>2, <1>6, EmptySeq
<1> QED
  BY <1>1, <1>2, <1>4, <1>5, <1>6, <1>7 DEF r

\* Taking the head of a queue that holds each node once leaves the others.
LEMMA DequeueHead ==
  ASSUME NEW S, NEW q \in Seq(S), q # <<>>, IsInjective(q)
  PROVE  /\ dequeue(q) \in Seq(S)
         /\ Range(dequeue(q)) = Range(q) \ {Head(q)}
         /\ IsInjective(dequeue(q))
<1> DEFINE r == Tail(q)
<1>1. /\ r \in Seq(S) /\ Len(r) = Len(q) - 1 /\ Len(q) \in Nat \ {0}
      /\ \A n \in 1 .. Len(q) - 1 : r[n] = q[n + 1]
      /\ Head(q) = q[1]
  BY HeadTailProperties, EmptySeq
<1>2. /\ Range(r) = {r[n] : n \in 1 .. Len(q) - 1}
      /\ Range(q) = {q[n] : n \in 1 .. Len(q)}
  BY <1>1, QueueRange
<1>3. \A n, j \in 1 .. Len(q) : q[n] = q[j] => n = j
  BY LenProperties DEF IsInjective
<1> HIDE DEF r
<1>4. Range(r) = Range(q) \ {Head(q)}
  <2>1. ASSUME NEW x \in Range(r) PROVE x \in Range(q) \ {Head(q)}
    BY <1>1, <1>2, <1>3
  <2>2. ASSUME NEW x \in Range(q) \ {Head(q)} PROVE x \in Range(r)
    <3>1. PICK n \in 1 .. Len(q) : x = q[n] /\ n # 1
      BY <1>1, <1>2
    <3>2. n - 1 \in 1 .. Len(q) - 1 /\ r[n - 1] = x
      BY <1>1, <3>1
    <3> QED
      BY <1>2, <3>2
  <2> QED
    BY <2>1, <2>2
<1>5. IsInjective(r)
  BY <1>1, <1>3, LenProperties DEF IsInjective
<1> QED
  BY <1>1, <1>4, <1>5 DEF r, dequeue

-----------------------------------------------------------------------------
(* The invariant.                                                          *)

\* The application has been given nothing.
Untouched == allocate_queue = <<>> /\ held = {} /\ InHand = {}

\* Each number below buffer_num is at one place: in the queue, with one client,
\* or held.
Conserved ==
  /\ IsInjective(allocate_queue)
  /\ Range(allocate_queue) \cup InHand \cup held = 0 .. buffer_num - 1
  /\ Range(allocate_queue) \cap (InHand \cup held) = {}
  /\ InHand \cap held = {}
  /\ \A c, d \in Clients : pc[c] = "copy" /\ pc[d] = "copy" /\ node[c] = node[d] => c = d

\* The loop has all the planes of the pictures before i, and of picture i at most
\* the first of two.
PlanesSoFar ==
  /\ \A n \in 0 .. i - 1 : \A p \in PlanesOf(size_c) : <<n, p>> \in virt
  /\ \A plane \in virt : plane[1] <= i /\ (plane[1] = i => size_c > 0)

AllPlanes == \A n \in 0 .. buffer_num - 1 : \A p \in PlanesOf(size_c) : <<n, p>> \in virt

BuffersInv ==
  /\ TypeOK
  /\ allocate_buffer => alive
  /\ allocPc # "idle" => allocate_buffer
  /\ ~ allocate_buffer => virt = {} /\ blocks = {}
  /\ allocate_buffer => blocks = virt /\ \A plane \in virt : plane[1] \in 0 .. buffer_num - 1
  /\ allocPc = "planes" => PlanesSoFar
  /\ allocPc # "idle" \/ ~ allocate_buffer => Untouched
  /\ allocPc = "idle" /\ allocate_buffer => Conserved /\ AllPlanes

\* Nobody has a buffer in hand exactly when nobody copies.
LEMMA NobodyCopies == InHand = {} <=> \A c \in Clients : pc[c] # "copy"
BY DEF InHand

\* Before a manager is made nothing is allocated and nobody asks.
LEMMA InitBuffers == Init => BuffersInv
<1> SUFFICES ASSUME Init PROVE BuffersInv
  OBVIOUS
<1>1. \A c \in Clients : pc[c] = "idle"
  BY DEF Init
<1>2. Untouched
  BY <1>1, NobodyCopies DEF Init, Untouched
<1>3. TypeOK
  <2>1. 0 \in IDs /\ 0 \in 0 .. MaxNum
    BY MaxNumAssumption DEF IDs
  <2>2. node \in [Clients -> IDs] /\ pc \in [Clients -> {"idle", "copy"}]
    BY <2>1 DEF Init
  <2> QED
    BY <2>1, <2>2, EmptySeq DEF Init, TypeOK
<1> QED
  BY <1>2, <1>3 DEF Init, BuffersInv

\* AllocateInputBuffer, from the array to the queue.
LEMMA AllocateStep ==
  ASSUME BuffersInv,
         \/ \E n \in 1 .. MaxNum, c \in {0, 1} : AllocateArray(n, c)
         \/ AllocatePlane \/ AllocatePlaneFails \/ UndoAllocation \/ QueueAll
  PROVE  BuffersInv'
<1> USE DEF BuffersInv
<1>1. ASSUME NEW n \in 1 .. MaxNum, NEW c \in {0, 1}, AllocateArray(n, c)
      PROVE  BuffersInv'
  <2>1. TypeOK'
    <3>1. buffer_num' \in 0 .. MaxNum /\ 0 \in 0 .. MaxNum /\ 0 <= buffer_num'
      BY <1>1, MaxNumAssumption DEF AllocateArray
    <3>2. /\ UNCHANGED <<alive, virt, allocate_queue, blocks, clients>> /\ allocPc = "idle"
          /\ \/ allocate_buffer' = TRUE /\ size_c' = c /\ i' = 0 /\ allocPc' = "planes"
             \/ UNCHANGED <<allocate_buffer, size_c, i, allocPc>>
      BY <1>1 DEF AllocateArray
    <3>3. (size_c' = c \/ size_c' = size_c) /\ (i' = 0 \/ i' = i)
          /\ (allocPc' # "idle" => i' = 0)
      BY <3>2
    <3> QED
      BY <3>1, <3>2, <3>3 DEF TypeOK, clients
  <2>2. UNCHANGED <<alive, virt, blocks, allocate_queue, pc, node, held>>
    BY <1>1 DEF AllocateArray, clients
  <2>3. Untouched' /\ virt' = {} /\ blocks' = {}
    BY <1>1, <2>2 DEF AllocateArray, Untouched, InHand
  <2>4. CASE allocPc' = "planes" /\ allocate_buffer' /\ i' = 0
    BY <1>1, <2>1, <2>2, <2>3, <2>4 DEF PlanesSoFar, AllocateArray
  <2>5. CASE UNCHANGED <<allocate_buffer, allocPc>>
    BY <1>1, <2>1, <2>2, <2>3, <2>5 DEF AllocateArray
  <2> QED
    BY <1>1, <2>4, <2>5 DEF AllocateArray
<1>2. CASE AllocatePlane
  <2> DEFINE plane == <<i, NextPlane>>
  <2>1. /\ i \in 0 .. MaxNum - 1 /\ i \in Nat /\ i < buffer_num /\ buffer_num \in 0 .. MaxNum
        /\ size_c \in {0, 1} /\ MaxNum \in Nat
        /\ NextPlane \in {"Y", "C"} /\ plane \in IDs \X {"Y", "C"}
    BY <1>2, MaxNumAssumption DEF AllocatePlane, TypeOK, NextPlane, IDs
  <2>2. /\ virt' = virt \cup {plane} /\ blocks' = blocks \cup {plane}
        /\ UNCHANGED <<alive, buffer_num, size_c, allocate_buffer, allocate_queue, allocPc,
                       pc, node, held>>
        /\ allocPc = "planes" /\ allocate_buffer
    BY <1>2 DEF AllocatePlane, clients
  <2>3. /\ i' = i + 1 \/ i' = i
        /\ i' = i + 1 <=> NextPlane = "C" \/ "C" \notin PlanesOf(size_c)
    BY <1>2, <2>1 DEF AllocatePlane
  <2>4. TypeOK'
    BY <2>1, <2>2, <2>3 DEF TypeOK
  <2>5. Untouched'
    BY <2>2 DEF Untouched, InHand
  <2>6. blocks' = virt' /\ \A e \in virt' : e[1] \in 0 .. buffer_num - 1
    BY <2>1, <2>2
  <2>7. \A n \in 0 .. i' - 1 : \A p \in PlanesOf(size_c) : <<n, p>> \in virt'
    <3>1. \A n \in 0 .. i - 1 : \A p \in PlanesOf(size_c) : <<n, p>> \in virt'
      BY <2>2 DEF PlanesSoFar
    <3>2. i' = i + 1 => \A p \in PlanesOf(size_c) : <<i, p>> \in virt'
      BY <2>2, <2>3 DEF NextPlane, PlanesOf
    <3> QED
      <4>1. CASE i' = i
        BY <3>1, <4>1
      <4>2. CASE i' = i + 1
        <5>1. \A n \in 0 .. i' - 1 : n \in 0 .. i - 1 \/ n = i
          BY <2>1, <4>2
        <5> QED
          BY <3>1, <3>2, <4>2, <5>1
      <4> QED
        BY <2>3, <4>1, <4>2
  <2>8. \A e \in virt' : e[1] <= i' /\ (e[1] = i' => size_c > 0)
    <3>1. \A e \in virt' : e[1] <= i
      BY <2>1, <2>2 DEF PlanesSoFar
    <3>2. CASE i' = i + 1
      BY <2>1, <2>2, <2>6, <3>1, <3>2
    <3>3. CASE i' = i /\ i' # i + 1
      <4>1. size_c > 0
        BY <2>1, <2>3, <3>3 DEF PlanesOf
      <4> QED
        BY <3>1, <3>3, <4>1
    <3> QED
      BY <2>1, <2>3, <3>2, <3>3
  <2>9. PlanesSoFar'
    BY <2>2, <2>7, <2>8 DEF PlanesSoFar
  <2> QED
    BY <2>2, <2>4, <2>5, <2>6, <2>9
<1>3. CASE AllocatePlaneFails
  <2>1. /\ UNCHANGED <<alive, array, allocate_queue, blocks, i, pc, node, held>>
        /\ allocPc = "planes" /\ allocPc' = "undo" /\ allocate_buffer
    BY <1>3 DEF AllocatePlaneFails, clients
  <2>2. TypeOK'
    BY <2>1 DEF TypeOK, array
  <2>3. Untouched'
    BY <2>1 DEF Untouched, InHand
  <2> QED
    BY <2>1, <2>2, <2>3 DEF array
<1>4. CASE UndoAllocation
  <2>1. /\ UNCHANGED <<alive, buffer_num, size_c, allocate_queue, i, pc, node, held>>
        /\ allocPc = "undo" /\ allocPc' = "idle" /\ allocate_buffer' = FALSE
        /\ virt' = {} /\ blocks' = blocks \ Recorded
    BY <1>4 DEF UndoAllocation, clients
  <2>2. blocks' = {}
    BY <2>1 DEF Recorded
  <2>3. TypeOK'
    BY <2>1, <2>2 DEF TypeOK
  <2>4. Untouched'
    BY <2>1 DEF Untouched, InHand
  <2> QED
    BY <2>1, <2>2, <2>3, <2>4
<1>5. CASE QueueAll
  <2>1. /\ UNCHANGED <<alive, array, blocks, i, pc, node, held>>
        /\ allocPc = "planes" /\ i = buffer_num /\ allocPc' = "idle" /\ allocate_buffer
        /\ allocate_queue' = AllQueued /\ PlanesSoFar /\ Untouched
        /\ buffer_num \in 0 .. MaxNum /\ MaxNum \in Nat
    BY <1>5, MaxNumAssumption DEF QueueAll, clients, TypeOK
  <2>2. AllQueued \in Seq(IDs) /\ IsInjective(AllQueued)
    BY <2>1 DEF AllQueued, IDs, IsInjective
  <2>3. Range(AllQueued) = 0 .. buffer_num - 1
    <3>1. DOMAIN AllQueued = 1 .. buffer_num
      BY DEF AllQueued
    <3>2. \A n \in 1 .. buffer_num : AllQueued[n] \in 0 .. buffer_num - 1
      BY <2>1 DEF AllQueued
    <3>3. \A k \in 0 .. buffer_num - 1 : k + 1 \in 1 .. buffer_num /\ AllQueued[k + 1] = k
      BY <2>1 DEF AllQueued
    <3> QED
      BY <3>1, <3>2, <3>3 DEF Range
  <2>4. TypeOK'
    BY <2>1, <2>2 DEF TypeOK, array
  <2>5. InHand' = {} /\ held' = {} /\ \A c \in Clients : pc'[c] # "copy"
    BY <2>1, NobodyCopies DEF Untouched, InHand
  <2>6. IsInjective(allocate_queue)' /\ Range(allocate_queue)' = 0 .. buffer_num - 1
    BY <2>1, <2>2, <2>3
  <2>7. Conserved'
    BY <2>1, <2>5, <2>6 DEF Conserved, array
  <2>8. AllPlanes'
    BY <2>1 DEF AllPlanes, PlanesSoFar, array
  <2> QED
    BY <2>1, <2>4, <2>7, <2>8 DEF array
<1> QED
  BY <1>1, <1>2, <1>3, <1>4, <1>5

\* GetOneAllocateInputBuffer and ReturnOneAllocateInputBuffer move one buffer.
LEMMA UseStep ==
  ASSUME BuffersInv,
         \/ \E c \in Clients : GetTake(c) \/ GetCopy(c)
         \/ \E nID \in held : ReturnOneAllocateInputBuffer(nID)
  PROVE  BuffersInv'
<1> USE DEF BuffersInv
<1>t. /\ allocate_queue \in Seq(IDs) /\ held \subseteq IDs
      /\ pc \in [Clients -> {"idle", "copy"}] /\ node \in [Clients -> IDs]
  BY DEF TypeOK
<1>1. ASSUME NEW c \in Clients, GetTake(c) PROVE BuffersInv'
  <2>1. /\ UNCHANGED <<alive, array, blocks, allocPc, i, held>>
        /\ allocPc = "idle" /\ allocate_buffer /\ allocate_queue # <<>> /\ pc[c] = "idle"
        /\ node' = [node EXCEPT ![c] = Head(allocate_queue)]
        /\ pc' = [pc EXCEPT ![c] = "copy"]
        /\ allocate_queue' = dequeue(allocate_queue)
        /\ Conserved /\ AllPlanes
    BY <1>1 DEF GetTake, Ready
  <2>2. /\ Head(allocate_queue) \in Range(allocate_queue) /\ Head(allocate_queue) \in IDs
        /\ allocate_queue' \in Seq(IDs)
        /\ Range(allocate_queue') = Range(allocate_queue) \ {Head(allocate_queue)}
        /\ IsInjective(allocate_queue')
    BY <1>t, <2>1, QueueRange, DequeueHead DEF Conserved
  <2>3. TypeOK'
    BY <1>t, <2>1, <2>2 DEF TypeOK, array
  <2>4. InHand' = InHand \cup {Head(allocate_queue)}
    BY <1>t, <2>1 DEF InHand
  <2>5. \A a, b \in Clients : pc'[a] = "copy" /\ pc'[b] = "copy" /\ node'[a] = node'[b] => a = b
    <3>1. \A a \in Clients : pc[a] = "copy" => node[a] # Head(allocate_queue)
      BY <2>1, <2>2 DEF Conserved, InHand
    <3> QED
      BY <1>t, <2>1, <3>1 DEF Conserved
  <2>6. Conserved'
    BY <2>1, <2>2, <2>4, <2>5 DEF Conserved, array
  <2>7. AllPlanes'
    BY <2>1 DEF AllPlanes, array
  <2> QED
    BY <2>1, <2>3, <2>6, <2>7 DEF array
<1>2. ASSUME NEW c \in Clients, GetCopy(c) PROVE BuffersInv'
  <2>1. /\ UNCHANGED <<alive, array, allocate_queue, blocks, allocPc, i, node>>
        /\ pc[c] = "copy" /\ pc' = [pc EXCEPT ![c] = "idle"] /\ held' = held \cup {node[c]}
    BY <1>2 DEF GetCopy
  <2>2. node[c] \in InHand /\ allocPc = "idle" /\ allocate_buffer /\ Conserved /\ AllPlanes
    BY <2>1 DEF InHand, Untouched
  <2>3. TypeOK'
    BY <1>t, <2>1 DEF TypeOK, array
  <2>4. InHand' = InHand \ {node[c]}
    BY <1>t, <2>1, <2>2 DEF InHand, Conserved
  <2>5. \A a, b \in Clients : pc'[a] = "copy" /\ pc'[b] = "copy" /\ node'[a] = node'[b] => a = b
    BY <1>t, <2>1, <2>2 DEF Conserved
  <2>6. Conserved'
    BY <2>1, <2>2, <2>4, <2>5 DEF Conserved, array
  <2>7. AllPlanes'
    BY <2>1, <2>2 DEF AllPlanes, array
  <2> QED
    BY <2>1, <2>2, <2>3, <2>6, <2>7 DEF array
<1>3. ASSUME NEW nID \in held, ReturnOneAllocateInputBuffer(nID) PROVE BuffersInv'
  <2>1. /\ UNCHANGED <<alive, array, blocks, allocPc, i, pc, node>>
        /\ allocPc = "idle" /\ allocate_buffer /\ held' = held \ {nID}
        /\ allocate_queue' = enqueue(allocate_queue, nID)
        /\ Conserved /\ AllPlanes
    BY <1>3 DEF ReturnOneAllocateInputBuffer, Ready
  <2>2. nID \in IDs /\ nID \notin Range(allocate_queue)
    BY <1>t, <2>1 DEF Conserved
  <2>3. /\ allocate_queue' \in Seq(IDs) /\ IsInjective(allocate_queue')
        /\ Range(allocate_queue') = Range(allocate_queue) \cup {nID}
    BY <1>t, <2>1, <2>2, EnqueueFresh DEF Conserved
  <2>4. TypeOK'
    BY <1>t, <2>1, <2>3 DEF TypeOK, array
  <2>5. InHand' = InHand
    BY <2>1 DEF InHand
  <2>6. Conserved'
    BY <2>1, <2>3, <2>5 DEF Conserved, array
  <2>7. AllPlanes'
    BY <2>1 DEF AllPlanes, array
  <2> QED
    BY <2>1, <2>4, <2>6, <2>7 DEF array
<1> QED
  BY <1>1, <1>2, <1>3

\* The manager's life.
LEMMA ManagerStep ==
  ASSUME BuffersInv, FrameBufferManagerCreate \/ FrameBufferManagerDestroy
  PROVE  BuffersInv'
<1> USE DEF BuffersInv
<1>1. CASE FrameBufferManagerCreate
  <2>1. /\ UNCHANGED <<allocate_buffer, virt, allocate_queue, blocks, allocPc, pc, node, held>>
        /\ ~ allocate_buffer /\ allocPc = "idle" /\ Untouched
    BY <1>1 DEF FrameBufferManagerCreate, clients
  <2>2. TypeOK'
    BY <1>1, <2>1, MaxNumAssumption DEF FrameBufferManagerCreate, TypeOK
  <2>3. Untouched'
    BY <2>1 DEF Untouched, InHand
  <2> QED
    BY <2>1, <2>2, <2>3
<1>2. CASE FrameBufferManagerDestroy
  <2>1. /\ UNCHANGED <<buffer_num, size_c, allocPc, i, pc, node>>
        /\ allocPc = "idle" /\ \A c \in Clients : pc[c] = "idle"
        /\ allocate_buffer' = FALSE /\ virt' = {} /\ allocate_queue' = <<>> /\ held' = {}
        /\ alive' = FALSE
        /\ blocks' = IF allocate_buffer THEN blocks \ Recorded ELSE blocks
    BY <1>2 DEF FrameBufferManagerDestroy
  <2>2. blocks' = {}
    BY <2>1 DEF Recorded
  <2>3. TypeOK'
    BY <2>1, <2>2, EmptySeq DEF TypeOK
  <2>4. Untouched'
    BY <2>1 DEF Untouched, InHand
  <2> QED
    BY <2>1, <2>2, <2>3, <2>4
<1> QED
  BY <1>1, <1>2

\* So the invariant holds for the whole life of the manager, and in the next one's.
LEMMA BuffersKept == Spec => []BuffersInv
<1>1. BuffersInv /\ [Next]_vars => BuffersInv'
  <2> SUFFICES ASSUME BuffersInv, [Next]_vars PROVE BuffersInv'
    OBVIOUS
  <2>1. CASE Next
    <3>1. CASE \/ \E n \in 1 .. MaxNum, c \in {0, 1} : AllocateArray(n, c)
               \/ AllocatePlane \/ AllocatePlaneFails \/ UndoAllocation \/ QueueAll
      BY <3>1, AllocateStep, Zenon
    <3>2. CASE \/ \E c \in Clients : GetTake(c) \/ GetCopy(c)
               \/ \E nID \in held : ReturnOneAllocateInputBuffer(nID)
      BY <3>2, UseStep, Zenon
    <3>3. CASE FrameBufferManagerCreate \/ FrameBufferManagerDestroy
      BY <3>3, ManagerStep, Zenon
    <3> QED
      BY <2>1, <3>1, <3>2, <3>3 DEF Next
  <2>2. CASE UNCHANGED vars
    <3>1. UNCHANGED <<alive, buffer_num, size_c, allocate_buffer, virt, allocate_queue, blocks,
                      allocPc, i, pc, node, held>>
      BY <2>2 DEF vars, array, clients
    <3>2. InHand' = InHand
      BY <3>1 DEF InHand
    <3>3. TypeOK'
      BY <3>1 DEF BuffersInv, TypeOK
    <3>4. (Untouched' <=> Untouched) /\ (PlanesSoFar' <=> PlanesSoFar) /\ (AllPlanes' <=> AllPlanes)
      BY <3>1, <3>2 DEF Untouched, PlanesSoFar, AllPlanes
    <3>5. Conserved' <=> Conserved
      BY <3>1, <3>2 DEF Conserved
    <3> QED
      BY <3>1, <3>3, <3>4, <3>5 DEF BuffersInv
  <2> QED
    BY <2>1, <2>2
<1> QED
  BY <1>1, InitBuffers, PTL DEF Spec

-----------------------------------------------------------------------------

\* No picture buffer is lost between the queue, the clients' calls and the
\* application, and none is with two of them.
THEOREM PicturesConserved == Spec => []BuffersConserved
<1>1. BuffersInv => BuffersConserved
  BY DEF BuffersInv, Conserved, BuffersConserved, Ready
<1> QED
  BY <1>1, BuffersKept, PTL

\* An allocation that fails half way and the destruction of the manager free what
\* the array points to, which is all that was taken.
THEOREM PicturesFreed == Spec => []NoMemoryLeft
<1>1. BuffersInv => NoMemoryLeft
  BY DEF BuffersInv, NoMemoryLeft
<1> QED
  BY <1>1, BuffersKept, PTL

\* A buffer that an application can get has all its planes.
THEOREM PicturesComplete == Spec => []BuffersComplete
<1>1. BuffersInv => BuffersComplete
  <2> SUFFICES ASSUME BuffersInv PROVE BuffersComplete
    OBVIOUS
  <2>1. CASE allocPc = "idle" /\ allocate_buffer
    BY <2>1 DEF BuffersInv, Conserved, AllPlanes, BuffersComplete
  <2>2. CASE ~ (allocPc = "idle" /\ allocate_buffer)
    <3>1. Range(<<>>) = {}
      BY EmptySeq, QueueRange DEF Range
    <3> QED
      BY <2>2, <3>1 DEF BuffersInv, Untouched, BuffersComplete
  <2> QED
    BY <2>1, <2>2
<1> QED
  BY <1>1, BuffersKept, PTL
=============================================================================
