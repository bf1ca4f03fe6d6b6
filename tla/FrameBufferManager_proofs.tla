---------------------- MODULE FrameBufferManager_proofs ----------------------
(***************************************************************************)
(* Theorems about the frame path, for any number of threads, slots, frames *)
(* and identities, and about the pointers behind its queues.               *)
(***************************************************************************)
EXTENDS FrameBufferManager, SequenceTheorems, FiniteSetTheorems, WellFoundedInduction,
        TLAPS

-----------------------------------------------------------------------------
(* The queues, as long as no node is queued twice.                         *)

\* The nodes of a non-empty queue are among S, and its head is one of them.
LEMMA QueueRange ==
  ASSUME NEW S, NEW q \in Seq(S)
  PROVE  /\ Range(q) = {q[i] : i \in 1 .. Len(q)}
         /\ Range(q) \subseteq S
         /\ q # <<>> => Head(q) \in Range(q) /\ Head(q) \in S
  BY LenProperties, EmptySeq DEF Range

\* A node that is not queued goes to the end: the queue has this one node more
\* and still holds each node once.
LEMMA EnqueueFresh ==
  ASSUME NEW S, NEW q \in Seq(S), NEW p \in S, p \notin Range(q), IsInjective(q)
  PROVE  /\ enqueue(q, p) = Append(q, p)
         /\ enqueue(q, p) \in Seq(S)
         /\ Range(enqueue(q, p)) = Range(q) \cup {p}
         /\ IsInjective(enqueue(q, p))
         /\ enqueue(q, p) # <<>>
         /\ q # <<>> => Head(enqueue(q, p)) = Head(q)
<1>1. enqueue(q, p) = Append(q, p)
  BY DEF enqueue
<1> DEFINE r == Append(q, p)
<1>2. /\ r \in Seq(S) /\ Len(r) = Len(q) + 1 /\ Len(q) \in Nat
      /\ \A i \in 1 .. Len(q) : r[i] = q[i]
      /\ r[Len(q) + 1] = p
  BY LenProperties
<1>3. /\ Range(r) = {r[i] : i \in 1 .. Len(q) + 1}
      /\ Range(q) = {q[i] : i \in 1 .. Len(q)}
  BY <1>2, QueueRange
<1> HIDE DEF r
<1>4. Range(r) = Range(q) \cup {p}
  BY <1>2, <1>3
<1>5. IsInjective(r)
  BY <1>2, <1>3, LenProperties DEF IsInjective
<1>6. r # <<>>
  BY <1>2, EmptySeq
<1>7. q # <<>> => Head(r) = Head(q)
  BY <1>2, <1>6, EmptySeq
<1> QED
  BY <1>1, <1>2, <1>4, <1>5, <1>6, <1>7 DEF r

\* Taking the head of a queue that holds each node once leaves the others.
LEMMA DequeueHead ==
  ASSUME NEW S, NEW q \in Seq(S), q # <<>>, IsInjective(q)
  PROVE  /\ dequeue(q) \in Seq(S)
         /\ Range(dequeue(q)) = Range(q) \ {Head(q)}
         /\ IsInjective(dequeue(q))
<1> DEFINE r == Tail(q)
<1>1. /\ r \in Seq(S) /\ Len(r) = Len(q) - 1 /\ Len(q) \in Nat \ {0}
      /\ \A i \in 1 .. Len(q) - 1 : r[i] = q[i + 1]
      /\ Head(q) = q[1]
  BY HeadTailProperties, EmptySeq
<1>2. /\ Range(r) = {r[i] : i \in 1 .. Len(q) - 1}
      /\ Range(q) = {q[i] : i \in 1 .. Len(q)}
  BY <1>1, QueueRange
<1>3. \A i, j \in 1 .. Len(q) : q[i] = q[j] => i = j
  BY LenProperties DEF IsInjective
<1> HIDE DEF r
<1>4. Range(r) = Range(q) \ {Head(q)}
  <2>1. ASSUME NEW x \in Range(r) PROVE x \in Range(q) \ {Head(q)}
    BY <1>1, <1>2, <1>3
  <2>2. ASSUME NEW x \in Range(q) \ {Head(q)} PROVE x \in Range(r)
    <3>1. PICK i \in 1 .. Len(q) : x = q[i] /\ i # 1
      BY <1>1, <1>2
    <3>2. i - 1 \in 1 .. Len(q) - 1 /\ r[i - 1] = x
      BY <1>1, <3>1
    <3> QED
      BY <1>2, <3>2
  <2> QED
    BY <2>1, <2>2
<1>5. IsInjective(r)
  BY <1>1, <1>3, LenProperties DEF IsInjective
<1> QED
  BY <1>1, <1>4, <1>5 DEF r, dequeue

-----------------------------------------------------------------------------
(* Types.                                                                  *)

\* The queue filled by FrameBufferManagerCreate holds every slot once.
LEMMA AllSlots ==
  /\ AllEnqueued \in Seq(Slots)
  /\ Range(AllEnqueued) = Slots
  /\ IsInjective(AllEnqueued)
BY SizeAssumption DEF AllEnqueued, Slots, Range, IsInjective

\* Initially everything has its type.
LEMMA InitTypeOK == Init => TypeOK
<1> SUFFICES ASSUME Init PROVE TypeOK
  OBVIOUS
<1>1. ZeroFrame \in Frame
  BY SizeAssumption DEF ZeroFrame, Frame
<1> QED
  BY <1>1, AllSlots, SizeAssumption DEF Init, TypeOK, Threads

\* A feeder's steps keep the types.
LEMMA FeederTypeOK ==
  ASSUME TypeOK, SlotsDisjoint, NEW t \in Feeders, FeederStep(t)
  PROVE  TypeOK'
<1> USE RolesAssumption, SizeAssumption DEF Threads, Step
<1>1. CASE AddTake(t)
  <2>1. Head(empty_quene) \in Slots /\ dequeue(empty_quene) \in Seq(Slots)
    BY <1>1, QueueRange, DequeueHead DEF AddTake, TypeOK, SlotsDisjoint
  <2>2. \A id \in BufferIDs : [nID |-> id, nPts |-> frames + 1] \in Frame
    BY <1>1 DEF AddTake, TypeOK, Frame
  <2> QED
    BY <1>1, <2>1, <2>2 DEF AddTake, TypeOK, history
<1>2. CASE AddCopy(t)
  BY <1>2 DEF AddCopy, TypeOK, queues, history
<1>3. CASE AddPut(t)
  <2>1. slot[t] \in Slots /\ enqueue(input_quene, slot[t]) \in Seq(Slots)
    BY <1>3, EnqueueFresh DEF AddPut, TypeOK, SlotsDisjoint, Holders
  <2> QED
    BY <1>3, <2>1 DEF AddPut, TypeOK, history
<1> QED
  BY <1>1, <1>2, <1>3 DEF FeederStep

\* An encoder's steps keep the types.
LEMMA EncoderTypeOK ==
  ASSUME TypeOK, SlotsDisjoint, NEW t \in Encoders, EncoderStep(t)
  PROVE  TypeOK'
<1> USE RolesAssumption, SizeAssumption DEF Threads, Step
<1>1. CASE GetHead(t)
  <2>1. Head(input_quene) \in Slots
    BY <1>1, QueueRange DEF GetHead, TypeOK
  <2> QED
    BY <1>1, <2>1 DEF GetHead, TypeOK, queues, history
<1>2. CASE GetCopyID(t)
  BY <1>2 DEF GetCopyID, TypeOK, Frame, queues, history
<1>3. CASE GetCopyPts(t)
  BY <1>3 DEF GetCopyPts, TypeOK, Frame, queues, history
<1>4. CASE LockEngine(t)
  BY <1>4 DEF LockEngine, TypeOK, queues, history
<1>5. CASE Encode(t)
  BY <1>5 DEF Encode, TypeOK, queues
<1>6. CASE AddUsed(t)
  <2>1. /\ input_quene' \in Seq(Slots)
        /\ used_quene' \in Seq(Slots)
        /\ empty_quene' \in Seq(Slots)
    <3>1. CASE input_quene = <<>>
      BY <1>6, <3>1 DEF AddUsed, TypeOK, queues
    <3>2. CASE input_quene # <<>>
      <4>1. /\ dequeue(input_quene) \in Seq(Slots)
            /\ Head(input_quene) \in Slots
            /\ Head(input_quene) \notin Range(used_quene)
        BY <3>2, QueueRange, DequeueHead DEF TypeOK, SlotsDisjoint
      <4>2. enqueue(used_quene, Head(input_quene)) \in Seq(Slots)
        BY <4>1, EnqueueFresh DEF TypeOK, SlotsDisjoint
      <4> QED
        BY <1>6, <3>2, <4>1, <4>2 DEF AddUsed, TypeOK, queues
    <3> QED
      BY <3>1, <3>2
  <2> QED
    BY <1>6, <2>1 DEF AddUsed, TypeOK, history
<1> QED
  BY <1>1, <1>2, <1>3, <1>4, <1>5, <1>6 DEF EncoderStep

\* A collector's steps keep the types.
LEMMA CollectorTypeOK ==
  ASSUME TypeOK, SlotsDisjoint, NEW t \in Collectors, CollectorStep(t)
  PROVE  TypeOK'
<1> USE RolesAssumption, SizeAssumption DEF Threads, Step
<1>1. CASE CollectTake(t)
  <2>1. Head(used_quene) \in Slots /\ dequeue(used_quene) \in Seq(Slots)
    BY <1>1, QueueRange, DequeueHead DEF CollectTake, TypeOK, SlotsDisjoint
  <2>2. inputbuffer[Head(used_quene)] \in Frame
    BY <2>1 DEF TypeOK
  <2> QED
    BY <1>1, <2>1, <2>2 DEF CollectTake, TypeOK
<1>2. CASE CollectCopy(t)
  BY <1>2 DEF CollectCopy, TypeOK, queues, history
<1>3. CASE CollectPut(t)
  <2>1. slot[t] \in Slots /\ enqueue(empty_quene, slot[t]) \in Seq(Slots)
    BY <1>3, EnqueueFresh DEF CollectPut, TypeOK, SlotsDisjoint, Holders
  <2> QED
    BY <1>3, <2>1 DEF CollectPut, TypeOK, history
<1> QED
  BY <1>1, <1>2, <1>3 DEF CollectorStep

-----------------------------------------------------------------------------
(* Ownership of the slots.                                                 *)

\* A feeder's steps keep every slot at one place.
LEMMA FeederSlotsDisjoint ==
  ASSUME TypeOK, SlotsDisjoint, NEW t \in Feeders, FeederStep(t)
  PROVE  SlotsDisjoint'
<1> USE RolesAssumption DEF Threads, Step
<1>1. CASE AddTake(t)
  <2>1. /\ Range(empty_quene') = Range(empty_quene) \ {Head(empty_quene)}
        /\ IsInjective(empty_quene')
        /\ Head(empty_quene) \in Range(empty_quene)
    BY <1>1, DequeueHead, QueueRange DEF AddTake, TypeOK, SlotsDisjoint
  <2>2. Holders' = Holders \cup {t}
    BY <1>1 DEF AddTake, TypeOK, Holders
  <2>3. slot'[t] = Head(empty_quene) /\ \A u \in Holders : slot'[u] = slot[u]
    BY <1>1 DEF AddTake, TypeOK, Holders
  <2> QED
    BY <1>1, <2>1, <2>2, <2>3 DEF AddTake, SlotsDisjoint
<1>2. CASE AddCopy(t)
  <2>1. Holders' = Holders
    BY <1>2 DEF AddCopy, TypeOK, Holders
  <2> QED
    BY <1>2, <2>1 DEF AddCopy, SlotsDisjoint, queues
<1>3. CASE AddPut(t)
  <2>1. t \in Holders /\ slot[t] \in Slots /\ Holders' = Holders \ {t}
    BY <1>3 DEF AddPut, TypeOK, Holders
  <2>2. /\ Range(input_quene') = Range(input_quene) \cup {slot[t]}
        /\ IsInjective(input_quene')
    BY <1>3, <2>1, EnqueueFresh DEF AddPut, TypeOK, SlotsDisjoint
  <2> QED
    BY <1>3, <2>1, <2>2 DEF AddPut, SlotsDisjoint
<1> QED
  BY <1>1, <1>2, <1>3 DEF FeederStep

\* So do an encoder's: it never owns a slot, and moves one between two queues
\* within a critical section.
LEMMA EncoderSlotsDisjoint ==
  ASSUME TypeOK, SlotsDisjoint, NEW t \in Encoders, EncoderStep(t)
  PROVE  SlotsDisjoint'
<1> USE RolesAssumption DEF Threads, Step
<1>1. Holders' = Holders /\ \A u \in Holders : slot'[u] = slot[u]
  BY DEF EncoderStep, GetHead, GetCopyID, GetCopyPts, LockEngine, Encode, AddUsed,
         TypeOK, Holders
<1>2. CASE UNCHANGED queues
  BY <1>1, <1>2 DEF SlotsDisjoint, queues
<1>3. CASE AddUsed(t) /\ input_quene # <<>>
  <2>1. /\ input_quene' = dequeue(input_quene)
        /\ empty_quene' = empty_quene
        /\ \/ used_quene' = used_quene
           \/ used_quene' = enqueue(used_quene, Head(input_quene))
    BY <1>3 DEF AddUsed, queues
  <2>2. /\ Range(input_quene') = Range(input_quene) \ {Head(input_quene)}
        /\ IsInjective(input_quene')
        /\ Head(input_quene) \in Range(input_quene) /\ Head(input_quene) \in Slots
    BY <1>3, <2>1, DequeueHead, QueueRange DEF TypeOK, SlotsDisjoint
  <2>3. CASE used_quene' = used_quene
    BY <1>1, <2>1, <2>2, <2>3 DEF SlotsDisjoint
  <2>4. CASE used_quene' = enqueue(used_quene, Head(input_quene))
    <3>1. /\ Range(used_quene') = Range(used_quene) \cup {Head(input_quene)}
          /\ IsInjective(used_quene')
      BY <2>2, <2>4, EnqueueFresh DEF TypeOK, SlotsDisjoint
    <3> QED
      BY <1>1, <2>1, <2>2, <3>1 DEF SlotsDisjoint
  <2> QED
    BY <2>1, <2>3, <2>4
<1> QED
  BY <1>2, <1>3 DEF EncoderStep, GetHead, GetCopyID, GetCopyPts, LockEngine, Encode, AddUsed

\* And a collector's.
LEMMA CollectorSlotsDisjoint ==
  ASSUME TypeOK, SlotsDisjoint, NEW t \in Collectors, CollectorStep(t)
  PROVE  SlotsDisjoint'
<1> USE RolesAssumption DEF Threads, Step
<1>1. CASE CollectTake(t)
  <2>1. /\ Range(used_quene') = Range(used_quene) \ {Head(used_quene)}
        /\ IsInjective(used_quene')
        /\ Head(used_quene) \in Range(used_quene)
    BY <1>1, DequeueHead, QueueRange DEF CollectTake, TypeOK, SlotsDisjoint
  <2>2. Holders' = Holders \cup {t}
    BY <1>1 DEF CollectTake, TypeOK, Holders
  <2>3. slot'[t] = Head(used_quene) /\ \A u \in Holders : slot'[u] = slot[u]
    BY <1>1 DEF CollectTake, TypeOK, Holders
  <2> QED
    BY <1>1, <2>1, <2>2, <2>3 DEF CollectTake, SlotsDisjoint
<1>2. CASE CollectCopy(t)
  <2>1. Holders' = Holders
    BY <1>2 DEF CollectCopy, TypeOK, Holders
  <2> QED
    BY <1>2, <2>1 DEF CollectCopy, SlotsDisjoint, queues
<1>3. CASE CollectPut(t)
  <2>1. t \in Holders /\ slot[t] \in Slots /\ Holders' = Holders \ {t}
    BY <1>3 DEF CollectPut, TypeOK, Holders
  <2>2. /\ Range(empty_quene') = Range(empty_quene) \cup {slot[t]}
        /\ IsInjective(empty_quene')
    BY <1>3, <2>1, EnqueueFresh DEF CollectPut, TypeOK, SlotsDisjoint
  <2> QED
    BY <1>3, <2>1, <2>2 DEF CollectPut, SlotsDisjoint
<1> QED
  BY <1>1, <1>2, <1>3 DEF CollectorStep

\* Slots have one place and everything has its type, whoever encodes: TypeOK
\* needs SlotsDisjoint, for enqueue is only Append on a node that is not queued.
THEOREM SlotOwnership == Spec => [](TypeOK /\ SlotsDisjoint)
<1>1. Init => TypeOK /\ SlotsDisjoint
  <2> SUFFICES ASSUME Init PROVE SlotsDisjoint
    BY InitTypeOK
  <2>1. Range(<<>>) = {} /\ IsInjective(<<>>)
    BY DEF Range, IsInjective
  <2>2. Holders = {}
    BY DEF Init, Holders
  <2> QED
    BY <2>1, <2>2, AllSlots DEF Init, SlotsDisjoint
<1>2. TypeOK /\ SlotsDisjoint /\ [Next]_vars => TypeOK' /\ SlotsDisjoint'
  <2> SUFFICES ASSUME TypeOK, SlotsDisjoint, [Next]_vars
               PROVE  TypeOK' /\ SlotsDisjoint'
    OBVIOUS
  <2>1. CASE \E t \in Feeders : FeederStep(t)
    BY <2>1, FeederTypeOK, FeederSlotsDisjoint
  <2>2. CASE \E t \in Encoders : EncoderStep(t)
    BY <2>2, EncoderTypeOK, EncoderSlotsDisjoint
  <2>3. CASE \E t \in Collectors : CollectorStep(t)
    BY <2>3, CollectorTypeOK, CollectorSlotsDisjoint
  <2>4. CASE UNCHANGED vars
    BY <2>4 DEF TypeOK, SlotsDisjoint, Holders, vars, queues, history
  <2> QED
    BY <2>1, <2>2, <2>3, <2>4 DEF Next, Finished
<1> QED
  BY <1>1, <1>2, PTL DEF Spec

-----------------------------------------------------------------------------
(* One encoding thread.                                                    *)

\* No two threads are in VideoEncodeOneFrame of the context.
OneEncoder == \A t, u \in Encoders : t = u

\* What the encoding thread read without the mutex is what it will dequeue, and
\* so no slot is dropped.
Fresh == PointerFresh /\ CopyWhole /\ NoSlotLost
Owned == TypeOK /\ SlotsDisjoint
FrameInv == Owned /\ Fresh

\* Feeders add at the end of the input queue, and write only slots that are in
\* no queue: the encoder's pointer and its copy stay right.
LEMMA FeederFresh ==
  ASSUME FrameInv, NEW t \in Feeders, FeederStep(t)
  PROVE  Fresh'
<1> USE RolesAssumption DEF Threads, Step, FrameInv, Owned, Fresh
<1>1. \A e \in Encoders : pc'[e] = pc[e] /\ slot'[e] = slot[e]
  BY DEF FeederStep, AddTake, AddCopy, AddPut, TypeOK
<1>2. curEncInputbuffer' = curEncInputbuffer
  BY DEF FeederStep, AddTake, AddCopy, AddPut
<1>3. /\ Copying' = Copying /\ Working' = Working
      /\ \A e \in Copying \cup Working : e \in Encoders /\ slot[e] \in Range(input_quene)
                                       /\ slot[e] \in Slots
  BY <1>1, QueueRange DEF Copying, Working, PointerFresh, TypeOK
<1>4. CASE AddTake(t)
  <2>1. /\ Range(empty_quene') = Range(empty_quene) \ {Head(empty_quene)}
        /\ Head(empty_quene) \in Range(empty_quene)
    BY <1>4, DequeueHead, QueueRange DEF AddTake, TypeOK, SlotsDisjoint
  <2>2. /\ Holders' = Holders \cup {t} /\ t \notin Holders
        /\ slot'[t] = Head(empty_quene) /\ \A u \in Holders : slot'[u] = slot[u]
    BY <1>4 DEF AddTake, TypeOK, Holders
  <2>3. NoSlotLost'
    BY <1>4, <2>1, <2>2 DEF AddTake, NoSlotLost
  <2> QED
    BY <1>1, <1>2, <1>3, <1>4, <2>3 DEF AddTake, PointerFresh, CopyWhole
<1>5. CASE AddCopy(t)
  <2>1. /\ Holders' = Holders /\ t \in Holders
        /\ slot[t] \in Slots
    BY <1>5 DEF AddCopy, TypeOK, Holders
  <2>2. \A e \in Copying \cup Working : inputbuffer'[slot[e]] = inputbuffer[slot[e]]
    BY <1>3, <1>5, <2>1 DEF AddCopy, TypeOK, SlotsDisjoint
  <2> QED
    BY <1>1, <1>2, <1>3, <1>5, <2>1, <2>2
       DEF AddCopy, PointerFresh, CopyWhole, NoSlotLost, queues, Copying, Working
<1>6. CASE AddPut(t)
  <2>1. t \in Holders /\ slot[t] \in Slots /\ Holders' = Holders \ {t}
    BY <1>6 DEF AddPut, TypeOK, Holders
  <2>2. /\ Range(input_quene') = Range(input_quene) \cup {slot[t]}
        /\ input_quene' # <<>>
        /\ input_quene # <<>> => Head(input_quene') = Head(input_quene)
    BY <1>6, <2>1, EnqueueFresh DEF AddPut, TypeOK, SlotsDisjoint
  <2>3. NoSlotLost'
    BY <1>6, <2>1, <2>2 DEF AddPut, NoSlotLost
  <2> QED
    BY <1>1, <1>2, <1>3, <1>6, <2>2, <2>3 DEF AddPut, PointerFresh, CopyWhole
<1> QED
  BY <1>4, <1>5, <1>6 DEF FeederStep

\* The encoding thread is the only one that removes from the input queue, and
\* it compares the nID with that of the very slot it was copied from.
LEMMA EncoderFresh ==
  ASSUME OneEncoder, FrameInv, NEW t \in Encoders, EncoderStep(t)
  PROVE  Fresh'
<1> USE RolesAssumption DEF Threads, Step, FrameInv, Owned, Fresh
<1>1. Encoders = {t}
  BY DEF OneEncoder
<1>2. Holders' = Holders /\ \A u \in Holders : slot'[u] = slot[u]
  BY DEF EncoderStep, GetHead, GetCopyID, GetCopyPts, LockEngine, Encode, AddUsed,
         TypeOK, Holders
<1>3. CASE UNCHANGED queues
  <2>1. NoSlotLost'
    BY <1>2, <1>3 DEF NoSlotLost, queues
  <2>2. PointerFresh'
    BY <1>1, <1>3 DEF EncoderStep, GetHead, GetCopyID, GetCopyPts, LockEngine, Encode,
       AddUsed, TypeOK, PointerFresh, Copying, Working, queues
  <2>3. CopyWhole'
    <3>1. CASE GetCopyPts(t)
      <4>1. /\ curEncInputbuffer.nID = inputbuffer[slot[t]].nID
            /\ inputbuffer[slot[t]] \in Frame /\ curEncInputbuffer \in Frame
        BY <3>1 DEF GetCopyPts, CopyWhole, TypeOK
      <4>2. curEncInputbuffer' = inputbuffer[slot[t]]
        BY <3>1, <4>1 DEF GetCopyPts, Frame
      <4> QED
        BY <1>1, <3>1, <4>2 DEF GetCopyPts, CopyWhole, Working, TypeOK
    <3>2. CASE GetCopyID(t)
      BY <1>1, <3>2 DEF GetCopyID, CopyWhole, Working, TypeOK, Frame
    <3>3. CASE GetHead(t) \/ LockEngine(t) \/ Encode(t) \/ AddUsed(t)
      BY <1>1, <3>3 DEF GetHead, LockEngine, Encode, AddUsed, CopyWhole, Working, TypeOK
    <3> QED
      BY <3>1, <3>2, <3>3 DEF EncoderStep
  <2> QED
    BY <2>1, <2>2, <2>3
<1>4. CASE AddUsed(t) /\ ~ UNCHANGED queues
  <2>1. /\ input_quene # <<>> /\ slot[t] = Head(input_quene)
        /\ curEncInputbuffer.nID = inputbuffer[Head(input_quene)].nID
    BY <1>4 DEF AddUsed, PointerFresh, CopyWhole, Working
  <2>2. /\ input_quene' = dequeue(input_quene)
        /\ empty_quene' = empty_quene
        /\ used_quene' = enqueue(used_quene, Head(input_quene))
    BY <1>4, <2>1 DEF AddUsed
  <2>3. /\ Range(input_quene') = Range(input_quene) \ {Head(input_quene)}
        /\ Head(input_quene) \in Range(input_quene) /\ Head(input_quene) \in Slots
    BY <2>1, <2>2, DequeueHead, QueueRange DEF TypeOK, SlotsDisjoint
  <2>4. Range(used_quene') = Range(used_quene) \cup {Head(input_quene)}
    BY <2>2, <2>3, EnqueueFresh DEF TypeOK, SlotsDisjoint
  <2>5. NoSlotLost'
    BY <1>2, <2>2, <2>3, <2>4 DEF NoSlotLost
  <2> QED
    BY <1>1, <1>4, <2>5 DEF AddUsed, PointerFresh, CopyWhole, Copying, Working, TypeOK
<1> QED
  BY <1>3, <1>4 DEF EncoderStep, GetHead, GetCopyID, GetCopyPts, LockEngine, Encode

\* Collectors touch neither the input queue nor the frames in the slots.
LEMMA CollectorFresh ==
  ASSUME FrameInv, NEW t \in Collectors, CollectorStep(t)
  PROVE  Fresh'
<1> USE RolesAssumption DEF Threads, Step, FrameInv, Owned, Fresh
<1>1. /\ \A e \in Encoders : pc'[e] = pc[e] /\ slot'[e] = slot[e]
      /\ UNCHANGED <<input_quene, inputbuffer, curEncInputbuffer>>
  BY DEF CollectorStep, CollectTake, CollectCopy, CollectPut, TypeOK, queues
<1>2. PointerFresh' /\ CopyWhole'
  BY <1>1 DEF PointerFresh, CopyWhole, Copying, Working
<1>3. CASE CollectTake(t)
  <2>1. /\ Range(used_quene') = Range(used_quene) \ {Head(used_quene)}
        /\ Head(used_quene) \in Range(used_quene)
    BY <1>3, DequeueHead, QueueRange DEF CollectTake, TypeOK, SlotsDisjoint
  <2>2. /\ Holders' = Holders \cup {t} /\ t \notin Holders
        /\ slot'[t] = Head(used_quene) /\ \A u \in Holders : slot'[u] = slot[u]
    BY <1>3 DEF CollectTake, TypeOK, Holders
  <2> QED
    BY <1>2, <1>3, <2>1, <2>2 DEF CollectTake, NoSlotLost
<1>4. CASE CollectCopy(t)
  BY <1>2, <1>4 DEF CollectCopy, NoSlotLost, Holders, TypeOK, queues
<1>5. CASE CollectPut(t)
  <2>1. t \in Holders /\ slot[t] \in Slots /\ Holders' = Holders \ {t}
    BY <1>5 DEF CollectPut, TypeOK, Holders
  <2>2. Range(empty_quene') = Range(empty_quene) \cup {slot[t]}
    BY <1>5, <2>1, EnqueueFresh DEF CollectPut, TypeOK, SlotsDisjoint
  <2> QED
    BY <1>2, <1>5, <2>1, <2>2 DEF CollectPut, NoSlotLost
<1> QED
  BY <1>3, <1>4, <1>5 DEF CollectorStep

\* With one encoding thread the unlocked read of the input queue's head is
\* harmless: the pointer stays good, the copy is whole and no slot is lost.
THEOREM UnlockedReadSafe ==
  ASSUME OneEncoder
  PROVE  Spec => [](PointerFresh /\ CopyWhole /\ NoSlotLost)
<1>1. Init => Fresh
  <2> SUFFICES ASSUME Init PROVE Fresh
    OBVIOUS
  <2>1. Copying = {} /\ Working = {}
    BY DEF Init, Copying, Working, Threads
  <2>2. NoSlotLost
    <3>1. Range(<<>>) = {} /\ Holders = {}
      BY DEF Init, Holders, Range
    <3> QED
      BY <3>1, AllSlots DEF Init, NoSlotLost
  <2> QED
    BY <2>1, <2>2 DEF Fresh, PointerFresh, CopyWhole, Init, Threads
<1>2. Owned /\ Fresh /\ [Next]_vars => Fresh'
  <2> SUFFICES ASSUME FrameInv, [Next]_vars PROVE Fresh'
    BY DEF FrameInv
  <2>1. CASE \E t \in Feeders : FeederStep(t)
    BY <2>1, FeederFresh
  <2>2. CASE \E t \in Encoders : EncoderStep(t)
    BY <2>2, EncoderFresh
  <2>3. CASE \E t \in Collectors : CollectorStep(t)
    BY <2>3, CollectorFresh
  <2>4. CASE UNCHANGED vars
    <3>1. Holders' = Holders /\ Copying' = Copying /\ Working' = Working
      BY <2>4 DEF Holders, Copying, Working, vars
    <3>2. NoSlotLost'
      BY <2>4, <3>1 DEF FrameInv, Fresh, NoSlotLost, vars, queues
    <3>3. PointerFresh' /\ CopyWhole'
      BY <2>4, <3>1 DEF FrameInv, Fresh, PointerFresh, CopyWhole, vars, queues
    <3> QED
      BY <3>2, <3>3 DEF Fresh
  <2> QED
    BY <2>1, <2>2, <2>3, <2>4 DEF Next, Finished
<1> QED
  BY <1>1, <1>2, SlotOwnership, PTL DEF Spec, Owned, Fresh

-----------------------------------------------------------------------------
(***************************************************************************)
(* What every thread may rely on, however many threads encode: a frame is  *)
(* handed back once, and whole.  Frames are told apart by their stamps;    *)
(* the invariant says that no two of the places where a frame can be carry *)
(* the same stamp.                                                         *)
(***************************************************************************)

\* The slots whose frame has yet to be dequeued for hand-back, the feeders that
\* have a frame in hand, the collectors that have one and that frame.
Filled == Range(input_quene) \cup Range(used_quene)
Feeding == {t \in Feeders : pc[t] # "idle"}
Collecting == {t \in Collectors : pc[t] # "idle"}
Carried(t) == IF pc[t] = "collect_copy" THEN inputbuffer[slot[t]] ELSE buf[t]

\* No stamp is from the future.
StampsPast ==
  /\ \A s \in Slots : inputbuffer[s].nPts <= frames
  /\ \A t \in Feeding : buf[t].nPts <= frames
  /\ \A f \in Range(taken) : f.nPts <= frames

\* The stamps of feeders, filled slots and dequeued frames are all different.
StampsApart ==
  /\ \A t, u \in Feeding : buf[t].nPts = buf[u].nPts => t = u
  /\ \A t \in Feeding, s \in Filled : buf[t].nPts # inputbuffer[s].nPts
  /\ \A t \in Feeding, f \in Range(taken) : buf[t].nPts # f.nPts
  /\ \A s, r \in Filled : inputbuffer[s].nPts = inputbuffer[r].nPts => s = r
  /\ \A s \in Filled, f \in Range(taken) : inputbuffer[s].nPts # f.nPts

\* A slot about to be queued holds the feeder's frame.
Copied == \A t \in Feeders : pc[t] = "add_put" => inputbuffer[slot[t]] = buf[t]

\* A collector carries a dequeued frame that no other collector carries.
Carrying ==
  /\ \A t \in Collecting : Carried(t) \in Range(taken)
  /\ \A t, u \in Collecting : Carried(t) = Carried(u) => t = u

StampInv == StampsPast /\ StampsApart /\ Copied /\ HandedBackOnce /\ Carrying

-----------------------------------------------------------------------------

\* Initially there is no frame.
LEMMA InitStamps == Init => StampInv
<1> SUFFICES ASSUME Init PROVE StampInv
  OBVIOUS
<1>1. Filled = {} /\ Feeding = {} /\ Collecting = {} /\ Range(taken) = {}
  BY DEF Init, Filled, Feeding, Collecting, Range, Threads
<1>2. StampsPast
  BY <1>1, SizeAssumption DEF Init, StampsPast, ZeroFrame, Slots
<1>3. Copied
  BY DEF Init, Copied, Threads
<1>4. HandedBackOnce
  BY DEF Init, HandedBackOnce
<1> QED
  BY <1>1, <1>2, <1>3, <1>4 DEF StampInv, StampsApart, Carrying

\* Stamps are numbers, and the slot of a busy thread is one.
LEMMA StampTypes ==
  ASSUME TypeOK
  PROVE  /\ frames \in Nat
         /\ \A s \in Slots : inputbuffer[s] \in Frame /\ inputbuffer[s].nPts \in Nat
         /\ \A t \in Threads : buf[t] \in Frame /\ buf[t].nPts \in Nat
         /\ \A f \in Range(taken) : f \in Frame /\ f.nPts \in Nat
         /\ Filled \subseteq Slots
         /\ \A t \in Feeding \cup Collecting : slot[t] \in Slots
         /\ Feeding \subseteq Threads /\ Collecting \subseteq Threads
         /\ Feeding \cap Collecting = {}
<1>1. /\ Range(taken) \subseteq Frame
      /\ Range(input_quene) \subseteq Slots /\ Range(used_quene) \subseteq Slots
  BY QueueRange DEF TypeOK
<1>2. \A f \in Frame : f.nPts \in Nat
  BY SizeAssumption DEF Frame
<1> QED
  BY <1>1, <1>2, SizeAssumption, RolesAssumption
  DEF TypeOK, Filled, Feeding, Collecting, Threads

\* AddTake stamps a frame with a number that nobody has yet.
LEMMA AddTakeStamps ==
  ASSUME TypeOK, SlotsDisjoint, StampInv, NEW t \in Feeders, AddTake(t)
  PROVE  StampInv'
<1> USE RolesAssumption DEF Step
<1>1. /\ buf'[t].nPts = frames + 1 /\ \A u \in Threads \ {t} : buf'[u] = buf[u]
      /\ pc[t] = "idle" /\ pc'[t] = "add_copy" /\ \A u \in Threads \ {t} : pc'[u] = pc[u]
      /\ \A u \in Threads \ {t} : slot'[u] = slot[u]
      /\ inputbuffer' = inputbuffer /\ taken' = taken /\ frames' = frames + 1
      /\ t \in Threads
  BY DEF AddTake, TypeOK, Threads, history
<1>2. Filled' = Filled
  BY DEF AddTake, Filled
<1>3. Feeding' = Feeding \cup {t} /\ t \notin Feeding
  BY <1>1 DEF Feeding, Threads
<1>4. Collecting' = Collecting /\ t \notin Collectors
  BY <1>1 DEF Collecting, Threads
<1>5. \A u \in Collectors : Carried(u)' = Carried(u)
  BY <1>1, <1>4 DEF Carried, Threads
<1>6. Range(taken)' = Range(taken)
  BY <1>1
<1>7. StampsPast'
  BY <1>1, <1>2, <1>3, <1>6, StampTypes DEF StampInv, StampsPast, Feeding, Threads
<1>8. StampsApart'
  <2>1. /\ \A u \in Feeding : buf[u].nPts # frames + 1 /\ buf'[u] = buf[u]
        /\ \A s \in Filled : inputbuffer[s].nPts # frames + 1
        /\ \A f \in Range(taken) : f.nPts # frames + 1
    BY <1>1, <1>3, StampTypes DEF StampInv, StampsPast
  <2> QED
    BY <1>1, <1>2, <1>3, <1>6, <2>1 DEF StampInv, StampsApart
<1>9. Copied'
  BY <1>1 DEF StampInv, Copied, Threads
<1>10. HandedBackOnce' /\ Carrying'
  BY <1>1, <1>4, <1>5, <1>6 DEF StampInv, HandedBackOnce, Carrying, Collecting
<1> QED
  BY <1>7, <1>8, <1>9, <1>10 DEF StampInv

\* AddCopy writes to a slot that nobody else looks at.
LEMMA AddCopyStamps ==
  ASSUME TypeOK, SlotsDisjoint, StampInv, NEW t \in Feeders, AddCopy(t)
  PROVE  StampInv'
<1> USE RolesAssumption DEF Step
<1>1. /\ pc[t] = "add_copy" /\ pc'[t] = "add_put" /\ \A u \in Threads \ {t} : pc'[u] = pc[u]
      /\ buf' = buf /\ taken' = taken /\ frames' = frames /\ slot' = slot
      /\ slot[t] \in Slots /\ t \in Threads /\ t \in Feeding
      /\ inputbuffer'[slot[t]] = buf[t]
      /\ \A s \in Slots \ {slot[t]} : inputbuffer'[s] = inputbuffer[s]
  BY DEF AddCopy, TypeOK, Threads, history, Feeding
<1>2. Filled' = Filled /\ slot[t] \notin Filled
  BY <1>1 DEF AddCopy, Filled, queues, SlotsDisjoint, Holders
<1>3. Feeding' = Feeding /\ Collecting' = Collecting /\ t \notin Collectors
  BY <1>1 DEF Feeding, Collecting, Threads
<1>4. \A u \in Threads : pc[u] \in {"add_put", "collect_copy"} => slot[u] \in Slots \ {slot[t]}
  BY <1>1 DEF SlotsDisjoint, Holders, TypeOK
<1>5. \A u \in Collectors : Carried(u)' = Carried(u)
  BY <1>1, <1>3, <1>4 DEF Carried, Threads
<1>6. Range(taken)' = Range(taken)
  BY <1>1
<1>7. StampsPast'
  BY <1>1, <1>3, <1>6 DEF StampInv, StampsPast
<1>8. StampsApart'
  <2>1. \A s \in Filled : inputbuffer'[s] = inputbuffer[s]
    BY <1>1, <1>2, StampTypes
  <2> QED
    BY <1>1, <1>2, <1>3, <1>6, <2>1 DEF StampInv, StampsApart
<1>9. Copied'
  BY <1>1, <1>4 DEF StampInv, Copied, Threads
<1>10. HandedBackOnce' /\ Carrying'
  BY <1>1, <1>3, <1>5, <1>6 DEF StampInv, HandedBackOnce, Carrying, Collecting
<1> QED
  BY <1>7, <1>8, <1>9, <1>10 DEF StampInv

\* AddPut makes the feeder's stamp a slot's.
LEMMA AddPutStamps ==
  ASSUME TypeOK, SlotsDisjoint, StampInv, NEW t \in Feeders, AddPut(t)
  PROVE  StampInv'
<1> USE RolesAssumption DEF Step
<1>1. /\ pc[t] = "add_put" /\ pc'[t] = "idle" /\ \A u \in Threads \ {t} : pc'[u] = pc[u]
      /\ buf' = buf /\ taken' = taken /\ frames' = frames /\ slot' = slot
      /\ inputbuffer' = inputbuffer
      /\ slot[t] \in Slots /\ t \in Threads /\ t \in Feeding /\ t \in Holders
  BY DEF AddPut, TypeOK, Threads, history, Feeding, Holders
<1>2. Filled' = Filled \cup {slot[t]} /\ slot[t] \notin Filled
  <2>1. Range(input_quene') = Range(input_quene) \cup {slot[t]}
    BY <1>1, EnqueueFresh DEF AddPut, TypeOK, SlotsDisjoint
  <2> QED
    BY <1>1, <2>1 DEF AddPut, Filled, SlotsDisjoint
<1>3. Feeding' = Feeding \ {t} /\ Collecting' = Collecting /\ t \notin Collectors
  BY <1>1 DEF Feeding, Collecting, Threads
<1>4. \A u \in Collectors : Carried(u)' = Carried(u)
  BY <1>1, <1>3 DEF Carried, Threads
<1>5. Range(taken)' = Range(taken)
  BY <1>1
<1>6. StampsPast'
  BY <1>1, <1>3, <1>5 DEF StampInv, StampsPast
<1>7. StampsApart'
  <2>1. inputbuffer[slot[t]] = buf[t]
    BY <1>1 DEF StampInv, Copied
  <2> QED
    BY <1>1, <1>2, <1>3, <1>5, <2>1 DEF StampInv, StampsApart
<1>8. Copied'
  BY <1>1 DEF StampInv, Copied, Threads
<1>9. HandedBackOnce' /\ Carrying'
  BY <1>1, <1>3, <1>4, <1>5 DEF StampInv, HandedBackOnce, Carrying, Collecting
<1> QED
  BY <1>6, <1>7, <1>8, <1>9 DEF StampInv

\* An encoder moves a slot from one queue to the other or drops it, whichever
\* frame it has copied: no slot becomes filled.
LEMMA EncoderStamps ==
  ASSUME TypeOK, SlotsDisjoint, StampInv, NEW t \in Encoders, EncoderStep(t)
  PROVE  StampInv'
<1> USE RolesAssumption DEF Step
<1>1. /\ \A u \in Threads \ {t} : pc'[u] = pc[u] /\ slot'[u] = slot[u]
      /\ buf' = buf /\ taken' = taken /\ frames' = frames
      /\ inputbuffer' = inputbuffer
      /\ t \notin Feeders /\ t \notin Collectors
  BY DEF EncoderStep, GetHead, GetCopyID, GetCopyPts, LockEngine, Encode, AddUsed,
         TypeOK, history
<1>2. Filled' \subseteq Filled
  <2>1. CASE UNCHANGED queues
    BY <2>1 DEF Filled, queues
  <2>2. CASE AddUsed(t) /\ input_quene # <<>>
    <3>1. /\ Range(dequeue(input_quene)) = Range(input_quene) \ {Head(input_quene)}
          /\ Head(input_quene) \in Range(input_quene) /\ Head(input_quene) \in Slots
      BY <2>2, DequeueHead, QueueRange DEF TypeOK, SlotsDisjoint
    <3>2. Range(enqueue(used_quene, Head(input_quene)))
            = Range(used_quene) \cup {Head(input_quene)}
      BY <3>1, EnqueueFresh DEF TypeOK, SlotsDisjoint
    <3>3. /\ input_quene' = dequeue(input_quene)
          /\ \/ used_quene' = used_quene
             \/ used_quene' = enqueue(used_quene, Head(input_quene))
      BY <2>2 DEF AddUsed, queues
    <3> QED
      BY <3>1, <3>2, <3>3 DEF Filled
  <2> QED
    BY <2>1, <2>2
    DEF EncoderStep, GetHead, GetCopyID, GetCopyPts, LockEngine, Encode, AddUsed
<1>3. Feeding' = Feeding /\ Collecting' = Collecting
  BY <1>1 DEF Feeding, Collecting, Threads
<1>4. \A u \in Collectors : Carried(u)' = Carried(u)
  BY <1>1 DEF Carried, Threads
<1>5. Range(taken)' = Range(taken)
  BY <1>1
<1>6. StampsPast' /\ StampsApart'
  BY <1>1, <1>2, <1>3, <1>5 DEF StampInv, StampsPast, StampsApart
<1>7. Copied'
  BY <1>1 DEF StampInv, Copied, Threads
<1>8. HandedBackOnce' /\ Carrying'
  BY <1>1, <1>3, <1>4, <1>5 DEF StampInv, HandedBackOnce, Carrying, Collecting
<1> QED
  BY <1>6, <1>7, <1>8 DEF StampInv

\* A frame more has been dequeued.
LEMMA TakenOneMore ==
  ASSUME NEW S, NEW q \in Seq(S), NEW f \in S
  PROVE  Range(Append(q, f)) = Range(q) \cup {f}
BY AppendProperties DEF Range

\* CollectTake takes a stamp that no collector carries and none has taken.
LEMMA CollectTakeStamps ==
  ASSUME TypeOK, SlotsDisjoint, StampInv, NEW t \in Collectors, CollectTake(t)
  PROVE  StampInv'
<1> USE RolesAssumption DEF Step
<1> DEFINE h == Head(used_quene)
           f == inputbuffer[h]
<1>1. /\ pc[t] = "idle" /\ pc'[t] = "collect_copy"
      /\ \A u \in Threads \ {t} : pc'[u] = pc[u] /\ slot'[u] = slot[u]
      /\ buf' = buf /\ frames' = frames /\ inputbuffer' = inputbuffer
      /\ slot'[t] = h /\ taken' = Append(taken, f)
      /\ t \in Threads /\ t \notin Feeders
  BY DEF CollectTake, TypeOK, Threads
<1>2. /\ h \in Filled /\ h \in Slots /\ f \in Frame
      /\ Filled' = Filled \ {h}
  <2>1. /\ Range(used_quene') = Range(used_quene) \ {h}
        /\ h \in Range(used_quene) /\ h \in Slots
    BY DequeueHead, QueueRange DEF CollectTake, TypeOK, SlotsDisjoint
  <2> QED
    BY <2>1 DEF CollectTake, Filled, TypeOK, SlotsDisjoint
<1>3. /\ Feeding' = Feeding
      /\ Collecting' = Collecting \cup {t} /\ t \notin Collecting
  BY <1>1 DEF Feeding, Collecting, Threads
<1>4. Carried(t)' = f /\ \A u \in Collecting : Carried(u)' = Carried(u)
  BY <1>1 DEF Carried, Threads, Collecting
<1>5. Range(taken)' = Range(taken) \cup {f}
  <2>1. Range(Append(taken, f)) = Range(taken) \cup {f}
    BY <1>2, TakenOneMore DEF TypeOK
  <2> QED
    BY <1>1, <2>1
<1>6. \A g \in Range(taken) : g.nPts # f.nPts
  BY <1>2 DEF StampInv, StampsApart
<1> HIDE DEF f, h
<1>7. StampsPast'
  <2>1. f.nPts <= frames
    BY <1>2 DEF f, StampInv, StampsPast
  <2> QED
    BY <1>1, <1>3, <1>5, <2>1 DEF StampInv, StampsPast
<1>8. StampsApart'
  <2>1. /\ \A u \in Feeding : buf[u].nPts # f.nPts
        /\ \A s \in Filled \ {h} : inputbuffer[s].nPts # f.nPts
    BY <1>2 DEF f, StampInv, StampsApart
  <2> QED
    BY <1>1, <1>2, <1>3, <1>5, <2>1 DEF StampInv, StampsApart
<1>9. Copied'
  BY <1>1 DEF StampInv, Copied, Threads
<1>10. HandedBackOnce'
  <2>1. /\ Len(taken) \in Nat /\ DOMAIN taken = 1 .. Len(taken)
        /\ DOMAIN taken' = 1 .. Len(taken) + 1
        /\ \A i \in 1 .. Len(taken) : taken'[i] = taken[i]
        /\ taken'[Len(taken) + 1] = f
    BY <1>1, <1>2, AppendProperties, LenProperties DEF TypeOK
  <2>2. \A i \in 1 .. Len(taken) : taken[i].nPts # f.nPts
    BY <1>6, <2>1 DEF Range
  <2> QED
    BY <2>1, <2>2 DEF StampInv, HandedBackOnce
<1>11. Carrying'
  <2>1. \A u \in Collecting : Carried(u) # f
    BY <1>6 DEF StampInv, Carrying
  <2> QED
    BY <1>3, <1>4, <1>5, <2>1 DEF StampInv, Carrying
<1> QED
  BY <1>7, <1>8, <1>9, <1>10, <1>11 DEF StampInv

\* CollectCopy and CollectPut change nothing but the collector's own.
LEMMA CollectRestStamps ==
  ASSUME TypeOK, SlotsDisjoint, StampInv, NEW t \in Collectors,
         CollectCopy(t) \/ CollectPut(t)
  PROVE  StampInv'
<1> USE RolesAssumption DEF Step
<1>1. /\ \A u \in Threads \ {t} : pc'[u] = pc[u] /\ buf'[u] = buf[u]
      /\ slot' = slot /\ frames' = frames /\ inputbuffer' = inputbuffer /\ taken' = taken
      /\ t \in Threads /\ t \notin Feeders
  BY DEF CollectCopy, CollectPut, TypeOK, Threads, history
<1>2. Filled' = Filled
  BY DEF CollectCopy, CollectPut, Filled, queues
<1>3. Feeding' = Feeding /\ Collecting' \subseteq Collecting
  BY <1>1 DEF Feeding, Collecting, Threads, CollectCopy, CollectPut, TypeOK
<1>4. \A u \in Collecting' : Carried(u)' = Carried(u)
  BY <1>1 DEF Carried, Threads, CollectCopy, CollectPut, TypeOK, Collecting
<1>5. Range(taken)' = Range(taken)
  BY <1>1
<1>6. StampsPast' /\ StampsApart'
  <2>1. \A u \in Feeding : buf'[u] = buf[u]
    BY <1>1 DEF Feeding, Threads
  <2> QED
    BY <1>1, <1>2, <1>3, <1>5, <2>1 DEF StampInv, StampsPast, StampsApart
<1>7. Copied'
  BY <1>1 DEF StampInv, Copied, Threads
<1>8. HandedBackOnce' /\ Carrying'
  BY <1>1, <1>3, <1>4, <1>5 DEF StampInv, HandedBackOnce, Carrying
<1> QED
  BY <1>6, <1>7, <1>8 DEF StampInv

\* What is handed back: for any number of threads in every role, several that
\* encode included, GetUsedInputBuffer gives each frame to one caller, once, and
\* as it was when it was dequeued, although it copies with the mutex released.
THEOREM HandBackSafe == Spec => [](HandedBackOnce /\ HandBackIntact)
<1>1. TypeOK /\ SlotsDisjoint /\ StampInv /\ [Next]_vars => StampInv'
  <2> SUFFICES ASSUME TypeOK, SlotsDisjoint, StampInv, [Next]_vars
               PROVE  StampInv'
    OBVIOUS
  <2>1. CASE \E t \in Feeders : FeederStep(t)
    BY <2>1, AddTakeStamps, AddCopyStamps, AddPutStamps DEF FeederStep
  <2>2. CASE \E t \in Encoders : EncoderStep(t)
    BY <2>2, EncoderStamps
  <2>3. CASE \E t \in Collectors : CollectorStep(t)
    BY <2>3, CollectTakeStamps, CollectRestStamps DEF CollectorStep
  <2>4. CASE UNCHANGED vars
    BY <2>4 DEF StampInv, StampsPast, StampsApart, Copied, HandedBackOnce, Carrying, Carried,
                Filled, Feeding, Collecting, vars, queues, history
  <2> QED
    BY <2>1, <2>2, <2>3, <2>4 DEF Next, Finished
<1>2. StampInv => HandedBackOnce /\ HandBackIntact
  <2> SUFFICES ASSUME StampInv PROVE HandBackIntact
    BY DEF StampInv
  <2>1. \A t \in Collectors : pc[t] = "collect_put" => t \in Collecting /\ Carried(t) = buf[t]
    BY DEF Collecting, Carried
  <2> QED
    BY <2>1 DEF StampInv, Carrying, HandBackIntact
<1> QED
  BY InitStamps, SlotOwnership, <1>1, <1>2, PTL DEF Spec

-----------------------------------------------------------------------------
(***************************************************************************)
(* The order of the frames, with one encoding thread: the device sees each *)
(* frame once, and the frame buffer manager implements FramePipeline.      *)
(***************************************************************************)

-----------------------------------------------------------------------------
(* The frames of a queue.                                                  *)

\* What a function on slots has for the slots of a queue, head first.
Stored(f, q) == [i \in 1 .. Len(q) |-> f[q[i]]]

\* It is as long as the queue ...
LEMMA StoredElements ==
  ASSUME NEW f, NEW q, Len(q) \in Nat
  PROVE  /\ Len(Stored(f, q)) = Len(q)
         /\ \A i \in 1 .. Len(q) : Stored(f, q)[i] = f[q[i]]
BY DEF Stored

\* ... and a sequence of what the function takes.
LEMMA StoredType ==
  ASSUME NEW S, NEW T, NEW f, \A x \in S : f[x] \in T, NEW q \in Seq(S)
  PROVE  Stored(f, q) \in Seq(T)
<1>1. Len(q) \in Nat /\ \A i \in 1 .. Len(q) : q[i] \in S
  BY LenProperties, ElementOfSeq
<1>2. \A i \in 1 .. Len(q) : f[q[i]] \in T
  BY <1>1
<1> QED
  BY <1>1, <1>2, IsASeq DEF Stored

\* It depends only on the slots that are in the queue.
LEMMA StoredSame ==
  ASSUME NEW S, NEW f, NEW g, NEW q \in Seq(S), \A s \in Range(q) : f[s] = g[s]
  PROVE  Stored(f, q) = Stored(g, q)
BY QueueRange DEF Stored

\* A slot at the end of the queue puts its frame at the end.
LEMMA StoredAppend ==
  ASSUME NEW S, NEW f, NEW q \in Seq(S), NEW s \in S
  PROVE  Stored(f, Append(q, s)) = Append(Stored(f, q), f[s])
<1> DEFINE T == {f[x] : x \in S}
<1>0. \A x \in S : f[x] \in T
  OBVIOUS
<1> HIDE DEF T
<1> DEFINE r == Append(q, s)
           a == Stored(f, r)
           c == Stored(f, q)
           b == Append(c, f[s])
<1>1. /\ r \in Seq(S) /\ Len(r) = Len(q) + 1 /\ Len(q) \in Nat
      /\ \A i \in 1 .. Len(q) : r[i] = q[i]
      /\ r[Len(q) + 1] = s
  BY AppendProperties, LenProperties
<1> HIDE DEF r
<1>2. a \in Seq(T) /\ c \in Seq(T)
  BY <1>0, <1>1, StoredType, Zenon
<1>3. /\ Len(a) = Len(r) /\ \A i \in 1 .. Len(r) : a[i] = f[r[i]]
      /\ Len(c) = Len(q) /\ \A i \in 1 .. Len(q) : c[i] = f[q[i]]
  BY <1>1, LenProperties, StoredElements
<1> HIDE DEF a, c
<1>4. /\ b \in Seq(T) /\ Len(b) = Len(c) + 1 /\ b[Len(c) + 1] = f[s]
      /\ \A i \in 1 .. Len(c) : b[i] = c[i]
  BY <1>0, <1>2, AppendProperties
<1> HIDE DEF b
<1>5. Len(a) = Len(b) /\ Len(a) = Len(q) + 1 /\ Len(c) = Len(q)
  BY <1>1, <1>3, <1>4
<1>6. ASSUME NEW i \in 1 .. Len(a) PROVE a[i] = b[i]
  <2>1. CASE i = Len(q) + 1
    <3>1. a[i] = f[r[i]] /\ r[i] = s
      BY <1>1, <1>3, <2>1
    <3> QED
      BY <1>4, <1>5, <2>1, <3>1
  <2>2. CASE i # Len(q) + 1
    <3>1. i \in 1 .. Len(q) /\ i \in 1 .. Len(r)
      BY <1>1, <1>5, <2>2
    <3>2. r[i] = q[i] /\ a[i] = f[r[i]] /\ c[i] = f[q[i]] /\ b[i] = c[i]
      BY <1>1, <1>3, <1>4, <1>5, <3>1
    <3> QED
      BY <3>2
  <2> QED
    BY <2>1, <2>2
<1>7. a = b
  BY <1>2, <1>4, <1>5, <1>6, SeqEqual
<1> QED
  BY <1>7 DEF a, b, c, r

\* Taking the head slot takes the head frame.
LEMMA StoredTail ==
  ASSUME NEW S, NEW f, NEW q \in Seq(S), q # <<>>
  PROVE  Stored(f, q) = <<f[Head(q)]>> \o Stored(f, Tail(q))
<1> DEFINE T == {f[x] : x \in S}
<1>0. \A x \in S : f[x] \in T
  OBVIOUS
<1> HIDE DEF T
<1> DEFINE t == Tail(q)
           h == <<f[Head(q)]>>
           r == Stored(f, t)
           a == Stored(f, q)
<1>1. /\ t \in Seq(S) /\ Len(t) = Len(q) - 1 /\ Len(q) \in Nat \ {0}
      /\ \A i \in 1 .. Len(t) : t[i] = q[i + 1]
      /\ Head(q) = q[1] /\ Head(q) \in S
  BY HeadTailProperties, EmptySeq, LenProperties
<1> HIDE DEF t
<1>2. h \in Seq(T) /\ Len(h) = 1 /\ h[1] = f[q[1]]
  BY <1>0, <1>1
<1>3. a \in Seq(T) /\ r \in Seq(T)
  BY <1>0, <1>1, StoredType, Zenon
<1>4. /\ Len(a) = Len(q) /\ \A i \in 1 .. Len(q) : a[i] = f[q[i]]
      /\ Len(r) = Len(t) /\ \A i \in 1 .. Len(t) : r[i] = f[t[i]]
  BY <1>1, LenProperties, StoredElements
<1> HIDE DEF h, r, a
<1> DEFINE b == h \o r
<1>5. /\ b \in Seq(T) /\ Len(b) = Len(h) + Len(r)
      /\ \A i \in 1 .. Len(h) + Len(r) :
           b[i] = IF i <= Len(h) THEN h[i] ELSE r[i - Len(h)]
  BY <1>2, <1>3, ConcatProperties
<1> HIDE DEF b
<1>6. ASSUME NEW i \in 1 .. Len(a) PROVE a[i] = b[i]
  <2>1. CASE i = 1
    BY <1>1, <1>2, <1>3, <1>4, <1>5, <2>1
  <2>2. CASE i # 1
    <3>1. i - 1 \in 1 .. Len(t) /\ i - 1 + 1 = i /\ ~ (i <= Len(h))
      BY <1>1, <1>2, <1>4, <2>2
    <3>2. r[i - 1] = f[t[i - 1]] /\ t[i - 1] = q[i - 1 + 1]
      BY <1>1, <1>4, <3>1
    <3> QED
      BY <1>1, <1>2, <1>3, <1>4, <1>5, <3>1, <3>2
  <2> QED
    BY <2>1, <2>2
<1>7. a = b
  BY <1>1, <1>2, <1>3, <1>4, <1>5, <1>6, SeqEqual
<1> QED
  BY <1>7 DEF a, b, h, r, t

\* Frames is Stored, in this state and the next.
LEMMA FramesStored ==
  /\ Frames(used_quene) = Stored(inputbuffer, used_quene)
  /\ Frames(input_quene) = Stored(inputbuffer, input_quene)
  /\ Frames(used_quene)' = Stored(inputbuffer', used_quene')
  /\ Frames(input_quene)' = Stored(inputbuffer', input_quene')
BY DEF Frames, Stored

-----------------------------------------------------------------------------
(* What the device has seen.                                               *)

\* The frame that has been encoded and not yet been moved to the used queue.
Pending == IF \E t \in Encoders : pc[t] = "add_used"
             THEN <<inputbuffer[Head(input_quene)]>> ELSE <<>>

\* The parts of EncodedExactlyOnce are sequences of frames.
LEMMA PartsType ==
  ASSUME OneEncoder, FrameInv
  PROVE  /\ encoded \in Seq(Frame) /\ taken \in Seq(Frame)
         /\ Stored(inputbuffer, used_quene) \in Seq(Frame)
         /\ Stored(inputbuffer, input_quene) \in Seq(Frame)
         /\ Pending \in Seq(Frame)
<1>1. used_quene \in Seq(Slots) /\ input_quene \in Seq(Slots)
      /\ \A s \in Slots : inputbuffer[s] \in Frame
  BY DEF FrameInv, Owned, TypeOK
<1>2. /\ Stored(inputbuffer, used_quene) \in Seq(Frame)
      /\ Stored(inputbuffer, input_quene) \in Seq(Frame)
  BY <1>1, StoredType, Zenon
<1>3. Pending \in Seq(Frame)
  <2>1. CASE \E t \in Encoders : pc[t] = "add_used"
    <3>1. input_quene # <<>>
      BY <2>1 DEF FrameInv, Fresh, PointerFresh, Working
    <3>2. inputbuffer[Head(input_quene)] \in Frame
      BY <1>1, <3>1, QueueRange
    <3> QED
      BY <2>1, <3>2 DEF Pending
  <2>2. CASE ~ \E t \in Encoders : pc[t] = "add_used"
    BY <2>2 DEF Pending
  <2> QED
    BY <2>1, <2>2
<1> QED
  BY <1>2, <1>3 DEF FrameInv, Owned, TypeOK

\* Feeders append to the input queue and write to slots that are in no queue.
LEMMA FeederOrder ==
  ASSUME OneEncoder, FrameInv, NEW t \in Feeders, FeederStep(t)
  PROVE  /\ UNCHANGED <<encoded, taken, used_quene>>
         /\ Stored(inputbuffer', used_quene') = Stored(inputbuffer, used_quene)
         /\ Pending' = Pending
<1> USE RolesAssumption DEF Threads, Step, FrameInv, Owned, Fresh
<1>1. /\ UNCHANGED <<encoded, taken, used_quene>>
      /\ \A e \in Encoders : pc'[e] = pc[e]
  BY DEF FeederStep, AddTake, AddCopy, AddPut, TypeOK, queues, history
<1>2. \A s \in Range(used_quene) \cup Range(input_quene) : inputbuffer'[s] = inputbuffer[s]
  <2>1. CASE AddCopy(t)
    BY <2>1 DEF AddCopy, TypeOK, SlotsDisjoint, Holders
  <2>2. CASE AddTake(t) \/ AddPut(t)
    BY <2>2 DEF AddTake, AddPut
  <2> QED
    BY <2>1, <2>2 DEF FeederStep
<1>3. Stored(inputbuffer', used_quene') = Stored(inputbuffer, used_quene)
  <2>1. used_quene \in Seq(Slots)
    BY DEF TypeOK
  <2> QED
    BY <1>1, <1>2, <2>1, StoredSame
<1>4. input_quene # <<>> => /\ Head(input_quene') = Head(input_quene)
                            /\ Head(input_quene) \in Range(input_quene)
  <2>1. CASE AddPut(t)
    BY <2>1, EnqueueFresh, QueueRange DEF AddPut, TypeOK, SlotsDisjoint, Holders
  <2>2. CASE AddTake(t) \/ AddCopy(t)
    BY <2>2, QueueRange DEF AddTake, AddCopy, queues, TypeOK
  <2> QED
    BY <2>1, <2>2 DEF FeederStep
<1>5. Pending' = Pending
  <2>1. CASE \E e \in Encoders : pc[e] = "add_used"
    <3>1. input_quene # <<>>
      BY <2>1 DEF PointerFresh, Working
    <3>2. inputbuffer'[Head(input_quene')] = inputbuffer[Head(input_quene)]
      BY <1>2, <1>4, <3>1
    <3> QED
      BY <1>1, <2>1, <3>2 DEF Pending
  <2>2. CASE ~ \E e \in Encoders : pc[e] = "add_used"
    BY <1>1, <2>2 DEF Pending
  <2> QED
    BY <2>1, <2>2
<1> QED
  BY <1>1, <1>3, <1>5

\* The encoder's Encode makes the head of the input queue pending, AddUsed puts
\* the pending frame on the used queue, and its other steps do neither.
LEMMA EncoderOrder ==
  ASSUME OneEncoder, FrameInv, NEW t \in Encoders, EncoderStep(t)
  PROVE  /\ UNCHANGED <<taken, inputbuffer>>
         /\ \/ UNCHANGED <<encoded, queues>> /\ Pending' = Pending
            \/ /\ UNCHANGED queues
               /\ Pending = <<>> /\ encoded' = encoded \o Pending'
            \/ /\ UNCHANGED encoded
               /\ input_quene # <<>> /\ input_quene' = Tail(input_quene)
               /\ used_quene' = Append(used_quene, Head(input_quene))
               /\ Pending = <<inputbuffer[Head(input_quene)]>> /\ Pending' = <<>>
<1> USE RolesAssumption DEF Threads, Step, FrameInv, Owned, Fresh
<1>1. Encoders = {t}
  BY DEF OneEncoder
<1>2. UNCHANGED <<taken, inputbuffer>>
  BY DEF EncoderStep, GetHead, GetCopyID, GetCopyPts, LockEngine, Encode, AddUsed, history
<1>3. CASE GetHead(t) \/ GetCopyID(t) \/ GetCopyPts(t) \/ LockEngine(t)
  <2>1. UNCHANGED <<encoded, queues>> /\ pc[t] # "add_used" /\ pc'[t] # "add_used"
    BY <1>3 DEF GetHead, GetCopyID, GetCopyPts, LockEngine, history, TypeOK
  <2> QED
    BY <1>1, <1>2, <2>1 DEF Pending
<1>4. CASE Encode(t)
  <2>1. /\ pc[t] = "encode" /\ pc'[t] = "add_used" /\ UNCHANGED queues
        /\ encoded' = Append(encoded, curEncInputbuffer)
    BY <1>4 DEF Encode, TypeOK
  <2>2. /\ input_quene # <<>> /\ curEncInputbuffer = inputbuffer[Head(input_quene)]
        /\ curEncInputbuffer \in Frame /\ encoded \in Seq(Frame)
    BY <2>1 DEF PointerFresh, CopyWhole, Working, TypeOK
  <2>3. Pending = <<>> /\ Pending' = <<curEncInputbuffer>>
    BY <1>1, <1>2, <2>1, <2>2 DEF Pending, queues
  <2>4. encoded' = encoded \o Pending'
    BY <2>1, <2>2, <2>3, AppendIsConcat
  <2> QED
    BY <1>2, <2>1, <2>3, <2>4
<1>5. CASE AddUsed(t)
  <2>1. pc[t] = "add_used" /\ pc'[t] = "idle" /\ UNCHANGED encoded
    BY <1>5 DEF AddUsed, TypeOK, history
  <2>2. /\ input_quene # <<>> /\ slot[t] = Head(input_quene)
        /\ curEncInputbuffer.nID = inputbuffer[Head(input_quene)].nID
    BY <2>1 DEF PointerFresh, CopyWhole, Working
  <2>3. /\ Head(input_quene) \in Slots
        /\ Head(input_quene) \notin Range(used_quene)
    BY <2>2, QueueRange DEF TypeOK, SlotsDisjoint
  <2>4. /\ input_quene' = Tail(input_quene)
        /\ used_quene' = Append(used_quene, Head(input_quene))
    BY <1>5, <2>2, <2>3 DEF AddUsed, dequeue, enqueue
  <2>5. Pending = <<inputbuffer[Head(input_quene)]>> /\ Pending' = <<>>
    BY <1>1, <2>1 DEF Pending
  <2> QED
    BY <1>2, <2>1, <2>2, <2>4, <2>5
<1> QED
  BY <1>3, <1>4, <1>5 DEF EncoderStep

\* A collector moves the head of the used queue to what has been handed back.
LEMMA CollectorOrder ==
  ASSUME OneEncoder, FrameInv, NEW t \in Collectors, CollectorStep(t)
  PROVE  /\ UNCHANGED <<encoded, inputbuffer, input_quene>> /\ Pending' = Pending
         /\ \/ UNCHANGED <<taken, used_quene>>
            \/ /\ used_quene # <<>> /\ used_quene' = Tail(used_quene)
               /\ taken' = Append(taken, inputbuffer[Head(used_quene)])
<1> USE RolesAssumption DEF Threads, Step, FrameInv, Owned
<1>1. /\ UNCHANGED <<encoded, inputbuffer, input_quene>>
      /\ \A e \in Encoders : pc'[e] = pc[e]
  BY DEF CollectorStep, CollectTake, CollectCopy, CollectPut, TypeOK, queues, history
<1>2. \/ UNCHANGED <<taken, used_quene>>
      \/ /\ used_quene # <<>> /\ used_quene' = Tail(used_quene)
         /\ taken' = Append(taken, inputbuffer[Head(used_quene)])
  BY DEF CollectorStep, CollectTake, CollectCopy, CollectPut, queues, history, dequeue
<1> QED
  BY <1>1, <1>2 DEF Pending

\* With one encoding thread what was proved about it holds always.
LEMMA FrameInvariant ==
  ASSUME OneEncoder
  PROVE  Spec => []FrameInv
BY SlotOwnership, UnlockedReadSafe, PTL DEF FrameInv, Owned, Fresh

\* EncodedExactlyOnce, with its parts named.
LEMMA ExactlyOnce ==
  /\ EncodedExactlyOnce <=>
       encoded = (taken \o Stored(inputbuffer, used_quene)) \o Pending
  /\ EncodedExactlyOnce' <=>
       encoded' = (taken' \o Stored(inputbuffer', used_quene')) \o Pending'
BY DEF EncodedExactlyOnce, Frames, Stored, Pending

\* Every step moves a frame from one part to the next, or none.
LEMMA OrderStep ==
  ASSUME OneEncoder, FrameInv, EncodedExactlyOnce, [Next]_vars
  PROVE  EncodedExactlyOnce'
<1> DEFINE U == Stored(inputbuffer, used_quene)
           V == Stored(inputbuffer', used_quene')
           P == Pending
           Q == Pending'
<1>1. /\ taken \in Seq(Frame) /\ U \in Seq(Frame) /\ P \in Seq(Frame)
      /\ used_quene \in Seq(Slots) /\ input_quene \in Seq(Slots)
      /\ \A s \in Slots : inputbuffer[s] \in Frame
  BY PartsType DEF FrameInv, Owned, TypeOK
<1>2. encoded = (taken \o U) \o P
  BY ExactlyOnce
<1>3. SUFFICES encoded' = (taken' \o V) \o Q
  BY ExactlyOnce
<1>4. CASE UNCHANGED <<encoded, taken>> /\ V = U /\ Q = P
  BY <1>2, <1>4
<1>5. ASSUME NEW t \in Feeders, FeederStep(t) PROVE encoded' = (taken' \o V) \o Q
  BY <1>4, <1>5, FeederOrder
<1>6. ASSUME NEW t \in Encoders, EncoderStep(t) PROVE encoded' = (taken' \o V) \o Q
  <2>1. UNCHANGED <<taken, inputbuffer>>
    BY <1>6, EncoderOrder
  <2>2. CASE UNCHANGED <<encoded, queues>> /\ Q = P
    BY <1>4, <2>1, <2>2 DEF queues
  <2>3. CASE UNCHANGED queues /\ P = <<>> /\ encoded' = encoded \o Q
    <3>1. V = U /\ taken' = taken
      BY <2>1, <2>3 DEF queues
    <3>2. taken \o U \in Seq(Frame)
      BY <1>1, ConcatProperties
    <3> HIDE DEF U, V, P, Q
    <3>3. (taken \o U) \o P = taken \o U
      BY <2>3, <3>2, ConcatEmptySeq
    <3> QED
      BY <1>2, <2>3, <3>1, <3>3
  <2>4. CASE /\ UNCHANGED encoded
             /\ input_quene # <<>>
             /\ used_quene' = Append(used_quene, Head(input_quene))
             /\ P = <<inputbuffer[Head(input_quene)]>> /\ Q = <<>>
    <3> DEFINE x == inputbuffer[Head(input_quene)]
    <3>1. Head(input_quene) \in Slots /\ x \in Frame
      BY <1>1, <2>4, QueueRange
    <3>2. V = Append(U, x)
      <4>1. Stored(inputbuffer, Append(used_quene, Head(input_quene))) = Append(U, x)
        BY <1>1, <3>1, StoredAppend, Zenon
      <4> QED
        BY <2>1, <2>4, <4>1
    <3> HIDE DEF x, U, V, P, Q
    <3>3. V = U \o P
      BY <1>1, <2>4, <3>1, <3>2, AppendIsConcat DEF x
    <3>4. (taken \o U) \o P = taken \o V
      BY <1>1, <3>3, ConcatAssociative
    <3>5. taken \o V \in Seq(Frame)
      BY <1>1, <3>3, ConcatProperties
    <3>6. (taken \o V) \o Q = taken \o V
      BY <2>4, <3>5, ConcatEmptySeq
    <3> QED
      BY <1>2, <2>1, <2>4, <3>4, <3>6
  <2> QED
    BY <1>6, <2>2, <2>3, <2>4, EncoderOrder
<1>7. ASSUME NEW t \in Collectors, CollectorStep(t) PROVE encoded' = (taken' \o V) \o Q
  <2>1. UNCHANGED <<encoded, inputbuffer>> /\ Q = P
    BY <1>7, CollectorOrder
  <2>2. CASE UNCHANGED <<taken, used_quene>>
    BY <1>4, <2>1, <2>2
  <2>3. CASE /\ used_quene # <<>> /\ used_quene' = Tail(used_quene)
             /\ taken' = Append(taken, inputbuffer[Head(used_quene)])
    <3> DEFINE x == inputbuffer[Head(used_quene)]
    <3>1. Tail(used_quene) \in Seq(Slots) /\ x \in Frame
      BY <1>1, <2>3, QueueRange, HeadTailProperties
    <3>2. U = <<x>> \o V
      BY <1>1, <2>1, <2>3, StoredTail, Zenon
    <3>3. V \in Seq(Frame)
      BY <1>1, <2>1, <2>3, <3>1, StoredType, Zenon
    <3>4. taken' = taken \o <<x>>
      BY <1>1, <2>3, <3>1, AppendIsConcat
    <3> HIDE DEF x, U, V, P, Q
    <3>5. <<x>> \in Seq(Frame)
      BY <3>1
    <3>6. taken \o U = taken' \o V
      <4>1. (taken \o <<x>>) \o V = taken \o (<<x>> \o V)
        BY <1>1, <3>3, <3>5, ConcatAssociative
      <4> QED
        BY <3>2, <3>4, <4>1
    <3> QED
      BY <1>2, <2>1, <3>6
  <2> QED
    BY <1>7, <2>2, <2>3, CollectorOrder
<1>8. CASE UNCHANGED vars
  BY <1>4, <1>8 DEF vars, queues, history, Pending
<1> QED
  BY <1>5, <1>6, <1>7, <1>8 DEF Next, Finished

\* However calls of feeders and collectors fall between the steps of the one
\* encoding thread, the device has seen exactly what has come back, what waits on
\* the used queue, and the frame at hand: each frame once, whole and in order.
THEOREM DeviceSeesEachFrameOnce ==
  ASSUME OneEncoder
  PROVE  Spec => []EncodedExactlyOnce
<1>1. Init => EncodedExactlyOnce
  <2> SUFFICES ASSUME Init PROVE EncodedExactlyOnce
    OBVIOUS
  <2>1. Stored(inputbuffer, used_quene) = <<>> /\ Pending = <<>>
    BY DEF Init, Stored, Pending, Threads
  <2> QED
    BY <2>1, ExactlyOnce DEF Init
<1>2. FrameInv /\ EncodedExactlyOnce /\ [Next]_vars => EncodedExactlyOnce'
  BY OrderStep
<1> QED
  BY <1>1, <1>2, FrameInvariant, PTL DEF Spec

-----------------------------------------------------------------------------
(* The abstract pipeline.                                                  *)

\* Two queues that share no slot leave less than num slots for both when some
\* slot is in neither.
LEMMA RoomForOne ==
  ASSUME NEW q \in Seq(Slots), NEW r \in Seq(Slots), NEW s \in Slots,
         IsInjective(q), IsInjective(r), Range(q) \cap Range(r) = {},
         s \notin Range(q) \cup Range(r)
  PROVE  Len(q) + Len(r) < num
<1> DEFINE m == Len(q)
           n == Len(r)
           f == [i \in 1 .. m + n + 1 |->
                   IF i <= m THEN q[i] ELSE IF i <= m + n THEN r[i - m] ELSE s]
<1>1. /\ m \in Nat /\ n \in Nat
      /\ \A i \in 1 .. m : q[i] \in Slots /\ q[i] \in Range(q)
      /\ \A i \in 1 .. n : r[i] \in Slots /\ r[i] \in Range(r)
  BY LenProperties, ElementOfSeq, QueueRange
<1>2. /\ \A i, j \in 1 .. m : q[i] = q[j] => i = j
      /\ \A i, j \in 1 .. n : r[i] = r[j] => i = j
  BY LenProperties DEF IsInjective
<1> HIDE DEF m, n
<1>3. f \in [1 .. m + n + 1 -> Slots]
  <2>1. ASSUME NEW i \in 1 .. m + n + 1 PROVE f[i] \in Slots
    <3>1. CASE i <= m
      BY <1>1, <3>1
    <3>2. CASE ~ (i <= m) /\ i <= m + n
      <4>1. i - m \in 1 .. n
        BY <1>1, <3>2
      <4> QED
        BY <1>1, <3>2, <4>1
    <3>3. CASE ~ (i <= m + n)
      BY <1>1, <3>3
    <3> QED
      BY <3>1, <3>2, <3>3
  <2> QED
    BY <2>1
<1>4. ASSUME NEW i \in 1 .. m + n + 1, NEW j \in 1 .. m + n + 1, i < j
      PROVE  f[i] # f[j]
  <2>1. CASE j <= m
    BY <1>1, <1>2, <1>4, <2>1
  <2>2. CASE ~ (j <= m) /\ j <= m + n
    <3>1. j - m \in 1 .. n /\ f[j] = r[j - m]
      BY <1>1, <2>2
    <3>2. CASE i <= m
      <4>1. f[i] = q[i] /\ i \in 1 .. m
        BY <1>1, <3>2
      <4> QED
        BY <1>1, <3>1, <4>1
    <3>3. CASE ~ (i <= m)
      <4>1. i - m \in 1 .. n /\ f[i] = r[i - m] /\ i - m # j - m
        BY <1>1, <1>4, <2>2, <3>3
      <4> QED
        BY <1>2, <3>1, <4>1
    <3> QED
      BY <3>2, <3>3
  <2>3. CASE ~ (j <= m + n)
    <3>1. f[j] = s
      BY <1>1, <2>3
    <3>2. CASE i <= m
      <4>1. f[i] = q[i] /\ i \in 1 .. m
        BY <1>1, <3>2
      <4> QED
        BY <1>1, <3>1, <4>1
    <3>3. CASE ~ (i <= m)
      <4>1. i - m \in 1 .. n /\ f[i] = r[i - m]
        BY <1>1, <1>4, <2>3, <3>3
      <4> QED
        BY <1>1, <3>1, <4>1
    <3> QED
      BY <3>2, <3>3
  <2> QED
    BY <1>1, <2>1, <2>2, <2>3
<1> HIDE DEF f
<1>5. \A i, j \in 1 .. m + n + 1 : i # j => f[i] # f[j]
  BY <1>1, <1>4
<1>6. /\ IsFiniteSet(Slots) /\ Cardinality(Slots) = num
      /\ IsFiniteSet(1 .. m + n + 1) /\ Cardinality(1 .. m + n + 1) = m + n + 1
  <2>1. num \in Int /\ 1 \in Int /\ ~ (1 > num) /\ num - 1 + 1 = num
    BY SizeAssumption
  <2>2. m + n + 1 \in Int /\ ~ (1 > m + n + 1) /\ m + n + 1 - 1 + 1 = m + n + 1
    BY <1>1
  <2> QED
    BY <2>1, <2>2, FS_Interval DEF Slots
<1>7. ~ (Cardinality(Slots) < Cardinality(1 .. m + n + 1))
  <2> SUFFICES ASSUME Cardinality(Slots) < Cardinality(1 .. m + n + 1) PROVE FALSE
    OBVIOUS
  <2> DEFINE D == 1 .. m + n + 1
  <2>1. /\ IsFiniteSet(Slots) /\ IsFiniteSet(D) /\ f \in [D -> Slots]
        /\ Cardinality(Slots) < Cardinality(D)
    BY <1>3, <1>6
  <2> HIDE DEF D
  <2>2. \E i, j \in D : i # j /\ f[i] = f[j]
    BY <2>1, FS_PigeonHole
  <2> QED
    BY <1>5, <2>2 DEF D
<1>8. m + n < num
  BY <1>1, <1>6, <1>7, SizeAssumption
<1> QED
  BY <1>8 DEF m, n

\* Between two critical sections of AddInputBuffer the frames on the input
\* queue stay; the second one appends a frame, and there is room for it.
LEMMA FeederSubmits ==
  ASSUME FrameInv, NEW t \in Feeders, FeederStep(t)
  PROVE  \/ Stored(inputbuffer', input_quene') = Stored(inputbuffer, input_quene)
         \/ /\ Len(used_quene) + Len(input_quene) < num
            /\ \E x \in Frame : Stored(inputbuffer', input_quene')
                                  = Append(Stored(inputbuffer, input_quene), x)
<1> USE RolesAssumption DEF Threads, Step, FrameInv, Owned
<1>1. input_quene \in Seq(Slots) /\ used_quene \in Seq(Slots)
  BY DEF TypeOK
<1>2. CASE AddTake(t)
  BY <1>2 DEF AddTake
<1>3. CASE AddCopy(t)
  <2>1. input_quene' = input_quene
        /\ \A s \in Range(input_quene) : inputbuffer'[s] = inputbuffer[s]
    BY <1>3 DEF AddCopy, TypeOK, SlotsDisjoint, Holders, queues
  <2> QED
    BY <1>1, <2>1, StoredSame
<1>4. CASE AddPut(t)
  <2> DEFINE s == slot[t]
  <2>1. s \in Slots /\ s \notin Range(used_quene) \cup Range(input_quene)
    BY <1>4 DEF AddPut, TypeOK, SlotsDisjoint, Holders
  <2>2. inputbuffer' = inputbuffer /\ input_quene' = Append(input_quene, s)
    BY <1>4, <2>1 DEF AddPut, enqueue
  <2>3. inputbuffer[s] \in Frame
    BY <2>1 DEF TypeOK
  <2> HIDE DEF s
  <2>4. Len(used_quene) + Len(input_quene) < num
    BY <1>1, <2>1, RoomForOne DEF SlotsDisjoint
  <2>5. Stored(inputbuffer, Append(input_quene, s))
          = Append(Stored(inputbuffer, input_quene), inputbuffer[s])
    BY <1>1, <2>1, StoredAppend, Zenon
  <2> QED
    BY <2>2, <2>3, <2>4, <2>5
<1> QED
  BY <1>2, <1>3, <1>4 DEF FeederStep

\* The refinement mapping, with its parts named.
LEMMA Mapping ==
  LET W == (taken \o Stored(inputbuffer, used_quene)) \o Stored(inputbuffer, input_quene)
  IN  /\ Pipeline!Next <=>
           \/ \E x \in Frame :
                /\ Len(W) - Len(taken) < num /\ W' = Append(W, x)
                /\ (Len(taken) + Len(used_quene))' = Len(taken) + Len(used_quene)
                /\ Len(taken)' = Len(taken)
           \/ /\ Len(taken) + Len(used_quene) < Len(W)
              /\ (Len(taken) + Len(used_quene))' = Len(taken) + Len(used_quene) + 1
              /\ W' = W /\ Len(taken)' = Len(taken)
           \/ /\ Len(taken) < Len(taken) + Len(used_quene)
              /\ Len(taken)' = Len(taken) + 1
              /\ W' = W
              /\ (Len(taken) + Len(used_quene))' = Len(taken) + Len(used_quene)
      /\ UNCHANGED Pipeline!vars <=>
           /\ W' = W /\ Len(taken)' = Len(taken)
           /\ (Len(taken) + Len(used_quene))' = Len(taken) + Len(used_quene)
BY FramesStored DEF Pipeline!Next, Pipeline!vars, Pipeline!Submit, Pipeline!Finish, Pipeline!HandBack

\* Appending to the last of three sequences of frames appends to the whole ...
LEMMA AppendToWhole ==
  ASSUME NEW a \in Seq(Frame), NEW b \in Seq(Frame), NEW c \in Seq(Frame), NEW x \in Frame
  PROVE  (a \o b) \o Append(c, x) = Append((a \o b) \o c, x)
<1> DEFINE e == <<x>>
<1>1. e \in Seq(Frame) /\ Append(c, x) = c \o e
  BY AppendIsConcat
<1>2. a \o b \in Seq(Frame) /\ (a \o b) \o c \in Seq(Frame)
  BY ConcatProperties
<1>3. Append((a \o b) \o c, x) = ((a \o b) \o c) \o e
  BY <1>2, AppendIsConcat
<1> HIDE DEF e
<1>4. ((a \o b) \o c) \o e = (a \o b) \o (c \o e)
  BY <1>1, <1>2, ConcatAssociative
<1> QED
  BY <1>1, <1>3, <1>4

\* ... and a frame that goes from the front of one to the end of the one before
\* leaves the whole as it is.
LEMMA MoveFrame ==
  ASSUME NEW a \in Seq(Frame), NEW b \in Seq(Frame), NEW x \in Frame
  PROVE  Append(a, x) \o b = a \o (<<x>> \o b)
<1> DEFINE e == <<x>>
<1>1. e \in Seq(Frame) /\ Append(a, x) = a \o e
  BY AppendIsConcat
<1> HIDE DEF e
<1>2. (a \o e) \o b = a \o (e \o b)
  BY <1>1, ConcatAssociative
<1> QED
  BY <1>1, <1>2 DEF e

\* A step of the frame buffer manager is one of the pipeline, or none.
LEMMA PipelineStep ==
  ASSUME OneEncoder, FrameInv, [Next]_vars
  PROVE  [Pipeline!Next]_(Pipeline!vars)
<1> DEFINE U == Stored(inputbuffer, used_quene)
           I == Stored(inputbuffer, input_quene)
           W == (taken \o U) \o I
           stutter == /\ W' = W /\ Len(taken)' = Len(taken)
                      /\ (Len(taken) + Len(used_quene))' = Len(taken) + Len(used_quene)
<1>1. /\ taken \in Seq(Frame) /\ U \in Seq(Frame) /\ I \in Seq(Frame)
      /\ used_quene \in Seq(Slots) /\ input_quene \in Seq(Slots)
      /\ \A s \in Slots : inputbuffer[s] \in Frame
  BY PartsType DEF FrameInv, Owned, TypeOK
<1>2. /\ Len(U) = Len(used_quene) /\ Len(I) = Len(input_quene)
      /\ Len(used_quene) \in Nat /\ Len(input_quene) \in Nat /\ Len(taken) \in Nat
  BY <1>1, StoredElements, LenProperties
<1>3. Len(W) = Len(taken) + Len(used_quene) + Len(input_quene)
  <2> HIDE DEF U, I
  <2>1. taken \o U \in Seq(Frame) /\ Len(taken \o U) = Len(taken) + Len(U)
    BY <1>1, ConcatProperties
  <2>2. Len((taken \o U) \o I) = Len(taken \o U) + Len(I)
    BY <1>1, <2>1, ConcatProperties
  <2> QED
    BY <1>2, <2>1, <2>2
<1>4. ASSUME stutter PROVE [Pipeline!Next]_(Pipeline!vars)
  BY <1>4, Mapping
<1>5. ASSUME NEW t \in Feeders, FeederStep(t) PROVE [Pipeline!Next]_(Pipeline!vars)
  <2>1. UNCHANGED <<taken, used_quene>> /\ U' = U
    BY <1>5, FeederOrder
  <2>2. CASE I' = I
    BY <1>4, <2>1, <2>2
  <2>3. CASE /\ Len(used_quene) + Len(input_quene) < num
             /\ \E x \in Frame : I' = Append(I, x)
    <3>1. PICK x \in Frame : I' = Append(I, x)
      BY <2>3
    <3>2. W' = Append(W, x)
      <4> HIDE DEF U, I
      <4>1. (taken \o U) \o Append(I, x) = Append((taken \o U) \o I, x)
        BY <1>1, AppendToWhole
      <4> QED
        BY <2>1, <3>1, <4>1
    <3>3. Len(W) - Len(taken) < num
      BY <1>2, <1>3, <2>3, SizeAssumption
    <3> QED
      BY <2>1, <3>2, <3>3, Mapping
  <2> QED
    BY <1>5, <2>2, <2>3, FeederSubmits
<1>6. ASSUME NEW t \in Encoders, EncoderStep(t) PROVE [Pipeline!Next]_(Pipeline!vars)
  <2>1. UNCHANGED <<taken, inputbuffer>>
    BY <1>6, EncoderOrder
  <2>2. CASE UNCHANGED queues
    BY <1>4, <2>1, <2>2 DEF queues
  <2>3. CASE /\ input_quene # <<>> /\ input_quene' = Tail(input_quene)
             /\ used_quene' = Append(used_quene, Head(input_quene))
    <3> DEFINE x == inputbuffer[Head(input_quene)]
               J == Stored(inputbuffer, Tail(input_quene))
    <3>1. /\ Head(input_quene) \in Slots /\ x \in Frame
          /\ Tail(input_quene) \in Seq(Slots) /\ Len(input_quene) > 0
          /\ Len(used_quene') = Len(used_quene) + 1
      BY <1>1, <2>3, QueueRange, HeadTailProperties, EmptySeq, LenProperties, AppendProperties
    <3>2. I = <<x>> \o J
      BY <1>1, <2>3, StoredTail, Zenon
    <3>3. J \in Seq(Frame)
      BY <1>1, <3>1, StoredType, Zenon
    <3>4. Stored(inputbuffer, Append(used_quene, Head(input_quene))) = Append(U, x)
      BY <1>1, <3>1, StoredAppend, Zenon
    <3>5. W' = (taken \o Append(U, x)) \o J
      BY <2>1, <2>3, <3>4
    <3>6. W' = W
      <4> HIDE DEF x, U, I, J
      <4> DEFINE y == Append(U, x)
      <4>1. y \in Seq(Frame)
        BY <1>1, <3>1, AppendProperties
      <4>2. y \o J = U \o I
        BY <1>1, <3>1, <3>2, <3>3, MoveFrame
      <4> HIDE DEF y
      <4>3. (taken \o y) \o J = taken \o (y \o J)
        <5>1. taken \in Seq(Frame) /\ J \in Seq(Frame)
          BY <1>1, <3>3
        <5> QED
          BY <4>1, <5>1, ConcatAssociative
      <4>4. (taken \o U) \o I = taken \o (U \o I)
        BY <1>1, ConcatAssociative
      <4> QED
        BY <3>5, <4>2, <4>3, <4>4 DEF y
    <3>7. Len(taken) + Len(used_quene) < Len(W)
      BY <1>2, <1>3, <3>1
    <3>8. /\ Len(taken)' = Len(taken)
          /\ (Len(taken) + Len(used_quene))' = Len(taken) + Len(used_quene) + 1
      BY <1>2, <2>1, <3>1
    <3> QED
      BY <3>6, <3>7, <3>8, Mapping
  <2> QED
    BY <1>6, <2>2, <2>3, EncoderOrder
<1>7. ASSUME NEW t \in Collectors, CollectorStep(t) PROVE [Pipeline!Next]_(Pipeline!vars)
  <2>1. UNCHANGED <<inputbuffer, input_quene>>
    BY <1>7, CollectorOrder
  <2>2. CASE UNCHANGED <<taken, used_quene>>
    BY <1>4, <2>1, <2>2
  <2>3. CASE /\ used_quene # <<>> /\ used_quene' = Tail(used_quene)
             /\ taken' = Append(taken, inputbuffer[Head(used_quene)])
    <3> DEFINE x == inputbuffer[Head(used_quene)]
               V == Stored(inputbuffer, Tail(used_quene))
    <3>1. /\ Tail(used_quene) \in Seq(Slots) /\ x \in Frame
          /\ Len(used_quene) > 0 /\ Len(used_quene') = Len(used_quene) - 1
          /\ Len(taken') = Len(taken) + 1
      BY <1>1, <2>3, QueueRange, HeadTailProperties, EmptySeq, LenProperties, AppendProperties
    <3>2. U = <<x>> \o V
      BY <1>1, <2>3, StoredTail, Zenon
    <3>3. V \in Seq(Frame)
      BY <1>1, <3>1, StoredType, Zenon
    <3>4. W' = (Append(taken, x) \o V) \o I
      BY <2>1, <2>3
    <3>5. W' = W
      <4> HIDE DEF x, U, I, V
      <4>1. Append(taken, x) \o V = taken \o U
        BY <1>1, <3>1, <3>2, <3>3, MoveFrame
      <4> QED
        BY <3>4, <4>1
    <3>6. /\ Len(taken) < Len(taken) + Len(used_quene)
          /\ Len(taken)' = Len(taken) + 1
          /\ (Len(taken) + Len(used_quene))' = Len(taken) + Len(used_quene)
      BY <1>2, <3>1
    <3> QED
      BY <3>5, <3>6, Mapping
  <2> QED
    BY <1>7, <2>2, <2>3, CollectorOrder
<1>8. CASE UNCHANGED vars
  BY <1>4, <1>8 DEF vars, queues, history
<1> QED
  BY <1>5, <1>6, <1>7, <1>8 DEF Next, Finished

\* With one encoding thread the frame buffer manager implements FramePipeline:
\* frames leave in the order in which AddInputBuffer queued them, encoded before
\* they are handed back, and never more than num are inside.
THEOREM ImplementsPipeline ==
  ASSUME OneEncoder
  PROVE  Spec => PipelineSpec
<1>1. Init => Pipeline!Init
  BY DEF Init, Pipeline!Init, Frames
<1>2. FrameInv /\ [Next]_vars => [Pipeline!Next]_(Pipeline!vars)
  BY PipelineStep
<1> QED
  BY <1>1, <1>2, FrameInvariant, PTL DEF Spec, PipelineSpec, Pipeline!Spec


-----------------------------------------------------------------------------
(* The queues on pointers: InfoList's head and next fields implement the   *)
(* sequences of InfoQueue, for any array of nodes.                         *)

CONSTANTS Node, NULL
VARIABLES head, next

List == INSTANCE InfoList

\* Cardinality as the instance has it.
LEMMA SameCardinality == ASSUME NEW S PROVE List!Cardinality(S) = Cardinality(S)
BY Zenon DEF List!Cardinality, Cardinality

LEMMA IntervalSize == ASSUME NEW n \in Nat PROVE Cardinality(1 .. n) = n
<1>1. 1 \in Int /\ n \in Int
  OBVIOUS
<1>2. Cardinality(1 .. n) = IF 1 > n THEN 0 ELSE n - 1 + 1
  BY <1>1, FS_Interval, Zenon
<1> QED
  BY <1>2

\* A set of natural numbers has a smallest one.
LEMMA Smallest ==
  ASSUME NEW T, T \subseteq Nat, T # {}
  PROVE  \E x \in T : \A y \in T : x <= y
<1>1. PICK x \in T : \A y \in T : ~ (<<y, x>> \in OpToRel(<, Nat))
  BY NatLessThanWellFounded, WFMin, Zenon
<1>2. \A y \in T : ~ (y < x)
  BY <1>1, Zenon DEF OpToRel
<1> QED
  BY <1>2

\* The pointers h and n hold the nodes of q, each once, and end behind them.
Holds(h, n, q) ==
  /\ q \in Seq(Node) /\ IsInjective(q)
  /\ q = <<>> => h = NULL
  /\ q # <<>> => h = q[1] /\ n[q[Len(q)]] = NULL
  /\ \A k \in 1 .. Len(q) - 1 : n[q[k]] = q[k + 1]

\* The nodes are finitely many, as calloc makes them.
Calloced == NULL \notin Node /\ IsFiniteSet(Node)

\* Whatever the calls were, the pointers hold some queue.  A node cut off keeps
\* its own next field, which no walk from head reaches.
PointersInv ==
  /\ next \in [Node -> Node \cup {NULL}]
  /\ \E q \in Seq(Node) : Holds(head, next, q)

\* What a queue's elements are.
LEMMA HeldTypes ==
  ASSUME NEW h, NEW n, NEW q, Holds(h, n, q)
  PROVE  /\ Len(q) \in Nat /\ DOMAIN q = 1 .. Len(q)
         /\ \A k \in 1 .. Len(q) : q[k] \in Node
         /\ q = <<>> <=> Len(q) = 0
         /\ \A j, k \in 1 .. Len(q) : q[j] = q[k] => j = k
BY LenProperties, ElementOfSeq, EmptySeq DEF Holds, IsInjective

\* A walk along next meets the nodes of the queue in order, and then NULL.
LEMMA WalkMeets ==
  ASSUME Calloced, NEW q, Holds(head, next, q), NEW i \in Nat \ {0}
  PROVE  List!At(i) = IF i <= Len(q) THEN q[i] ELSE NULL
<1> DEFINE F(f, k) == IF k = 1 THEN head
                      ELSE IF f[k - 1] = NULL THEN NULL ELSE next[f[k - 1]]
           seen == [k \in 1 .. i |-> IF k <= Len(q) THEN q[k] ELSE NULL]
           walk == CHOOSE f : f = [k \in 1 .. i |-> F(f, k)]
<1>0. List!At(i) = walk[i]
  BY Zenon DEF List!At
<1>1. \A k \in 1 .. i : seen[k] = IF k <= Len(q) THEN q[k] ELSE NULL
  OBVIOUS
<1>t. /\ Len(q) \in Nat /\ \A k \in 1 .. Len(q) : q[k] \in Node /\ q[k] # NULL
      /\ q = <<>> <=> Len(q) = 0
  BY HeldTypes DEF Calloced
<1>s. seen = [k \in 1 .. i |-> seen[k]]
  OBVIOUS
<1> HIDE DEF seen
<1>2. ASSUME NEW k \in 1 .. i PROVE seen[k] = F(seen, k)
  <2>1. CASE k = 1
    BY <1>1, <1>t, <2>1 DEF Holds
  <2>2. CASE k # 1
    <3>1. k - 1 \in 1 .. i /\ k - 1 \in Nat \ {0} /\ k \in Nat
      BY <2>2
    <3>2. CASE k <= Len(q)
      <4>1. /\ k - 1 \in 1 .. Len(q) - 1 /\ k - 1 \in 1 .. Len(q)
            /\ k - 1 <= Len(q) /\ (k - 1) + 1 = k
        BY <1>t, <3>1, <3>2
      <4>2. next[q[k - 1]] = q[k]
        BY <4>1 DEF Holds
      <4>3. seen[k - 1] = q[k - 1] /\ q[k - 1] # NULL /\ seen[k] = q[k]
        BY <1>1, <1>t, <3>1, <3>2, <4>1
      <4> QED
        BY <2>2, <4>2, <4>3
    <3>3. CASE k = Len(q) + 1
      <4>1. k - 1 = Len(q) /\ Len(q) \in 1 .. Len(q) /\ q # <<>>
        BY <1>t, <3>1, <3>3
      <4>2. next[q[Len(q)]] = NULL
        BY <4>1 DEF Holds
      <4>3. seen[k - 1] = q[Len(q)] /\ q[Len(q)] # NULL /\ seen[k] = NULL
        BY <1>1, <1>t, <3>1, <3>3, <4>1
      <4> QED
        BY <2>2, <4>1, <4>2, <4>3
    <3>4. CASE k > Len(q) + 1
      <4>1. seen[k - 1] = NULL /\ seen[k] = NULL
        BY <1>1, <1>t, <3>1, <3>4
      <4> QED
        BY <2>2, <4>1
    <3> QED
      BY <1>t, <3>1, <3>2, <3>3, <3>4
  <2> QED
    BY <2>1, <2>2
<1>3. seen = [k \in 1 .. i |-> F(seen, k)]
  BY <1>2, <1>s, Zenon
<1>4. walk = [k \in 1 .. i |-> F(walk, k)]
  <2>1. \E f : f = [k \in 1 .. i |-> F(f, k)]
    BY <1>3, Zenon
  <2> HIDE DEF F
  <2> QED
    BY <2>1, Zenon
<1> HIDE DEF walk
<1>5. \A k \in 1 .. i : walk[k] = F(walk, k)
  <2> HIDE DEF F
  <2> QED
    BY <1>4, Zenon
<1>6. \A k \in 1 .. i : walk[k] = seen[k]
  <2> DEFINE T == {k \in 1 .. i : walk[k] # seen[k]}
  <2>1. SUFFICES ASSUME T # {} PROVE FALSE
    OBVIOUS
  <2>0. T \subseteq Nat
    OBVIOUS
  <2>2. PICK x \in T : \A y \in T : x <= y
    <3> HIDE DEF T
    <3> QED
      BY <2>0, <2>1, Smallest, Zenon
  <2>3. CASE x = 1
    BY <1>2, <1>5, <2>2, <2>3
  <2>4. CASE x # 1
    <3>1. x - 1 \in 1 .. i /\ x \in 1 .. i /\ ~ (x <= x - 1)
      BY <2>2, <2>4
    <3>2. walk[x - 1] = seen[x - 1]
      BY <2>2, <3>1
    <3>3. walk[x] = F(walk, x) /\ seen[x] = F(seen, x)
      BY <1>2, <1>5, <3>1, Zenon
    <3>4. walk[x] # seen[x]
      BY <2>2
    <3> QED
      BY <3>2, <3>3, <3>4
  <2> QED
    BY <2>3, <2>4
<1> QED
  BY <1>0, <1>1, <1>6

\* A queue has no more elements than there are nodes.
LEMMA HeldFits ==
  ASSUME Calloced, NEW h, NEW n, NEW q, Holds(h, n, q)
  PROVE  Cardinality(Node) \in Nat /\ Len(q) <= Cardinality(Node)
<1>1. Cardinality(Node) \in Nat
  BY FS_CardinalityType DEF Calloced
<1>2. q \in [1 .. Len(q) -> Node] /\ Len(q) \in Nat
  BY HeldTypes, LenProperties DEF Holds
<1>3. q \in Injection(1 .. Len(q), Node)
  BY <1>2, HeldTypes DEF Injection, IsInjective, Holds
<1>4. Cardinality(1 .. Len(q)) <= Cardinality(Node)
  <2>1. IsFiniteSet(Node)
    BY DEF Calloced
  <2> QED
    BY <1>3, <2>1, FS_Injection, Zenon
<1>5. Cardinality(1 .. Len(q)) = Len(q)
  BY <1>2, IntervalSize, Zenon
<1> QED
  BY <1>1, <1>4, <1>5

\* The sequence that InfoList reads from the pointers is the queue they hold.
LEMMA QueuedIs ==
  ASSUME Calloced, NEW q, Holds(head, next, q)
  PROVE  List!queued = q
<1>1. /\ Cardinality(Node) \in Nat /\ Len(q) \in Nat /\ Len(q) <= Cardinality(Node)
      /\ \A k \in 1 .. Len(q) : q[k] # NULL
  BY HeldTypes, HeldFits DEF Calloced
<1>2. \A i \in 1 .. Cardinality(Node) :
        List!At(i) = IF i <= Len(q) THEN q[i] ELSE NULL
  BY <1>1, WalkMeets
<1>3. {i \in 1 .. Cardinality(Node) : List!At(i) # NULL} = 1 .. Len(q)
  BY <1>1, <1>2
<1>4. List!Length = Len(q)
  <2>1. Cardinality(1 .. Len(q)) = Len(q)
    BY <1>1, IntervalSize, Zenon
  <2> QED
    BY <1>3, <2>1, SameCardinality, Zenon DEF List!Length
<1>5. \A i \in 1 .. Len(q) : List!At(i) = q[i]
  BY <1>1, <1>2
<1>6. q = [i \in 1 .. Len(q) |-> q[i]]
  BY LenProperties DEF Holds
<1> QED
  BY <1>4, <1>5, <1>6, Zenon DEF List!queued

\* The same, of the state before and after a step.
QueuedTrue == \A q : Holds(head, next, q) => List!queued = q

LEMMA QueuedAlways == Calloced => QueuedTrue
BY QueuedIs DEF QueuedTrue

\* The while loop of enqueue stops at the last node.
LEMMA LastIs ==
  ASSUME Calloced, NEW q, Holds(head, next, q), q # <<>>
  PROVE  List!Last = q[Len(q)]
<1>1. /\ Cardinality(Node) \in Nat /\ Len(q) \in Nat \ {0}
      /\ Len(q) <= Cardinality(Node)
      /\ \A k \in 1 .. Len(q) : q[k] \in Node /\ q[k] # NULL
  BY HeldTypes, HeldFits DEF Calloced
<1>2. \A i \in 1 .. Cardinality(Node) :
        List!At(i) = IF i <= Len(q) THEN q[i] ELSE NULL
  BY <1>1, WalkMeets
<1>3. /\ q[Len(q)] \in Node /\ next[q[Len(q)]] = NULL
      /\ \E i \in 1 .. Cardinality(Node) : List!At(i) = q[Len(q)]
  BY <1>1, <1>2 DEF Holds
<1>4. ASSUME NEW p \in Node, next[p] = NULL,
             NEW i \in 1 .. Cardinality(Node), List!At(i) = p
      PROVE  p = q[Len(q)]
  <2>1. i <= Len(q) /\ p = q[i]
    BY <1>1, <1>2, <1>4 DEF Calloced
  <2>2. ASSUME i # Len(q) PROVE FALSE
    <3>1. i \in 1 .. Len(q) - 1 /\ i + 1 \in 1 .. Len(q)
      BY <1>1, <2>1, <2>2
    <3>2. next[q[i]] = q[i + 1]
      BY <3>1 DEF Holds
    <3> QED
      BY <1>1, <1>4, <2>1, <3>1, <3>2
  <2> QED
    BY <2>1, <2>2
<1> DEFINE IsLast(p) == next[p] = NULL /\ \E i \in 1 .. Cardinality(Node) : List!At(i) = p
<1>5. IsLast(q[Len(q)])
  BY <1>3
<1>6. \A p \in Node : IsLast(p) => p = q[Len(q)]
  BY <1>4
<1>7. List!Last = CHOOSE p \in Node : IsLast(p)
  BY SameCardinality, Zenon DEF List!Last
<1> HIDE DEF IsLast
<1> QED
  BY <1>3, <1>5, <1>6, <1>7, Zenon

\* A node that is not queued becomes the last one; behind one that is queued
\* the queue is cut off.
LEMMA EnqueueHeld ==
  ASSUME Calloced, next \in [Node -> Node \cup {NULL}],
         NEW q, Holds(head, next, q), NEW p \in Node, List!enqueue(p)
  PROVE  Holds(head', next', enqueue(q, p)) /\ next' \in [Node -> Node \cup {NULL}]
<1>t. /\ Len(q) \in Nat /\ \A k \in 1 .. Len(q) : q[k] \in Node /\ q[k] # NULL
      /\ q = <<>> <=> Len(q) = 0
      /\ \A j, k \in 1 .. Len(q) : q[j] = q[k] => j = k
      /\ q \in Seq(Node)
      /\ Range(q) = {q[k] : k \in 1 .. Len(q)}
  <2>1. q \in Seq(Node)
    BY DEF Holds
  <2>2. Range(q) = {q[k] : k \in 1 .. Len(q)}
    BY <2>1, QueueRange, Zenon
  <2> QED
    BY <2>1, <2>2, HeldTypes DEF Calloced
<1>1. CASE q = <<>>
  <2>1. head' = p /\ next' = [next EXCEPT ![p] = NULL]
    BY <1>1 DEF List!enqueue, Holds
  <2>2. enqueue(q, p) = <<p>>
    BY <1>1, <1>t, EmptySeq DEF enqueue
  <2>3. next'[p] = NULL /\ next' \in [Node -> Node \cup {NULL}]
    BY <2>1
  <2> QED
    BY <2>1, <2>2, <2>3 DEF Holds, IsInjective
<1>2. CASE q # <<>>
  <2> DEFINE l == q[Len(q)]
             r == enqueue(q, p)
  <2>1. Len(q) \in 1 .. Len(q) /\ l \in Node /\ head # NULL /\ head = q[1]
    BY <1>2, <1>t DEF Holds, Calloced
  <2>2. head' = head /\ next' = [next EXCEPT ![l] = p, ![p] = NULL]
    BY <1>2, <2>1, LastIs DEF List!enqueue
  <2>3. /\ next' \in [Node -> Node \cup {NULL}]
        /\ next'[p] = NULL /\ (l # p => next'[l] = p)
        /\ \A x \in Node \ {l, p} : next'[x] = next[x]
    BY <2>1, <2>2
  <2>h. \A k \in 1 .. Len(q) - 1 : next[q[k]] = q[k + 1]
    BY DEF Holds
  <2> HIDE DEF l
  <2>4. CASE p \notin Range(q)
    <3>1. r = Append(q, p) /\ r \in Seq(Node) /\ IsInjective(r)
      BY <2>4, EnqueueFresh DEF Holds
    <3>2. /\ Len(r) = Len(q) + 1 /\ r[Len(q) + 1] = p
          /\ \A k \in 1 .. Len(q) : r[k] = q[k]
      BY <1>t, <3>1, AppendProperties
    <3> HIDE DEF r
    <3>3. r # <<>> /\ r[1] = head' /\ next'[r[Len(r)]] = NULL
      BY <1>t, <2>1, <2>2, <2>3, <3>2, EmptySeq
    <3>4. ASSUME NEW k \in 1 .. Len(r) - 1 PROVE next'[r[k]] = r[k + 1]
      <4>1. k \in 1 .. Len(q) /\ r[k] = q[k] /\ q[k] # p
        BY <1>t, <2>4, <3>2
      <4>2. CASE k = Len(q)
        BY <2>3, <3>2, <4>1, <4>2 DEF l
      <4>3. CASE k # Len(q)
        <5>1. k \in 1 .. Len(q) - 1 /\ k + 1 \in 1 .. Len(q)
          BY <1>t, <4>1, <4>3
        <5>2. q[k] # l /\ q[k] \in Node
          BY <1>t, <2>1, <4>1, <4>3 DEF l
        <5> QED
          BY <2>3, <2>h, <3>2, <4>1, <5>1, <5>2
      <4> QED
        BY <4>2, <4>3
    <3> QED
      BY <2>3, <3>1, <3>3, <3>4, Zenon DEF Holds, r
  <2>5. CASE p \in Range(q)
    <3> DEFINE j == PlaceOf(q, p)
    <3>1. j \in 1 .. Len(q) /\ q[j] = p
      BY <1>t, <2>5, LenProperties DEF PlaceOf
    <3>2. r = SubSeq(q, 1, j)
      BY <2>5 DEF enqueue
    <3> HIDE DEF j
    <3>3. /\ r \in Seq(Node) /\ Len(r) = j /\ \A k \in 1 .. j : r[k] = q[k]
      BY <1>t, <3>1, <3>2, SubSeqProperties
    <3> HIDE DEF r
    <3>4. IsInjective(r)
      BY <1>t, <3>1, <3>3, LenProperties DEF IsInjective
    <3>5. r # <<>> /\ r[1] = head' /\ next'[r[Len(r)]] = NULL
      BY <1>t, <2>1, <2>2, <2>3, <3>1, <3>3, EmptySeq
    <3>6. ASSUME NEW k \in 1 .. Len(r) - 1 PROVE next'[r[k]] = r[k + 1]
      <4>1. /\ k \in 1 .. Len(q) - 1 /\ k \in 1 .. Len(q) /\ k # Len(q) /\ k # j
            /\ k \in 1 .. j /\ k + 1 \in 1 .. j
        BY <1>t, <3>1, <3>3
      <4>2. q[k] # l /\ q[k] # p /\ q[k] \in Node
        BY <1>t, <2>1, <3>1, <4>1 DEF l
      <4> QED
        BY <2>3, <2>h, <3>3, <4>1, <4>2
    <3> QED
      BY <2>3, <3>3, <3>4, <3>5, <3>6, Zenon DEF Holds, r
  <2> QED
    BY <2>4, <2>5
<1> QED
  BY <1>1, <1>2

\* dequeue moves the head on and clears the next field of the node it leaves.
LEMMA DequeueHeld ==
  ASSUME Calloced, next \in [Node -> Node \cup {NULL}],
         NEW q, Holds(head, next, q), List!dequeue
  PROVE  /\ q # <<>> /\ Holds(head', next', dequeue(q))
         /\ next' \in [Node -> Node \cup {NULL}]
<1>1. q # <<>> /\ head' = next[head] /\ next' = [next EXCEPT ![head] = NULL]
  BY DEF List!dequeue, Holds
<1>t. /\ Len(q) \in Nat \ {0} /\ \A k \in 1 .. Len(q) : q[k] \in Node
      /\ \A j, k \in 1 .. Len(q) : q[j] = q[k] => j = k
      /\ q \in Seq(Node) /\ head = q[1] /\ head \in Node
  <2>1. /\ Len(q) \in Nat \ {0} /\ \A k \in 1 .. Len(q) : q[k] \in Node
        /\ \A j, k \in 1 .. Len(q) : q[j] = q[k] => j = k
    BY <1>1, HeldTypes
  <2>2. q \in Seq(Node) /\ head = q[1]
    BY <1>1 DEF Holds
  <2>3. 1 \in 1 .. Len(q)
    BY <2>1
  <2> QED
    BY <2>1, <2>2, <2>3, Zenon
<1> DEFINE r == Tail(q)
<1>2. /\ r \in Seq(Node) /\ Len(r) = Len(q) - 1
      /\ \A k \in 1 .. Len(q) - 1 : r[k] = q[k + 1]
  BY <1>1, <1>t, HeadTailProperties
<1>3. IsInjective(r) /\ r = dequeue(q)
  BY <1>1, <1>t, DequeueHead DEF dequeue, Holds
<1> HIDE DEF r
<1>4. /\ next' \in [Node -> Node \cup {NULL}]
      /\ \A k \in 2 .. Len(q) : next'[q[k]] = next[q[k]]
  <2>1. \A k \in 2 .. Len(q) : k \in 1 .. Len(q) /\ k # 1 /\ 1 \in 1 .. Len(q)
    BY <1>t
  <2>2. \A k \in 2 .. Len(q) : q[k] # head /\ q[k] \in Node
    BY <1>t, <2>1
  <2> QED
    BY <1>1, <1>t, <2>2
<1>h. /\ \A k \in 1 .. Len(q) - 1 : next[q[k]] = q[k + 1]
      /\ next[q[Len(q)]] = NULL
  BY <1>1 DEF Holds
<1>5. CASE Len(q) = 1
  <2>1. r = <<>> /\ head' = NULL
    BY <1>1, <1>2, <1>5, <1>h, <1>t, EmptySeq
  <2>2. \A k \in 1 .. Len(r) - 1 : FALSE
    BY <1>2, <1>5
  <2> QED
    BY <1>1, <1>2, <1>3, <1>4, <2>1, <2>2 DEF Holds
<1>6. CASE Len(q) # 1
  <2>1. r # <<>> /\ head' = r[1]
    <3>1. 1 \in 1 .. Len(q) - 1 /\ Len(r) # 0
      BY <1>2, <1>6, <1>t
    <3> QED
      BY <1>1, <1>2, <1>h, <1>t, <3>1, EmptySeq
  <2>2. next'[r[Len(r)]] = NULL
    <3>1. Len(q) \in 2 .. Len(q) /\ Len(r) \in 1 .. Len(q) - 1 /\ Len(r) + 1 = Len(q)
      BY <1>2, <1>6, <1>t
    <3> QED
      BY <1>2, <1>4, <1>h, <3>1
  <2>3. ASSUME NEW k \in 1 .. Len(r) - 1 PROVE next'[r[k]] = r[k + 1]
    <3>1. /\ k \in 1 .. Len(q) - 1 /\ k + 1 \in 1 .. Len(q) - 1
          /\ k + 1 \in 2 .. Len(q)
      BY <1>2, <1>t
    <3> QED
      BY <1>2, <1>4, <1>h, <3>1
  <2> QED
    BY <1>1, <1>2, <1>3, <1>4, <2>1, <2>2, <2>3 DEF Holds
<1> QED
  BY <1>5, <1>6

\* The operators of the specification that InfoList implements are InfoQueue's.
LEMMA SameOperators ==
  ASSUME NEW q, NEW p
  PROVE  List!Queue!enqueue(q, p) = enqueue(q, p) /\ List!Queue!dequeue(q) = dequeue(q)
BY DEF enqueue, dequeue, PlaceOf, Range, List!Queue!enqueue, List!Queue!dequeue,
       List!Queue!PlaceOf, List!Queue!Range

LEMMA PointersInit ==
  ASSUME Calloced, List!Init
  PROVE  PointersInv /\ List!Queue!Init
<1>1. Holds(head, next, <<>>)
  BY EmptySeq DEF Holds, IsInjective, List!Init
<1>2. List!queued = <<>>
  BY <1>1, QueuedIs
<1> QED
  BY <1>1, <1>2, EmptySeq DEF PointersInv, List!Init, List!Queue!Init

LEMMA PointersStep ==
  ASSUME Calloced, PointersInv, QueuedTrue', [List!Next]_List!vars
  PROVE  PointersInv' /\ [List!Queue!Next]_(List!queued)
<1>1. PICK q \in Seq(Node) : Holds(head, next, q)
  BY DEF PointersInv
<1>2. List!queued = q
  BY <1>1, QueuedIs
<1>n. next \in [Node -> Node \cup {NULL}]
  BY DEF PointersInv
<1>3. ASSUME NEW r, Holds(head', next', r), next' \in [Node -> Node \cup {NULL}]
      PROVE  List!queued' = r /\ PointersInv'
  <2>1. List!queued' = r
    BY <1>3 DEF QueuedTrue, Holds
  <2> QED
    BY <1>3, <2>1 DEF PointersInv, Holds
<1>4. ASSUME NEW p \in Node, List!enqueue(p)
      PROVE  PointersInv' /\ List!Queue!Next
  <2>1. Holds(head', next', enqueue(q, p)) /\ next' \in [Node -> Node \cup {NULL}]
    BY <1>1, <1>n, <1>4, EnqueueHeld
  <2>2. List!queued' = enqueue(q, p) /\ PointersInv'
    BY <1>3, <2>1
  <2> QED
    BY <1>2, <2>2, SameOperators DEF List!Queue!Next
<1>5. ASSUME List!dequeue
      PROVE  PointersInv' /\ List!Queue!Next
  <2>1. /\ q # <<>> /\ Holds(head', next', dequeue(q))
        /\ next' \in [Node -> Node \cup {NULL}]
    BY <1>1, <1>n, <1>5, DequeueHeld
  <2>2. List!queued' = dequeue(q) /\ PointersInv'
    BY <1>3, <2>1
  <2> QED
    BY <1>2, <2>1, <2>2, SameOperators DEF List!Queue!Next
<1>6. CASE UNCHANGED List!vars
  <2>1. head' = head /\ next' = next
    BY <1>6 DEF List!vars
  <2>2. List!queued' = q /\ PointersInv'
    BY <1>1, <1>3, <1>n, <2>1
  <2> QED
    BY <1>2, <2>2
<1> QED
  BY <1>4, <1>5, <1>6 DEF List!Next

\* enqueue and dequeue on pointers do what InfoQueue says of sequences, also when
\* a node is enqueued a second time: for every finite array of nodes.
THEOREM QueuesOnPointers == Calloced => (List!Spec => List!QueueSpec)
<1> SUFFICES ASSUME Calloced PROVE List!Spec => List!QueueSpec
  OBVIOUS
<1>1. List!Init => PointersInv /\ List!Queue!Init
  BY PointersInit
<1>2. PointersInv /\ QueuedTrue' /\ [List!Next]_List!vars
        => PointersInv' /\ [List!Queue!Next]_(List!queued)
  BY PointersStep
<1>3. QueuedTrue
  BY QueuedAlways
<1> QED
  BY <1>1, <1>2, <1>3, PTL DEF List!Spec, List!QueueSpec, List!Queue!Spec
=============================================================================
