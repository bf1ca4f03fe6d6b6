------------------------- MODULE FrameBufferManager -------------------------
(***************************************************************************)
(* The frame path of an encoder context: the inputbuffer_list part of      *)
(* vencoder/FrameBufferManager.c together with VideoEncodeOneFrame         *)
(* (vencoder/vencoder.c), which drives it.                                 *)
(*                                                                         *)
(* A fixed array of `num' slots circulates empty -> input -> used -> empty.*)
(* The list mutex is held only while a queue is touched: the frame itself  *)
(* is copied into or out of a slot with the mutex released, so every call  *)
(* is several steps and calls of different threads interleave between      *)
(* them.  A critical section contains no blocking call and no second lock  *)
(* and is one step here.  A call that returns -1 without having changed    *)
(* anything is not a step.                                                 *)
(***************************************************************************)
EXTENDS Naturals, InfoQueue

CONSTANTS Feeders,     \* threads that call AddOneInputBuffer
          Encoders,    \* threads that call VideoEncodeOneFrame
          Collectors,  \* threads that call AlreadyUsedInputBuffer
          BufferIDs,   \* the nID values applications put into a frame
          num,         \* max_size, FRAME_BUFFER_NUM in the program
          MaxFrames,   \* bound: how many frames are accepted in a behaviour
          NoThread     \* the engine lock is free

ASSUME RolesAssumption ==
  /\ Feeders \cap Encoders = {}
  /\ Feeders \cap Collectors = {}
  /\ Encoders \cap Collectors = {}
  /\ NoThread \notin Encoders

ASSUME SizeAssumption ==
  /\ num \in Nat \ {0}
  /\ MaxFrames \in Nat
  /\ BufferIDs \subseteq Nat
  /\ 0 \in BufferIDs

Threads == Feeders \cup Encoders \cup Collectors
Slots == 1 .. num
NoSlot == 0

\* VencInputBuffer: its identity and its time stamp; pictures and addresses
\* are payload.  Time stamps are distinct, as an application's frame counter.
Frame == [nID : BufferIDs, nPts : 0 .. MaxFrames]
ZeroFrame == [nID |-> 0, nPts |-> 0]

VARIABLES
  empty_quene, input_quene, used_quene,  \* sequences of slots
  inputbuffer,        \* the frame stored in each slot
  curEncInputbuffer,  \* VencContext: the frame VideoEncodeOneFrame works on
  engine,             \* who holds the engine lock (gVeDecoderMutex)
  pc,                 \* where each thread is
  slot,               \* its local pointer input_buffer_info
  buf,                \* its own VencInputBuffer
  frames,             \* how many frames have been accepted
  encoded,            \* history: the frames passed to the device's encode
  taken               \* history: the frames dequeued for hand-back

queues == <<empty_quene, input_quene, used_quene>>
history == <<encoded, taken>>
vars == <<queues, inputbuffer, curEncInputbuffer, engine, pc, slot, buf,
          frames, history>>

\* Thread t goes from step `from' to step `to'.
Step(t, from, to) == pc[t] = from /\ pc' = [pc EXCEPT ![t] = to]

-----------------------------------------------------------------------------
(* FrameBufferManagerCreate: zeroed slots, all of them on the empty queue. *)

\* The loop enqueues the elements of buffer_quene one after the other.
AllEnqueued == [i \in Slots |-> i]

Init ==
  /\ empty_quene = AllEnqueued
  /\ input_quene = <<>>
  /\ used_quene = <<>>
  /\ inputbuffer = [s \in Slots |-> ZeroFrame]
  /\ curEncInputbuffer = ZeroFrame
  /\ engine = NoThread
  /\ pc = [t \in Threads |-> "idle"]
  /\ slot = [t \in Threads |-> NoSlot]
  /\ buf = [t \in Threads |-> ZeroFrame]
  /\ frames = 0
  /\ encoded = <<>>
  /\ taken = <<>>

-----------------------------------------------------------------------------
(* AddInputBuffer: take an empty slot, fill it unlocked, queue it.         *)

AddTake(t) ==
  /\ empty_quene # <<>>
  /\ frames < MaxFrames
  /\ Step(t, "idle", "add_copy")
  /\ \E id \in BufferIDs : buf' = [buf EXCEPT ![t] = [nID |-> id, nPts |-> frames + 1]]
  /\ slot' = [slot EXCEPT ![t] = Head(empty_quene)]
  /\ empty_quene' = dequeue(empty_quene)
  /\ frames' = frames + 1
  /\ UNCHANGED <<input_quene, used_quene, inputbuffer, curEncInputbuffer, engine, history>>

AddCopy(t) ==
  /\ Step(t, "add_copy", "add_put")
  /\ inputbuffer' = [inputbuffer EXCEPT ![slot[t]] = buf[t]]
  /\ UNCHANGED <<queues, curEncInputbuffer, engine, slot, buf, frames, history>>

AddPut(t) ==
  /\ Step(t, "add_put", "idle")
  /\ input_quene' = enqueue(input_quene, slot[t])
  /\ UNCHANGED <<empty_quene, used_quene, inputbuffer, curEncInputbuffer, engine,
                 slot, buf, frames, history>>

-----------------------------------------------------------------------------
(* VideoEncodeOneFrame.  GetInputBuffer reads the head of the input queue  *)
(* under the mutex and leaves it queued; the frame is copied unlocked, one *)
(* field after the other, into the context's curEncInputbuffer.            *)

GetHead(t) ==
  /\ input_quene # <<>>
  /\ Step(t, "idle", "get_id")
  /\ slot' = [slot EXCEPT ![t] = Head(input_quene)]
  /\ UNCHANGED <<queues, inputbuffer, curEncInputbuffer, engine, buf, frames, history>>

\* Mutant: nID is not copied.
GetCopyNoID(t) ==
  /\ Step(t, "get_id", "get_pts")
  /\ UNCHANGED <<queues, inputbuffer, curEncInputbuffer, engine, slot, buf, frames, history>>

GetCopyID(t) ==
  /\ Step(t, "get_id", "get_pts")
  /\ curEncInputbuffer' = [curEncInputbuffer EXCEPT !.nID = inputbuffer[slot[t]].nID]
  /\ UNCHANGED <<queues, inputbuffer, engine, slot, buf, frames, history>>

\* Mutant: the test of GetInputBuffer's result is inverted and
\* VideoEncodeOneFrame returns.
GetThenReturn(t) ==
  /\ Step(t, "get_pts", "idle")
  /\ UNCHANGED <<queues, inputbuffer, curEncInputbuffer, engine, slot, buf, frames, history>>

GetCopyPts(t) ==
  /\ Step(t, "get_pts", "lock")
  /\ curEncInputbuffer' = [curEncInputbuffer EXCEPT !.nPts = inputbuffer[slot[t]].nPts]
  /\ UNCHANGED <<queues, inputbuffer, engine, slot, buf, frames, history>>

\* EncAdapterLockVideoEngine
LockEngine(t) ==
  /\ engine = NoThread
  /\ Step(t, "lock", "encode")
  /\ engine' = t
  /\ UNCHANGED <<queues, inputbuffer, curEncInputbuffer, slot, buf, frames, history>>

\* The device's encode and EncAdapterUnLockVideoEngine; the result of encode
\* does not change what follows.
Encode(t) ==
  /\ Step(t, "encode", "add_used")
  /\ encoded' = Append(encoded, curEncInputbuffer)
  /\ engine' = NoThread
  /\ UNCHANGED <<queues, inputbuffer, curEncInputbuffer, slot, buf, frames, taken>>

\* Mutant: AddUsedInputBuffer is left out when encode fails.
AddUsedOnSuccess(t) ==
  /\ Step(t, "add_used", "idle")
  /\ \/ UNCHANGED queues
     \/ /\ input_quene # <<>>
        /\ input_quene' = dequeue(input_quene)
        /\ used_quene' = enqueue(used_quene, Head(input_quene))
        /\ UNCHANGED empty_quene
  /\ UNCHANGED <<inputbuffer, curEncInputbuffer, engine, slot, buf, frames, history>>

(***************************************************************************)
(* AddUsedInputBuffer, one critical section: dequeue the head of the input *)
(* queue and move it to the used queue.  A slot whose nID is not the one   *)
(* of curEncInputbuffer has been dequeued all the same and goes nowhere.   *)
(***************************************************************************)
AddUsed(t) ==
  /\ Step(t, "add_used", "idle")
  /\ \/ /\ input_quene = <<>>
        /\ UNCHANGED queues
     \/ /\ input_quene # <<>>
        /\ input_quene' = dequeue(input_quene)
        /\ curEncInputbuffer.nID # inputbuffer[Head(input_quene)].nID
        /\ UNCHANGED <<empty_quene, used_quene>>
     \/ /\ input_quene # <<>>
        /\ input_quene' = dequeue(input_quene)
        /\ curEncInputbuffer.nID = inputbuffer[Head(input_quene)].nID
        /\ used_quene' = enqueue(used_quene, Head(input_quene))
        /\ UNCHANGED empty_quene
  /\ UNCHANGED <<inputbuffer, curEncInputbuffer, engine, slot, buf, frames, history>>

-----------------------------------------------------------------------------
(* GetUsedInputBuffer: take a used slot, copy its frame out unlocked, give *)
(* the slot back to the empty queue.                                       *)

\* Mutant: one critical section moves the slot to the empty queue before the
\* frame is copied out.
CollectTakeAndPut(t) ==
  /\ used_quene # <<>>
  /\ Step(t, "idle", "collect_copy")
  /\ slot' = [slot EXCEPT ![t] = Head(used_quene)]
  /\ used_quene' = dequeue(used_quene)
  /\ empty_quene' = enqueue(empty_quene, Head(used_quene))
  /\ taken' = Append(taken, inputbuffer[Head(used_quene)])
  /\ UNCHANGED <<input_quene, inputbuffer, curEncInputbuffer, engine, buf, frames, encoded>>

CollectTake(t) ==
  /\ used_quene # <<>>
  /\ Step(t, "idle", "collect_copy")
  /\ slot' = [slot EXCEPT ![t] = Head(used_quene)]
  /\ used_quene' = dequeue(used_quene)
  /\ taken' = Append(taken, inputbuffer[Head(used_quene)])
  /\ UNCHANGED <<empty_quene, input_quene, inputbuffer, curEncInputbuffer, engine,
                 buf, frames, encoded>>

CollectCopy(t) ==
  /\ Step(t, "collect_copy", "collect_put")
  /\ buf' = [buf EXCEPT ![t] = inputbuffer[slot[t]]]
  /\ UNCHANGED <<queues, inputbuffer, curEncInputbuffer, engine, slot, frames, history>>

CollectPut(t) ==
  /\ Step(t, "collect_put", "idle")
  /\ empty_quene' = enqueue(empty_quene, slot[t])
  /\ UNCHANGED <<input_quene, used_quene, inputbuffer, curEncInputbuffer, engine,
                 slot, buf, frames, history>>

-----------------------------------------------------------------------------

FeederStep(t) == AddTake(t) \/ AddCopy(t) \/ AddPut(t)
EncoderStep(t) ==
  GetHead(t) \/ GetCopyID(t) \/ GetCopyPts(t) \/ LockEngine(t) \/ Encode(t) \/ AddUsed(t)
CollectorStep(t) == CollectTake(t) \/ CollectCopy(t) \/ CollectPut(t)

\* The bound MaxFrames has been used up and nothing is left to do.
Finished ==
  /\ frames = MaxFrames
  /\ \A t \in Threads : pc[t] = "idle"
  /\ input_quene = <<>> /\ used_quene = <<>>
  /\ UNCHANGED vars

Next ==
  \/ \E t \in Feeders : FeederStep(t)
  \/ \E t \in Encoders : EncoderStep(t)
  \/ \E t \in Collectors : CollectorStep(t)
  \/ Finished

Spec == Init /\ [][Next]_vars

(***************************************************************************)
(* Threads are scheduled by the operating system: a call that has begun is *)
(* continued, and encoding and collecting threads keep calling, as the     *)
(* loop of demo/VideoTest.c does.  Nobody is obliged to submit a frame.    *)
(***************************************************************************)
Fairness ==
  /\ \A t \in Feeders : WF_vars(AddCopy(t) \/ AddPut(t))
  /\ \A t \in Encoders : WF_vars(EncoderStep(t))
  /\ \A t \in Collectors : WF_vars(CollectorStep(t))

FairSpec == Spec /\ Fairness
-----------------------------------------------------------------------------
(* Properties.                                                             *)

\* The threads that own the slot their pointer names: it is in no queue.
Holders == {t \in Threads :
             pc[t] \in {"add_copy", "add_put", "collect_copy", "collect_put"}}

\* Encoders between the unlocked copy and AddUsedInputBuffer.
Copying == {t \in Encoders : pc[t] \in {"get_id", "get_pts"}}
Working == {t \in Encoders : pc[t] \in {"lock", "encode", "add_used"}}

\* The frames stored in the slots of a queue, head first.
Frames(q) == [i \in 1 .. Len(q) |-> inputbuffer[q[i]]]

\* The queues hold slots, every thread is at a step of a call its role makes,
\* and the copies in the context and in the threads are frames.
TypeOK ==
  /\ empty_quene \in Seq(Slots) /\ input_quene \in Seq(Slots) /\ used_quene \in Seq(Slots)
  /\ inputbuffer \in [Slots -> Frame]
  /\ curEncInputbuffer \in Frame
  /\ engine \in Encoders \cup {NoThread}
  /\ pc \in [Threads -> {"idle", "add_copy", "add_put", "get_id", "get_pts", "lock",
                         "encode", "add_used", "collect_copy", "collect_put"}]
  /\ \A t \in Feeders : pc[t] \in {"idle", "add_copy", "add_put"}
  /\ \A t \in Encoders :
       pc[t] \in {"idle", "get_id", "get_pts", "lock", "encode", "add_used"}
  /\ \A t \in Collectors : pc[t] \in {"idle", "collect_copy", "collect_put"}
  /\ slot \in [Threads -> Slots \cup {NoSlot}]
  /\ \A t \in Threads : pc[t] # "idle" => slot[t] \in Slots
  /\ buf \in [Threads -> Frame]
  /\ frames \in 0 .. MaxFrames
  /\ encoded \in Seq(Frame)
  /\ taken \in Seq(Frame)

\* A slot is at one place: once in one queue, or with the one thread that took
\* it out and has not yet put it back.  enqueue cuts a queue off when it is
\* given a node that is already queued, so this is what keeps it harmless.
SlotsDisjoint ==
  /\ IsInjective(empty_quene) /\ IsInjective(input_quene) /\ IsInjective(used_quene)
  /\ Range(empty_quene) \cap Range(input_quene) = {}
  /\ Range(empty_quene) \cap Range(used_quene) = {}
  /\ Range(input_quene) \cap Range(used_quene) = {}
  /\ \A t \in Holders :
       slot[t] \notin Range(empty_quene) \cup Range(input_quene) \cup Range(used_quene)
  /\ \A t, u \in Holders : slot[t] = slot[u] => t = u

\* No slot drops out of circulation: AddUsedInputBuffer dequeues before it
\* compares nID and forgets the slot when they differ, which with one encoding
\* thread never happens although the frame was read without the mutex.
NoSlotLost ==
  Slots = Range(empty_quene) \cup Range(input_quene) \cup Range(used_quene)
            \cup {slot[t] : t \in Holders}

\* The pointer that GetInputBuffer keeps after the unlock still names the head
\* of the input queue while the frame behind it is read, and until
\* AddUsedInputBuffer dequeues "the head": both mean the same slot.
PointerFresh ==
  \A t \in Copying \cup Working : input_quene # <<>> /\ slot[t] = Head(input_quene)

\* Copied field by field and without the mutex, the frame is whole all the
\* same: what reaches the device is the frame of the slot it came from.
CopyWhole ==
  \A t \in Encoders :
    /\ pc[t] \in {"get_pts", "lock", "encode", "add_used"} =>
         curEncInputbuffer.nID = inputbuffer[slot[t]].nID
    /\ t \in Working => curEncInputbuffer = inputbuffer[slot[t]]

\* The device sees every frame once and whole, in the order in which frames
\* come back: what it was given is what was handed back, then what waits on
\* the used queue, then the frame VideoEncodeOneFrame has yet to move there.
EncodedExactlyOnce ==
  encoded = taken \o Frames(used_quene)
              \o (IF \E t \in Encoders : pc[t] = "add_used"
                    THEN <<inputbuffer[Head(input_quene)]>> ELSE <<>>)

\* GetUsedInputBuffer reads the slot after the unlock: what the caller gets is
\* still the frame that was dequeued, and no two callers get the same one.
HandBackIntact ==
  LET Got == {t \in Collectors : pc[t] = "collect_put"}
  IN  /\ \A t \in Got : buf[t] \in Range(taken)
      /\ \A t, u \in Got : buf[t] = buf[u] => t = u

\* However many threads encode, no accepted frame is handed back twice.
HandedBackOnce ==
  \A i, j \in DOMAIN taken : taken[i].nPts = taken[j].nPts => i = j

\* The abstract pipeline: accepted frames are encoded and come back in the
\* order in which AddInputBuffer queued them, at most num at a time.
Pipeline == INSTANCE FramePipeline WITH
  Capacity <- num,
  submitted <- taken \o Frames(used_quene) \o Frames(input_quene),
  finished <- Len(taken) + Len(used_quene),
  returned <- Len(taken)
PipelineSpec == Pipeline!Spec

\* Every frame for which AddOneInputBuffer found a slot is handed back in the
\* end, under Fairness: no queue loses it and no thread waits for ever.
EveryFrameHandedBack ==
  \A n \in 1 .. MaxFrames :
    frames >= n ~> \E i \in DOMAIN taken : taken[i].nPts = n
=============================================================================
