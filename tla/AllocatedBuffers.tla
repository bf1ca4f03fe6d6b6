-------------------------- MODULE AllocatedBuffers --------------------------
(***************************************************************************)
(* The ABM_inputbuffer part of vencoder/FrameBufferManager.c: picture      *)
(* buffers that AllocateInputBuffer takes from the memory adapter, that an *)
(* application gets with GetOneAllocateInputBuffer and returns by nID with *)
(* ReturnOneAllocateInputBuffer, from any of its threads.                  *)
(*                                                                         *)
(* The use is that of demo/VideoTest.c: allocation succeeds at most once   *)
(* in the life of a manager and comes before the buffers are asked for,    *)
(* and a buffer is returned once for every time it was got.  The memory is *)
(* shared with the whole process, so that any request may fail.            *)
(* ReleaseAllocInputBuffer does nothing and is no action.                  *)
(***************************************************************************)
EXTENDS Naturals, InfoQueue

CONSTANTS Clients,  \* threads that call GetOneAllocInputBuffer
          MaxNum    \* bound: the largest nBufferNum

ASSUME MaxNumAssumption == MaxNum \in Nat \ {0}

\* The planes of a picture: luma and, if nSizeC > 0, chroma.
PlanesOf(size_c) == IF size_c > 0 THEN {"Y", "C"} ELSE {"Y"}
IDs == 0 .. MaxNum - 1

VARIABLES
  alive,            \* between FrameBufferManagerCreate and ...Destroy
  buffer_num, size_c,
  allocate_buffer,  \* calloc has returned the array and it has not been freed
  virt,             \* <<i, plane>> with a pAddrVir that is not NULL
  allocate_queue,   \* sequence of indices into the array
  blocks,           \* memory adapter: what it has given out, by its user
  allocPc, i,       \* AllocateInputBuffer: its step, and its loop variable
  pc, node,         \* each client: its step, and the node it has dequeued
  held              \* the nIDs that the application holds

array == <<buffer_num, size_c, allocate_buffer, virt>>
clients == <<pc, node, held>>
vars == <<alive, array, allocate_queue, blocks, allocPc, i, clients>>

\* No manager yet.
Init ==
  /\ alive = FALSE
  /\ buffer_num = 0
  /\ size_c = 0
  /\ allocate_buffer = FALSE
  /\ virt = {}
  /\ allocate_queue = <<>>
  /\ allocPc = "idle"
  /\ i = 0
  /\ pc = [c \in Clients |-> "idle"]
  /\ node = [c \in Clients |-> 0]
  /\ held = {}
  /\ blocks = {}

\* calloc leaves everything zero; what Destroy has left so is not repeated.
FrameBufferManagerCreate ==
  /\ ~ alive
  /\ alive' = TRUE
  /\ buffer_num' = 0
  /\ size_c' = 0
  /\ i' = 0
  /\ UNCHANGED <<allocate_buffer, virt, allocate_queue, blocks, allocPc, clients>>

-----------------------------------------------------------------------------
(* AllocateInputBuffer                                                     *)

\* buffer_num is set before calloc is asked, and stays when it fails.
AllocateArray(num, c) ==
  /\ alive /\ allocPc = "idle" /\ ~ allocate_buffer
  /\ buffer_num' = num
  /\ \/ /\ allocate_buffer' = TRUE
        /\ size_c' = c
        /\ i' = 0
        /\ allocPc' = "planes"
     \/ UNCHANGED <<allocate_buffer, size_c, i, allocPc>>
  /\ UNCHANGED <<alive, virt, allocate_queue, blocks, clients>>

\* The next plane to be allocated: luma before chroma.
NextPlane == IF <<i, "Y">> \in virt THEN "C" ELSE "Y"

\* EncAdapterMemPalloc returns memory.
AllocatePlane ==
  /\ allocPc = "planes" /\ i < buffer_num
  /\ virt' = virt \cup {<<i, NextPlane>>}
  /\ blocks' = blocks \cup {<<i, NextPlane>>}
  /\ i' = IF NextPlane = "C" \/ "C" \notin PlanesOf(size_c) THEN i + 1 ELSE i
  /\ UNCHANGED <<alive, buffer_num, size_c, allocate_buffer, allocate_queue, allocPc, clients>>

\* Mutant: the loop goes on without the plane.
AllocatePlaneSkipped ==
  /\ allocPc = "planes" /\ i < buffer_num
  /\ i' = i + 1
  /\ UNCHANGED <<alive, array, allocate_queue, blocks, allocPc, clients>>

\* It does not.
AllocatePlaneFails ==
  /\ allocPc = "planes" /\ i < buffer_num
  /\ allocPc' = "undo"
  /\ UNCHANGED <<alive, array, allocate_queue, blocks, i, clients>>

\* Mutant: only the buffers that are complete are freed.
RecordedComplete == {plane \in virt : plane[1] \in 0 .. i - 1}

\* The loop that frees what is there, in FrameBufferManagerDestroy as well.
Recorded == {plane \in virt : plane[1] \in 0 .. buffer_num - 1}

UndoAllocation ==
  /\ allocPc = "undo"
  /\ blocks' = blocks \ Recorded
  /\ virt' = {}
  /\ allocate_buffer' = FALSE
  /\ allocPc' = "idle"
  /\ UNCHANGED <<alive, buffer_num, size_c, allocate_queue, i, clients>>

\* All buffers go to the queue, which is empty before.
AllQueued == [k \in 1 .. buffer_num |-> k - 1]

QueueAll ==
  /\ allocPc = "planes" /\ i = buffer_num
  /\ allocate_queue' = AllQueued
  /\ allocPc' = "idle"
  /\ UNCHANGED <<alive, array, blocks, i, clients>>

-----------------------------------------------------------------------------
(* The application.                                                        *)

Ready == alive /\ allocPc = "idle" /\ allocate_buffer

\* GetOneAllocateInputBuffer: the critical section, then the copy.
GetTake(c) ==
  /\ Ready
  /\ pc[c] = "idle"
  /\ allocate_queue # <<>>
  /\ node' = [node EXCEPT ![c] = Head(allocate_queue)]
  /\ allocate_queue' = dequeue(allocate_queue)
  /\ pc' = [pc EXCEPT ![c] = "copy"]
  /\ UNCHANGED <<alive, array, blocks, allocPc, i, held>>

GetCopy(c) ==
  /\ pc[c] = "copy"
  /\ held' = held \cup {node[c]}
  /\ pc' = [pc EXCEPT ![c] = "idle"]
  /\ UNCHANGED <<alive, array, allocate_queue, blocks, allocPc, i, node>>

ReturnOneAllocateInputBuffer(nID) ==
  /\ Ready
  /\ nID \in held
  /\ ~ (nID >= buffer_num)
  /\ allocate_queue' = enqueue(allocate_queue, nID)
  /\ held' = held \ {nID}
  /\ UNCHANGED <<alive, array, blocks, allocPc, i, pc, node>>

\* No call is in progress when the encoder is closed; buffers may be held.
FrameBufferManagerDestroy ==
  /\ alive /\ allocPc = "idle"
  /\ \A c \in Clients : pc[c] = "idle"
  /\ blocks' = IF allocate_buffer THEN blocks \ Recorded ELSE blocks
  /\ allocate_buffer' = FALSE
  /\ virt' = {}
  /\ allocate_queue' = <<>>
  /\ held' = {}
  /\ alive' = FALSE
  /\ UNCHANGED <<buffer_num, size_c, allocPc, i, pc, node>>

-----------------------------------------------------------------------------

Next ==
  \/ FrameBufferManagerCreate
  \/ \E num \in 1 .. MaxNum, c \in {0, 1} : AllocateArray(num, c)
  \/ AllocatePlane \/ AllocatePlaneFails \/ UndoAllocation \/ QueueAll
  \/ \E c \in Clients : GetTake(c) \/ GetCopy(c)
  \/ \E nID \in held : ReturnOneAllocateInputBuffer(nID)
  \/ FrameBufferManagerDestroy

Spec == Init /\ [][Next]_vars

-----------------------------------------------------------------------------
(* Properties.                                                             *)

\* The buffers between GetTake and GetCopy.
InHand == {node[c] : c \in {d \in Clients : pc[d] = "copy"}}

\* Every index is one of the array's, also one that a client dequeued before an
\* allocation that failed, or that it may still return.
TypeOK ==
  /\ alive \in BOOLEAN /\ allocate_buffer \in BOOLEAN
  /\ buffer_num \in 0 .. MaxNum
  /\ size_c \in {0, 1}
  /\ virt \subseteq IDs \X {"Y", "C"} /\ blocks \subseteq IDs \X {"Y", "C"}
  /\ allocate_queue \in Seq(IDs)
  /\ allocPc \in {"idle", "planes", "undo"}
  /\ i \in 0 .. MaxNum /\ (allocPc # "idle" => i <= buffer_num)
  /\ pc \in [Clients -> {"idle", "copy"}]
  /\ node \in [Clients -> IDs]
  /\ held \subseteq IDs

\* No buffer is lost and none is with two users: each is in the queue, on its
\* way to one client, or held by the application.
BuffersConserved ==
  Ready =>
    /\ IsInjective(allocate_queue)
    /\ Range(allocate_queue) \cup InHand \cup held = 0 .. buffer_num - 1
    /\ Range(allocate_queue) \cap (InHand \cup held) = {}
    /\ InHand \cap held = {}
    /\ \A c, d \in Clients :
         pc[c] = "copy" /\ pc[d] = "copy" /\ node[c] = node[d] => c = d

\* The memory in use is what the array points to: an allocation that fails half
\* way and the destruction of the manager leave nothing behind.
NoMemoryLeft ==
  /\ allocate_buffer => blocks = virt
  /\ ~ allocate_buffer => blocks = {}

\* A buffer an application can get has all its planes.
BuffersComplete ==
  \A n \in Range(allocate_queue) \cup InHand \cup held :
    \A p \in PlanesOf(size_c) : <<n, p>> \in virt
=============================================================================
