# Verification of the cedarx encoder library

TLA+ specifications of the library under `src/`, which drives the H.264/JPEG
encoder of Allwinner chips: model-checked with TLC on small instances, with the
most important properties proved for all instances with TLAPS.

All line numbers below are lines of the files under `src/`.

## 1. The system

| part | state | operations | works with |
|---|---|---|---|
| `vencoder/FrameBufferManager.c`, frame queues (`inputbuffer_list`) | a fixed array of slots (`buffer_quene`), linked into an empty, an input and a used queue; one mutex | `AddInputBuffer`, `GetInputBuffer`, `AddUsedInputBuffer`, `GetUsedInputBuffer` | called by the encoder API; threads share the queues |
| the same file, picture buffers (`ABM_inputbuffer`) | an array of pictures with memory, a queue of those not in use, a second mutex | `AllocateInputBuffer`, `GetOneAllocateInputBuffer`, `ReturnOneAllocateInputBuffer`, freed by `FrameBufferManagerDestroy` | takes memory from the adapter |
| `vencoder/BitstreamManager.c` | a ring of bytes for the hardware, a ring of `StreamInfo`, counters, a mutex | `BitStreamFreeBufferSize`, `BitStreamWriteOffset`, `BitStreamAddOneBitstream`, `BitStreamGetOneBitstream`, `BitStreamReturnOneBitstream` | called by the device plugin, from the encoding thread and from the application's |
| `vencoder/vencoder.c` | `VencContext`: device, frame buffer manager, `curEncInputbuffer`, `bInit` | create, init, encode, uninit, destroy; wrappers; `AWJpecEnc`, which strings them together | holds the engine lock around the device's `encode` and `init` |
| `vencoder/EncAdapter.c` | none | `EncAdapterInitialize`, `EncAdpaterRelease`, forwarding | engine and memory adapter |
| `common/ve.c` | `gVeRefCount`, `gVeDriverFd`, register mapping, three mutexes; the mode register in the hardware | `VeInitialize`, `VeRelease`, `VeLock`, `VeReset`, the functions that set fields of the mode register | shared by all contexts of the process |
| `common/ve_alloc.c` | `ve_fd`, `ve_lst`, one mutex | open, close, alloc, free, address translation | shared by all contexts of the process |
| `common/ion_alloc.c` | `ion_fd`, `im_lst`, one mutex; handles, descriptors and mappings in the kernel | as above, over ION | replaces `ve_alloc.c` under `OPTION_MEMORY_DRIVER_ION` (`util/config.h`) |
| `vencoder/venc_device.c` | list of registered devices | register, look up, load plugins | filled by a constructor at load time |
| `util/list.h` | the kernel's list | insertion, deletion, iteration | `ve_alloc.c`, `ion_alloc.c`, `venc_device.c` |
| `libs/libcedar_plugin_venc.so` | the device | open, init, encode, ... | a binary, external |
| `demo/VideoTest.c` | its own structures and file | the reference client: one loop of submit, encode, collect, get stream, free stream | the encoder API |
| `base/CdxUtils.c` | – | empty | |

What makes it hard:

* **copies outside the mutex.** Every frame is copied into and out of a slot with
  the mutex released; `GetInputBuffer` even leaves the slot in the queue.  The
  same with the `StreamInfo` pointer that `BitStreamGetOneBitstream` returns and
  the free size and write offset that are read without a mutex at all.
* **several threads in several roles** on the same queues, and several contexts
  on the same engine, register and memory.
* **a read-modify-write per field** of one register, under one of three mutexes or
  under none.
* **rings** with more than one index and a padding, at their limits.
* **failure in the middle** of opening, of creating a context, of allocating over
  four kernel calls; clients that go on after an error.
* **an allocator** whose merging loop frees what an outer loop still points to, and
  one whose close leaves its list behind.

The hazards are listed one by one, with line and property, in `PROJECT.json`.

Correct means, part by part:

* frame queues: a slot is in one place; every accepted frame is encoded once,
  whole, in order, and handed back once, in order, in the end;
* picture buffers: none is lost or given to two users, all memory is freed;
* bit streams: no live stream is overwritten, counters tell the truth, streams
  come out in order and their space is used again;
* context: whatever fails, the device is called in its protocol, nothing is left
  behind, and the demo's file holds every stream;
* engine: open exactly while it is used, reset under nobody, no assignment to its
  register lost;
* memory: blocks overlap nothing, what is free can be had, every address
  translates to the byte it means, a failed allocation leaves nothing.

## 2. Modules

```
InfoQueue ............ enqueue/dequeue on sequences
   |  InfoList ....... the same on head and next pointers;  implements InfoQueueSpec
   +- FrameBufferManager ....... frame queues + VideoEncodeOneFrame;  implements FramePipeline
   |      FrameBufferManager_proofs, also of InfoList
   +- AllocatedBuffers ......... picture buffers
   |      AllocatedBuffers_proofs
   +- VencContext .............. a context and its clients;  implements EncoderDevice
          over VencDevice (the registry of devices) and FramePipeline
          VencContext_proofs

BitstreamManager ..... both rings, both threads;  implements BitstreamFifo
   +- BitstreamManager_proofs

VideoEngine .......... ve.c + EncAdapter.c + create/destroy of several contexts
   +- VideoEngine_proofs
VeRegisters .......... the mode register, field by field, and the three mutexes
   +- VeRegisters_proofs

KernelList ........... the circular lists of list.h, as functions
VeMemList ............ entries of ve_lst and their merging
   +- VeAlloc .................. the allocator;  implements MemoryPool
   +- CoalesceWalk ............. its merging loops, link by link, on KernelList
          VeAlloc_proofs, of both
IonAlloc ............. the allocator over ION, kernel call by kernel call
   +- IonAlloc_proofs
```

Names are the program's own.  A critical section is one step; what a function does
outside a mutex is steps of its own, one for every access to shared state, and
`pc` says where a thread is.  A call that returns an error without having changed
anything is not a step, except in `VencContext`, where the client goes on after it.
Operators whose comment begins with "Mutant" are alternatives of the definition they
stand in front of, with the mistake that the comment names; they belong to no
specification, and are there to show that a property notices the mistake (`mutants`
in `PROJECT.json`).

**InfoQueue, InfoList, InfoQueueSpec.**  `enqueue` walks to the last node and clears
`p->next`.  On sequences this is `Append`, except that a node which is already
queued becomes the last one and what followed it is lost; `InfoList` shows, on
pointers and for arbitrary calls, that this is exactly what happens.

**FrameBufferManager.**  Threads in three roles: `Feeders` (`AddOneInputBuffer`),
`Encoders` (`VideoEncodeOneFrame`), `Collectors` (`AlreadyUsedInputBuffer`).
`AddTake/AddCopy/AddPut` are the two critical sections of `AddInputBuffer` (101-103,
107-109) and the copy between them; `CollectTake/CollectCopy/CollectPut` those of
`GetUsedInputBuffer`; `GetHead`, `GetCopyID`, `GetCopyPts`, `LockEngine`, `Encode`,
`AddUsed` are `VideoEncodeOneFrame`.  The copy into `curEncInputbuffer` is two steps,
so that a torn copy would show.  A frame is its `nID` and its `nPts`; the physical
addresses that lines 184-191 of `vencoder.c` rebase are payload here and appear in
`IonAlloc`.  `nID`s repeat, as applications reuse buffers; `nPts` tells frames apart.
Frames are accepted up to `MaxFrames`; `encoded` and `taken` are history variables.

**AllocatedBuffers.**  Creation, an allocation that can fail at the array and at every
plane, getting (critical section and copy) and returning by any of the clients, and
destruction.  Buffers hold one plane or two, so that a half-finished one exists.
The use is the demo's: one successful allocation per manager, before the clients
start, and a buffer is returned once.

**BitstreamManager.**  The encoding thread reads the free size, reads the offset, lets
the hardware write (which may give up), and adds; the application gets a pointer,
reads through it, and returns.  `memory` records which stream last wrote each 64-byte
unit, `log` where each stream lies on an endless tape of which the buffer is a
window.  The application may hold several streams and returns them in order.  The
calling device is a binary, so its own steps (`HardwareWrite`, `HardwareFails`,
`ReadInfo`) are external; that it asks for the free size and then for the offset
before it encodes is the use for which these functions exist.

**VencContext, VencDevice, EncoderDevice.**  One context from the library's constructor
to its destruction.  `VencDevice` is the constructor's walk over the plugin directory,
`VEncoderRegister` and `VencoderDeviceCreate`; what a plugin registers is external.
`VencContext` has every function of `vencoder.c` that changes state as an action, each
with its guards (no manager, `bInit`, `FRAME_BUFFER_NUM` frames inside) and each device
call free to fail; `VideoEncCreate` is its stages, `VideoEncDestroy` begins with
`VideoEncUnInit`.  Who calls is chosen in the initial state: the loop of
`VideoTest.c`, one of the two forms of `AWJpecEnc` (its encode call is commented out in
the source), or a client that calls in any order.  A program is a sequence of call
names, `at` the next one, and `Minds` the calls after which it looks at the answer.
A structure that no call has filled is the C program's uninitialized one: using it may
kill the client (`Killed`) or go unnoticed.  Here the parts of the context appear by
what they promise: the frame queues are the steps of `FramePipeline`, which
`FrameBufferManager` implements (run `fbm`, theorem `ImplementsPipeline`), the streams
are a FIFO as `BitstreamFifo` says, picture buffers a queue.  `EncoderDevice` is the
abstract specification of the other side: in which order a device is called.  It tells a
failed init from a good one.  `VideoEncInit` (102-104) sets `bInit` after either, so a
device whose init failed is still encoded with and gets the one uninit that ends it;
`EncoderDevice` allows this, and neither a close nor a second init before that uninit.

**VideoEngine.**  Contexts created, used and destroyed concurrently, over the
reference-counted engine and the memory adapter without a count.  Each function of
`ve.c` and `ve_alloc.c` is a step, those of `EncAdapter.c` and `vencoder.c` are
several, with every failure in between.  One failure is no step: `VeInitialize` does not
look at what `mmap` returned (`ve.c:83`), and when that is no mapping the first access,
in `VeReset`, ends the process, so that there is no state after it.

**VeRegisters.**  The mode register is a word of fields.  Assigning one is `Load` and
`Store`, two steps; a function is the list of the assignments it still has to make,
made under `gVeRegisterMutex`.  `VeReset` clears the word without that mutex and then
calls `VeSetDramType`, which takes it; `VeInitialize` does both for the first user under
`gVeMutex`.  Threads set the mode and reset only inside `VeLock`, as `vencoder.c` does;
everything else they call at any time.

**VeAlloc, VeMemList, CoalesceWalk, KernelList.**  `VeAlloc` has the allocator's
functions as steps, `Coalesce` standing for the merging loops 193-204.  `CoalesceWalk`
is these loops themselves on the links of a `KernelList`, and shows that they compute
`Coalesce` although they pass through entries they have freed.  `virtAddr` of a freed
entry may read as anything, in every freed entry and at each reading anew.  The links of
a freed entry are taken to be as they were, since what allocators write is at the
beginning of the memory; nothing guarantees it, for `ve_mx` does not keep another thread
out of `malloc`, and once that memory is another's nothing can be said of the loops.
For the same reason `VeAlloc`'s one step stands for a call that the C library lets
finish: it may end the process at the second `free` that `walk_twice` shows.
`KernelList` is `list.h` as far as it is called: initialization, insertion at both
ends, deletion and iteration; the list of a walk is built with its insertions.

**IonAlloc.**  `ion_alloc_alloc` in its four kernel calls, each with its failure and
what the failure undoes; `ion_alloc_free`, open, close and both translations.  The
kernel is external: a buffer lives as long as a handle, a descriptor or a mapping
refers to it, close destroys the handles only, and a later client may be given the
same handle value for another buffer.  The adapter subtracts its `MEM_OFFSET`
(0x40000000) from every address, whatever the chip; the model lets the DRAM begin there.
`DeviceAddress` is what `VideoEncodeOneFrame` (184-191) does to an address before the
encoder gets it: an offset is subtracted once more from addresses that are not below
it, 0x20000000 when `ICVersion` is 0x1639 (`OFFT_1639`), `MEM_OFFSET`'s value otherwise.

## 3. Runs

Each run checks a module under the configuration `MC<module>.cfg`, or one with the ending
that the table names; the last but one column says how many distinct states there are.

| run | module | what it shows | states | deadlock checked |
|---|---|---|---|---|
| `fbm` | `FrameBufferManager` | one encoding thread, two that submit, two that collect: all of section 1 for the frame queues, refinement of `FramePipeline`, liveness | 32,165 | yes |
| `infolist` | `InfoList` | no cycles; sequences are implemented | 625 | yes |
| `abm` | `AllocatedBuffers` | picture buffers and their memory | 1,404 | yes |
| `bm` | `BitstreamManager` | rings, data, unlocked reads, refinement of `BitstreamFifo`, liveness | 116,683 | yes |
| `context` | `VencContext` | registration, life cycle, all clients, every failure; refinement of `EncoderDevice` | 2,230,600 | yes |
| `ve` | `VideoEngine` | three contexts, all failures | 19,100 | yes |
| `ve_shared` | `VideoEngine`, `...Shared.cfg` | *violated*: the memory adapter stays open for the contexts that are live | | |
| `veregs` | `VeRegisters` | the DRAM type stays set and the encoder stays enabled, whatever the other threads load and store | 21,812 | yes |
| `vealloc` | `VeAlloc` | tiling, no false shortage, translations, refinement of `MemoryPool` | 6,604 | yes |
| `ion` | `IonAlloc` | blocks exclusive, nothing left by a failure, translations, and which addresses either chip's encoder is given rightly | 179,590 | yes |
| `walk` | `CoalesceWalk` | the merging loops end with the merged list; only the last of three free entries can be freed twice | 2,611 | no |
| `walk_twice` | `CoalesceWalk`, `...Twice.cfg` | *violated*: no entry is freed twice | | |

`CHECK_DEADLOCK FALSE` stands only with `CoalesceWalk`, whose loops stop when they
are done.  In `VencContext` a client that has returned, or was killed, stutters by an
action of its own (`Stopped`).

What the properties of `context` say: `RegisteredFound`, that a device whose registration
was accepted is found under its codec, and the first one to come wins; `NothingLeft`, that
without a context no use of the adapter, no open device and no memory is left, and that
`AWJpecEnc` leaves no context on any way out; `DeviceSpec`, the device's protocol;
`RoundComplete`, that VideoTest's loop, which minds no error, is back at the same state
after each round; `StreamsAccounted`, that returning a stream which was never got does
no harm; `FileComplete`, that the file holds every stream in order (a round without a
stream writes the previous one again: `outputBuffer` still points to it).

Bounds.

* `fbm`: 2 slots (4 in the program) and one frame more than slots: every slot is used
  again while a thread may still hold a pointer to it, and each queue is empty, part
  full and full in some state; the slots are alike, so a third shows no new order of
  two.  The run has one encoding thread.  With several, which mix their frames in
  `curEncInputbuffer`, `NoSlotLost`, `PointerFresh` and what rests on them do not hold;
  `SlotsDisjoint`, `HandBackIntact` and `HandedBackOnce` do, and are proved for any number
  of encoding threads, see section 5.
* `bm`: a ring of 3 records (256 in the program) and 4 units of 64 bytes; with stream
  lengths 1, 64, 65 and 200 and 5 streams both rings fill, each one without the other,
  and wrap.  The size is a multiple of 64: see `WholeUnits` in section 5.
* `context`: two codecs, two devices and two plugins, so that a codec is registered
  twice, by the same or another device, or not at all; two frame slots and two picture
  buffers; three rounds of the demo's loop, so that slots, buffers and the stream that
  is written again meet; two frames at a time for the client without a program.
* `ve`: three contexts: one that leaves, one that comes and one that stays.
* `veregs`: three threads: one in the engine lock, one that sets fields without it, one
  that comes and goes.
* `vealloc`: five pages, enough for a free run between, before and behind blocks, and
  sizes of less than a page, a page and more; one virtual page to spare makes virtual
  and physical order differ.
* `ion`: four pages of a DRAM.  The places of the first two, counted from `MEM_OFFSET`,
  lie below the offset of chip 0x1639, the third between the two offsets, the last beyond
  both, so that an address corrected once or twice differs for each chip.  The DRAM's
  first page is never given: its translated address would be NULL.  Blocks of one and
  two pages; two handle values, so that a reopened client is given an old one.
* `walk`: every list of up to 7 entries that can arise; `walk_twice`: up to 3.

Fairness.  `FrameBufferManager`: a call that has begun goes on, and encoding and
collecting threads call again, since threads are scheduled by the operating system
and the client loops; nobody is obliged to submit.  `LockEngine` needs only weak
fairness with one encoding thread, the only one the liveness run has.
`BitstreamManager`: the application goes on asking and returning; the encoder owes
nothing.  `CoalesceWalk` runs in one call without waiting.  The other modules promise
nothing in the end, and state no fairness.

## 4. What the violated runs mean

* `ve_shared`: `ve_alloc_open` answers a second opener with success ("opened", line
  59) without counting it, and one `ve_alloc_close` unmaps everything.  In the trace
  both contexts open the adapter.  The creation of one fails after that (no memory, no such
  device, or the device's open), that of the other succeeds, before or after.  When the first
  one's `VideoEncCreate` then takes the adapter back (`EncAdpaterRelease`), the other is live
  without memory.  Destroying a context does the same to another.  `VeInitialize` and `VeRelease`, called beside these two
  functions, do count.
* `walk_twice`: `list_for_each_entry_safe` is safe against removal of the entry the
  cursor is at.  `ve_alloc_free` removes the one after it, which the outer loop has
  saved, and reads it when it gets there.  In the trace the block between two free ones,
  L and R, is freed.  From L the inner loop deletes and frees X, the block's entry, and R.  The outer loop goes on with X.  If the
  memory still reads as it was, X and R have NULL in `virtAddr`: the inner loop starts
  behind X and deletes and frees R again.  Where the C library has put a link of its own
  over `virtAddr`, which is the first member, nothing happens.  `walk`, and the theorem
  `DoubleFreeNeedsThree`, say that this is the only constellation in which it can: a
  block with a free neighbour on one side only is merged with each entry freed once.

## 5. Proofs

Each theorem holds for every value of the constants that satisfies the module's
assumptions; where it needs more, the condition is named.  The proofs go action by
action; the temporal steps are the usual induction.

**Frame queues** (`FrameBufferManager_proofs`, which begins with what `enqueue` and
`dequeue` do to the nodes of a queue).  For any sets of threads, any number of slots and of frames, any set of nIDs
(assumptions: the roles are disjoint, 0 is an nID):

* `SlotOwnership`: `Spec => [](TypeOK /\ SlotsDisjoint)`.  The conjunction is inductive: a
  thread that takes a slot takes the head of a queue without repetitions, so the slot is
  in no queue any more; a thread that puts one back holds it alone.
* `HandBackSafe`: `Spec => [](HandedBackOnce /\ HandBackIntact)`, with
  any number of threads in every role, several encoding ones included.  The time stamps of
  what is in slots, in the threads' copies and already handed back have to differ:
  `StampInv` says where a stamp can be (`StampsApart`, `Carrying`), that none is of a frame
  still to come (`StampsPast`), and that a copy agrees with the slot it was made from
  (`Copied`).  No record is torn, because a slot in no queue has one thread.
* `UnlockedReadSafe`: with at most one encoding thread (`OneEncoder`),
  `Spec => [](PointerFresh /\ CopyWhole /\ NoSlotLost)`.  The three need each other and
  `SlotOwnership`, `FrameInv` being their conjunction: nobody but the encoding thread
  dequeues from the input queue, so its head stays while the thread works on it;
  a queued slot has no holder who could write to it, so what is copied stays the same;
  therefore the `nID`s agree in `AddUsedInputBuffer`, and the slot is not dropped.  With
  two encoding threads both can read the same head, and the argument breaks at its start.
* `DeviceSeesEachFrameOnce` (with `OneEncoder`):
  `Spec => []EncodedExactlyOnce`, inductive relative to `FrameInv`.
* `ImplementsPipeline` (the same): `Spec => PipelineSpec`, the refinement of `FramePipeline`:
  `AddPut` is `Submit`, `AddUsed` is `Finish`, `CollectTake` is `HandBack`, everything else
  a stutter.  That there is room when `AddPut` submits is a pigeonhole argument: the slot
  it holds is in neither queue (`RoomForOne`).

**Queues on pointers** (the same module, last part, over `List == INSTANCE InfoList`).  For
any finite array of nodes, NULL not being one of them (`Calloced`):

* `QueuesOnPointers`: `List!Spec => QueueSpec`, the refinement of `InfoQueueSpec`, which is why
  the other modules may work with sequences.  The invariant, `PointersInv`, is that the pointers
  hold some sequence of distinct nodes (`Holds`): `head` is its first, `next` leads from each to
  the following one and from the last to NULL.  The walk along `next` meets exactly that
  sequence (`WalkMeets`, by the least position where it would not), so the while loop stops at
  its last node (`LastIs`); a sequence of distinct nodes is no longer than the array
  (`HeldFits`), so counting up to the array's length is enough.

**Picture buffers** (`AllocatedBuffers_proofs`).  For any number of buffers, any threads and
any failures:

* `PicturesConserved`: `Spec => []BuffersConserved`, `PicturesFreed`: `Spec => []NoMemoryLeft`,
  and `PicturesComplete`: `Spec => []BuffersComplete`.  `BuffersInv` adds what the three say
  nothing of: while the loop takes planes, the application has nothing yet (`Untouched`) and
  the array has every plane of the pictures before `i` and at most one of picture `i`
  (`PlanesSoFar`), so that the loop that undoes it finds all; and when it is through, each
  index is at one place (`Conserved`).

**Bit streams** (`BitstreamManager_proofs`).  For any buffer size, any length of the ring,
any stream lengths and any number of streams.  Four invariants, each relative to those
before it: `Basic` (types, and what the encoding thread read still serves), `Ring` (which
stream's record is at which position, `Place`; the tape is gapless), `Placed` (tape
positions are whole units, and offsets are positions modulo the size), `Written` (which
stream each unit of the buffer holds).  From the first two:

* `RoomStaysEnough`: `Spec => []RoomSuffices`; the room only grows while it is not looked
  at, for only the encoding thread adds;
* `HeldInfoStays`: `Spec => []HeldInfoStable`; live streams are less than a round of the
  ring apart, so their places differ (`PlacesDiffer`), and a held stream is live.

From all four, for a buffer of whole 64-byte units (`WholeUnits`):

* `AccountingKept`, `OrderKept`, `StreamsStayIntact`: `Accounting`, `LiveInOrder` and
  `StreamsIntact` are invariants; the last because two units less than a round apart on the
  tape are different units of the buffer (`UnitsApart`), and what is live, with what is
  being written, is no more than a round;
* `ImplementsFifo`: `Spec => FifoSpec`, the refinement of `BitstreamFifo`: adding is `Add`,
  getting is `Deliver`, returning is `GiveBack`, everything else a stutter.  The unread
  streams and those that are out are two consecutive parts of the log (`Parts`).

`WholeUnits` is needed: a stream is tested with its own length but takes its padded one,
so in a buffer of, say, 100 bytes a stream of 90 is accepted and counted as 128; the free
size is negative from then on and the offset, 28, has wrapped into the stream itself.
Which sizes the device asks for is not in the repository, and `BitStreamCreate` accepts
any; the hazard is listed.

**Engine** (`VideoEngine_proofs`).  For any finite set of contexts and any blocks:

* `EngineSafe`: `Spec => [](EngineServesUsers /\ NothingLeftOpen)`.  What the code cannot
  know, and the invariant `EngineInv` adds, is who must still close the memory adapter:
  while it is open some context is between its `MemAdapterOpen` and its
  `MemAdapterClose`, and blocks are mapped only while it is open.
* `ResetAlone`: `Spec => EngineResetAlone`, since the count is 0 only without users.

**Mode register** (`VeRegisters_proofs`).  For any set of threads:

* `DramTypeKept`: `Spec => []DramTypeSet`, and `EncoderKept`:
  `Spec => []EncoderStaysEnabled`.  The properties say nothing of threads in the middle of
  an assignment; the inductive invariant adds who holds which mutex where (`Locked`), and
  that a word which was loaded and not yet stored already has what the property wants
  (`DramInv`, `EncoderInv`).  `VeReset` clears the word outside the register mutex, and
  another thread may store afterwards what it loaded before; that does no harm, because no
  encoder is enabled meanwhile and `VeSetDramType`, inside the mutex, comes after it.

**ION** (`IonAlloc_proofs`).  For any page size, any offsets, any pages and any sizes, provided
the DRAM begins at `MEM_OFFSET` and its first page is not given (`IonAssumption`); its size
is not limited:

* `HeldStaysExclusive`, `NothingStaysBehind`, `TranslationsUndoEachOther`, from one
  invariant: blocks on the list and the one being made are disjoint (`Disjoint`), the
  kernel keeps exactly theirs (`Kept`), what is held is on the list (`HeldListed`).  The last
  of the three also says for which bytes the encoder is given their place in the DRAM: for
  those that lie below the chip's offset, and for no other.  Whoever has a block at
  0x20000000 or beyond on chip 0x1639, or at 0x40000000 or beyond on any other, has its
  addresses shifted a second time.

**Allocator** (`VeAlloc_proofs`).  For any page size, any reserved memory of whole pages and
any sizes.  `ve_alloc_free` leaves what `Coalesce` computes, a fold over a list of any
length.  The library's induction theorems cannot be used, for they take an operator as a
parameter; instead `Smallest` takes the least member of a set of numbers from the
well-foundedness of `<` (`WFMin`, `NatLessThanWellFounded`), `Induction` follows for sets,
`FoldExists` shows that the recursive function behind the fold exists for every length, and
`CoalesceSteps` gives the fold entry by entry.  With it, `CoalesceRow`: merging turns a row
of entries into a row over the same memory, without free neighbours and with the same used
entries.  `Inv` says that the list is such a row (`Row`, `NoFreeNeighbours`) and that the
virtual addresses of used entries do not overlap (`VirtApart`).

* `TilingKept`: `Spec => []Tiled`; `ShortageReal`: `Spec => []NoFalseShortage`, because a free
  run of the memory lies in one entry;
* `Translations`: `Spec => []TranslationsInverse` at every byte of every block, if the
  reserved memory does not begin at physical address 0 (`PhysNotNull`), which
  `ve_alloc_phy2vir` could not tell from its answer for no address;
* `PoolKept`: `Spec => PoolSpec`, the refinement of `MemoryPool`: a block given out is apart
  from the others, as two entries of a row are (`BlockApart`).

**Merging loops** (the same module, last part).  For lists of any length:

* `LoopsBegin`: `Spec => []MarkedCanArise`: with whichever entry marked as free, the
  allocator's list is one that `WalkInit` has, by `NoFreeNeighbours`.
* `DoubleFreeNeedsThree`: `WalkSpec => []TwiceOnlyOfThree`, and `LeavesMerged`:
  `WalkSpec => []ResultCoalesced`, whatever `virtAddr` reads in freed entries.  Both follow
  from `WalkInv`.  Only the entry just freed and the one on each side of it can be free
  neighbours, so there is one run of them, `v` to `e`, of three entries at most (`Run`); the
  inner loop takes entries out right behind `v`, and those that are out keep their own links.
  Therefore the links are, at every moment, the ring of all entries but for the gap behind `v`
  (`Ring`), and what was freed is `v + 1 .. v + r` in this order, after which `v + 2` may come
  again (`Taken`).  `Cursors` says how far the loops are: the outer one goes through the
  freed entries, each of which may be seen as free or as used.  The inner loop deletes the
  entry right behind `v`, or, from `v + 1`, the entry `v + 2` once more (`MergePlace`).  The second
  deletion changes no link, its neighbours having been joined already (`AgainLinks`), and
  only a size in freed memory (`AgainKeeps`).  At the end the ring without the gap is what
  `list_for_each_entry` lists (`RingLists`), and `CoalesceIs` says with the fold's induction that
  `Coalesce` gives the same.  Together, the loops do what `VeAlloc` says of them in one
  step; the walk counts sizes in entries, the allocator in bytes.

**Context** (`VencContext_proofs`).  For any numbers of frame slots, picture buffers and
rounds, every client and every failure:

* `DeviceFound`: `Spec => []RegisteredFound`; there is one node per codec, and one for every
  registration that was answered with success (`RegistryInv`);
* `NothingRemains`: `Spec => []NothingLeft`; the context's stage determines adapter and
  handle (`ContextInv`), the picture buffers their memory (`PictureInv`), and `AWJpecEnc`
  reaches its end only through a failed creation or `VideoEncDestroy` (`ClientInv`);
* `DeviceKept`: `Spec => DeviceSpec`, the refinement of `EncoderDevice`; that a frame is
  encoded once and in order is `FrameInv`: as many have been encoded as are finished;
* `StreamsCounted`: `Spec => []StreamsAccounted`.  A client that frees a stream which it never
  got takes one off the count, so the count can only be right because there is no unread
  stream when `VideoTest` and `AWJpecEnc` do so (`StreamInv`);
* `RoundsComplete`: `Spec => []RoundComplete`; `RoundFrames` and `RoundPictures` say for each
  of VideoTest's calls where the round's frame and its picture are, with a manager and
  without; the frame that comes back names the picture that was got, so that it is this
  one which is returned;
* `FileWritten`: `Spec => []FileComplete`; `Once` is a fold over the file, of which
  `OnceMore` says, with the same induction, what one stream more does.  `RoundFile` follows
  the round's stream from `encode` to the file: `outputBuffer` is the last stream of the
  file before, so that a round without one only repeats it, and a new one, being this
  round's, differs from it.

What stays with TLC:

* liveness (`EveryFrameHandedBack`, `EveryStreamGivenBack`, `LoopsEnd`), which the prover does
  not handle under fairness; every other property of a passing run is stated by a theorem;
* the two runs that are violated.

## 6. Not modelled, and why

* the device plugin: a binary, represented by external actions and by `EncoderDevice`;
* a DRAM that begins below the ION adapter's `MEM_OFFSET`: the subtraction would wrap
  around, and no address of such a block would mean anything;
* interrupts, performance settings, frequency, cache flushing: one ioctl each, without
  state of the library's own;
* `BitStreamCreate`'s failures and `BitStreamDestroy`: they leave no manager, and are called
  by the binary alone;
* a second `AllocateInputBuffer`, getting buffers while they are being allocated,
  returning a picture or a stream twice or in another order: uses outside the demo's;
  listed as hazards with the reason;
* parameters (`VideoEncSetParameter`, `GetParameter`, the header) and the cropping, EXIF and
  field-coding settings of the clients: handed through to the device, payload;
* which directory entries are plugins, `dlopen` and symbol names: text and the linker;
* the moves, splices and hash lists of `list.h`: nobody calls them;
* header files with types and register layouts only: `vencoder.h`, `video_enc_reg.h`, most
  of `ion.h`.  They hold a large share of the lines and no behaviour.

## 7. What is left

1. Several contexts over `VeRegisters` and `VideoEngine` in one model: today they share
   only the rule that a reset happens inside the lock or for the first user.
