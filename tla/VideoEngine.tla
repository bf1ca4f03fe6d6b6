----------------------------- MODULE VideoEngine -----------------------------
(***************************************************************************)
(* What encoder contexts share: the video engine (common/ve.c) and the     *)
(* memory adapter (common/ve_alloc.c) behind vencoder/EncAdapter.c, under  *)
(* VideoEncCreate and VideoEncDestroy (vencoder/vencoder.c) of several     *)
(* contexts in threads of their own.                                       *)
(*                                                                         *)
(* The engine counts its users, the memory adapter does not.  A function   *)
(* of either holds its mutex from beginning to end and is one step; the    *)
(* functions of EncAdapter and vencoder that call them are several.  Which *)
(* part of the memory a block occupies is VeAlloc's subject; here a block  *)
(* is only mapped or not.                                                  *)
(***************************************************************************)
EXTENDS Integers, FiniteSets

CONSTANTS Contexts,  \* encoder contexts, each used by one thread
          Blocks     \* what the memory adapter can map at a time

ASSUME ContextsAssumption == IsFiniteSet(Contexts)

VARIABLES
  gVeRefCount, gVeDriverFd,  \* ve.c: users, and whether the device is open
  engine,       \* kernel: whether this process has requested the engine
  resets,       \* kernel: how often the engine was reset, modulo 2
  ve_fd,        \* ve_alloc.c: whether the device is open
  ve_lst,       \* ve_alloc.c: the blocks that are mapped
  pc,           \* where each context's thread is
  own,          \* the blocks each context was given and has not freed
  ICVersion     \* VencContext: whether it was read from the registers

ve == <<gVeRefCount, gVeDriverFd, engine, resets>>
mem == <<ve_fd, ve_lst>>
vars == <<ve, mem, pc, own, ICVersion>>

Init ==
  /\ gVeRefCount = 0
  /\ gVeDriverFd = FALSE
  /\ engine = FALSE
  /\ resets = 0
  /\ ve_fd = FALSE
  /\ ve_lst = {}
  /\ pc = [c \in Contexts |-> "none"]
  /\ own = [c \in Contexts |-> {}]
  /\ ICVersion = [c \in Contexts |-> FALSE]

Goto(c, step) == pc' = [pc EXCEPT ![c] = step]

-----------------------------------------------------------------------------
(* VideoEncCreate                                                          *)

\* Mutant: the device is set up for every user.
EveryUser == TRUE

FirstUser == gVeRefCount = 0

\* VeInitialize of EncAdapterInitialize.  The first user opens the device,
\* requests the engine, maps the registers and resets the engine. Whether the
\* mapping succeeded is not looked at (ve.c:83); when it did not, VeReset's access
\* ends the process at once, and there is no state after it.
VeInitialize(c) ==
  /\ pc[c] = "none"
  /\ gVeRefCount >= 0
  /\ gVeRefCount' = gVeRefCount + 1
  /\ IF FirstUser
       THEN /\ gVeDriverFd' = TRUE
            /\ engine' = TRUE
            /\ resets' = 1 - resets
       ELSE UNCHANGED <<gVeDriverFd, engine, resets>>
  /\ Goto(c, "initialized")
  /\ UNCHANGED <<mem, own, ICVersion>>

\* It fails after IOCTL_ENGINE_REQ: the device is closed again, but
\* IOCTL_ENGINE_REL is not called.  Failures before that change nothing.
VeInitializeFails(c) ==
  /\ pc[c] = "none"
  /\ FirstUser
  /\ engine' = TRUE
  /\ gVeDriverFd' = FALSE
  /\ UNCHANGED <<gVeRefCount, resets, mem, pc, own, ICVersion>>

\* MemAdapterOpen of EncAdapterInitialize: a device that is open is enough.
MemAdapterOpen(c) ==
  /\ pc[c] = "initialized"
  /\ ve_fd' = TRUE
  /\ Goto(c, "opened")
  /\ UNCHANGED <<ve, ve_lst, own, ICVersion>>

MemAdapterOpenFails(c) ==
  /\ pc[c] = "initialized"
  /\ ~ ve_fd
  /\ Goto(c, "release")
  /\ UNCHANGED <<ve, mem, own, ICVersion>>

\* EncAdapterGetICVersion reads gVeRefCount without its mutex; the device for
\* the codec exists and its open succeeds.
ContextCreated(c) ==
  /\ pc[c] = "opened"
  /\ ICVersion' = [ICVersion EXCEPT ![c] = gVeRefCount > 0]
  /\ Goto(c, "live")
  /\ UNCHANGED <<ve, mem, own>>

\* Mutant: VideoEncCreate calls VeRelease only.
ContextFailsLeaks(c) ==
  /\ pc[c] = "opened"
  /\ Goto(c, "release")
  /\ UNCHANGED <<ve, mem, own, ICVersion>>

\* No memory for the context, no such device, or its open fails.
ContextFails(c) ==
  /\ pc[c] = "opened"
  /\ Goto(c, "close")
  /\ UNCHANGED <<ve, mem, own, ICVersion>>

-----------------------------------------------------------------------------
(* The life of a context.                                                  *)

\* MemAdapterPalloc; it returns NULL when the device is closed.
MemAdapterPalloc(c) ==
  /\ pc[c] = "live"
  /\ ve_fd
  /\ \E b \in Blocks \ ve_lst :
       /\ ve_lst' = ve_lst \cup {b}
       /\ own' = [own EXCEPT ![c] = @ \cup {b}]
  /\ UNCHANGED <<ve, ve_fd, pc, ICVersion>>

\* MemAdapterPfree; it does nothing when the device is closed or there is no
\* such block.
MemAdapterPfree(c, b) ==
  /\ pc[c] \in {"live", "uninit"}
  /\ b \in own[c]
  /\ ve_lst' = IF ve_fd THEN ve_lst \ {b} ELSE ve_lst
  /\ own' = [own EXCEPT ![c] = @ \ {b}]
  /\ UNCHANGED <<ve, ve_fd, pc, ICVersion>>

\* VideoEncDestroy frees what the context has (VideoEncUnInit and the device's
\* close) before it lets go of the adapter.
VideoEncDestroy(c) ==
  /\ pc[c] = "live"
  /\ Goto(c, "uninit")
  /\ UNCHANGED <<ve, mem, own, ICVersion>>

Uninitialized(c) ==
  /\ pc[c] = "uninit"
  /\ own[c] = {}
  /\ Goto(c, "close")
  /\ UNCHANGED <<ve, mem, own, ICVersion>>

-----------------------------------------------------------------------------
(* EncAdpaterRelease                                                       *)

\* MemAdapterClose unmaps everything, whoever uses it.
MemAdapterClose(c) ==
  /\ pc[c] = "close"
  /\ ve_fd' = FALSE
  /\ ve_lst' = IF ve_fd THEN {} ELSE ve_lst
  /\ Goto(c, "release")
  /\ UNCHANGED <<ve, own, ICVersion>>

\* Mutant: the device is closed by every user.
AnyUserLeaves == TRUE

LastUserLeaves == gVeRefCount = 1

\* It returns at once when the count is not positive.
VeRelease(c) ==
  /\ pc[c] = "release"
  /\ IF gVeRefCount <= 0
       THEN UNCHANGED ve
       ELSE /\ gVeRefCount' = gVeRefCount - 1
            /\ IF LastUserLeaves /\ gVeDriverFd
                 THEN engine' = FALSE /\ gVeDriverFd' = FALSE
                 ELSE UNCHANGED <<engine, gVeDriverFd>>
            /\ UNCHANGED resets
  /\ Goto(c, "none")
  /\ ICVersion' = [ICVersion EXCEPT ![c] = FALSE]
  /\ UNCHANGED <<mem, own>>

-----------------------------------------------------------------------------

Create(c) ==
  \/ VeInitialize(c) \/ VeInitializeFails(c)
  \/ MemAdapterOpen(c) \/ MemAdapterOpenFails(c)
  \/ ContextCreated(c) \/ ContextFails(c)
Use(c) == MemAdapterPalloc(c) \/ \E b \in Blocks : MemAdapterPfree(c, b)
Destroy(c) ==
  VideoEncDestroy(c) \/ Uninitialized(c) \/ MemAdapterClose(c) \/ VeRelease(c)

Next == \E c \in Contexts : Create(c) \/ Use(c) \/ Destroy(c)

Spec == Init /\ [][Next]_vars

-----------------------------------------------------------------------------
(* Properties.                                                             *)

\* The contexts between VeInitialize and their own VeRelease.
Users == {c \in Contexts : pc[c] # "none"}

\* Every thread is at a step of VideoEncCreate, VideoEncDestroy or between.
TypeOK ==
  /\ gVeRefCount \in Nat
  /\ gVeDriverFd \in BOOLEAN /\ engine \in BOOLEAN /\ ve_fd \in BOOLEAN
  /\ resets \in {0, 1}
  /\ ve_lst \subseteq Blocks
  /\ pc \in [Contexts -> {"none", "initialized", "opened", "live", "uninit", "close",
                          "release"}]
  /\ own \in [Contexts -> SUBSET Blocks]
  /\ ICVersion \in [Contexts -> BOOLEAN]

\* The reference count is the number of contexts that VeInitialize has served,
\* the registers are mapped exactly while there are any, and each of them has
\* read the chip version although it read gVeRefCount without the mutex.
EngineServesUsers ==
  /\ gVeRefCount = Cardinality(Users)
  /\ gVeDriverFd <=> Users # {}
  /\ gVeDriverFd => engine
  /\ \A c \in Contexts : pc[c] \in {"live", "uninit"} => ICVersion[c]

\* Initialization by one context never resets the engine under another one.
EngineResetAlone == [][resets' # resets => Users = {}]_vars

\* However creation failed and whatever was destroyed in between: when no
\* context is left, nothing is open or mapped.
NothingLeftOpen ==
  Users = {} => ~ gVeDriverFd /\ ~ ve_fd /\ ve_lst = {}

\* "opened" (ve_alloc.c:59): a live context, to which MemAdapterOpen has returned
\* success, has open memory until its own destruction closes it.
MemoryStaysOpen == \A c \in Contexts : pc[c] \in {"live", "uninit"} => ve_fd
=============================================================================
