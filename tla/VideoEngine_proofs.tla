-------------------------- MODULE VideoEngine_proofs --------------------------
(***************************************************************************)
(* The engine serves any finite number of contexts: the invariant that     *)
(* ties its reference count and the memory adapter's state to the steps    *)
(* the contexts are at.                                                    *)
(***************************************************************************)
EXTENDS VideoEngine, FiniteSetTheorems, TLAPS

\* The contexts between MemAdapterOpen and their own MemAdapterClose.
MemoryUsers == {c \in Contexts : pc[c] \in {"opened", "live", "uninit", "close"}}

\* Somebody has to close the memory adapter as long as it is open, and blocks
\* are mapped only while it is.
MemoryServesUsers ==
  /\ ve_fd => MemoryUsers # {}
  /\ ve_lst # {} => ve_fd

EngineInv == TypeOK /\ EngineServesUsers /\ MemoryServesUsers

\* The users are finitely many, and the count is 0 only without any.
LEMMA UsersFinite ==
  /\ IsFiniteSet(Users) /\ Cardinality(Users) \in Nat
  /\ Cardinality(Users) = 0 <=> Users = {}
<1>1. IsFiniteSet(Users)
  BY ContextsAssumption, FS_Subset DEF Users
<1> QED
  BY <1>1, FS_CardinalityType, FS_EmptySet

\* A step within VideoEncCreate or VideoEncDestroy, or between them, which
\* makes nobody a user nor ends anybody's use.
LEMMA SameUsers ==
  ASSUME TypeOK, NEW c \in Contexts, NEW step, step # "none",
         pc[c] # "none", Goto(c, step)
  PROVE  Users' = Users
BY DEF Users, Goto, TypeOK

LEMMA InitEngine == Init => EngineInv
<1> SUFFICES ASSUME Init PROVE EngineInv
  OBVIOUS
<1>1. Users = {}
  BY DEF Init, Users
<1> QED
  BY <1>1, UsersFinite DEF Init, EngineInv, TypeOK, EngineServesUsers, MemoryServesUsers

\* VideoEncCreate: the first user opens the device, every user is counted.
LEMMA CreateStep ==
  ASSUME EngineInv, NEW c \in Contexts, Create(c)
  PROVE  EngineInv'
<1> USE DEF EngineInv
<1>1. TypeOK'
  <2> DEFINE read == gVeRefCount > 0
  <2>1. read \in BOOLEAN
    OBVIOUS
  <2>2. ICVersion' = ICVersion \/ ICVersion' = [ICVersion EXCEPT ![c] = read]
    BY DEF Create, VeInitialize, VeInitializeFails, MemAdapterOpen,
       MemAdapterOpenFails, ContextCreated, ContextFails
  <2> HIDE DEF read
  <2>3. ICVersion' \in [Contexts -> BOOLEAN]
    BY <2>1, <2>2 DEF TypeOK
  <2>4. CASE VeInitialize(c) \/ VeInitializeFails(c)
    <3>1. gVeRefCount' \in Nat /\ resets' \in {0, 1}
      BY <2>4, SMT DEF TypeOK, VeInitialize, VeInitializeFails
    <3>2. UNCHANGED <<mem, own>>
      BY <2>4 DEF VeInitialize, VeInitializeFails
    <3>3. \/ UNCHANGED <<engine, gVeDriverFd>>
          \/ engine' = TRUE /\ (gVeDriverFd' = TRUE \/ gVeDriverFd' = FALSE)
      BY <2>4, Zenon DEF VeInitialize, VeInitializeFails
    <3>4. pc' = pc \/ pc' = [pc EXCEPT ![c] = "initialized"]
      BY <2>4 DEF VeInitialize, VeInitializeFails, Goto
    <3> QED
      BY <2>3, <3>1, <3>2, <3>3, <3>4 DEF TypeOK, mem
  <2>5. CASE MemAdapterOpen(c) \/ MemAdapterOpenFails(c)
    BY <2>3, <2>5 DEF TypeOK, MemAdapterOpen, MemAdapterOpenFails, Goto, ve, mem
  <2>6. CASE ContextCreated(c) \/ ContextFails(c)
    BY <2>3, <2>6 DEF TypeOK, ContextCreated, ContextFails, Goto, ve, mem
  <2> QED
    BY <2>4, <2>5, <2>6 DEF Create
<1>2. CASE VeInitialize(c)
  <2>1. Users' = Users \cup {c} /\ c \notin Users
    BY <1>2 DEF VeInitialize, Goto, Users, TypeOK
  <2>2. Cardinality(Users') = Cardinality(Users) + 1
    BY <2>1, UsersFinite, FS_AddElement
  <2>3. EngineServesUsers'
    BY <1>2, <2>1, <2>2, UsersFinite
       DEF VeInitialize, Goto, EngineServesUsers, TypeOK, FirstUser
  <2>4. MemoryServesUsers'
    BY <1>2 DEF VeInitialize, Goto, MemoryServesUsers, MemoryUsers, TypeOK, mem
  <2> QED
    BY <1>1, <2>3, <2>4
<1>3. CASE VeInitializeFails(c)
  <2>1. ~ gVeDriverFd /\ ~ gVeDriverFd' /\ Users = {} /\ Users' = Users
    BY <1>3, UsersFinite DEF VeInitializeFails, FirstUser, EngineServesUsers, Users
  <2> QED
    BY <1>1, <1>3, <2>1
       DEF VeInitializeFails, EngineServesUsers, MemoryServesUsers, MemoryUsers, mem
<1>4. CASE MemAdapterOpen(c) \/ MemAdapterOpenFails(c) \/ ContextCreated(c) \/ ContextFails(c)
  <2>1. Users' = Users
    BY <1>4, SameUsers
       DEF MemAdapterOpen, MemAdapterOpenFails, ContextCreated, ContextFails
  <2>2. c \in Users /\ gVeRefCount > 0
    BY <1>4, UsersFinite DEF MemAdapterOpen, MemAdapterOpenFails, ContextCreated,
       ContextFails, Users, EngineServesUsers
  <2>3. EngineServesUsers'
    BY <1>4, <2>1, <2>2 DEF MemAdapterOpen, MemAdapterOpenFails, ContextCreated,
       ContextFails, Goto, EngineServesUsers, TypeOK, ve
  <2>4. MemoryServesUsers'
    BY <1>4 DEF MemAdapterOpen, MemAdapterOpenFails, ContextCreated, ContextFails,
       Goto, MemoryServesUsers, MemoryUsers, TypeOK, mem
  <2> QED
    BY <1>1, <2>3, <2>4
<1> QED
  BY <1>2, <1>3, <1>4 DEF Create

\* Taking and giving back memory changes no user.
LEMMA UseStep ==
  ASSUME EngineInv, NEW c \in Contexts, Use(c)
  PROVE  EngineInv'
<1> USE DEF EngineInv
<1>1. UNCHANGED <<ve, ve_fd, pc, ICVersion>>
  BY DEF Use, MemAdapterPalloc, MemAdapterPfree
<1>2. TypeOK'
  BY <1>1 DEF TypeOK, Use, MemAdapterPalloc, MemAdapterPfree, ve
<1>3. ve_lst' # {} => ve_fd'
  BY DEF Use, MemAdapterPalloc, MemAdapterPfree, MemoryServesUsers
<1> QED
  BY <1>1, <1>2, <1>3
     DEF EngineServesUsers, MemoryServesUsers, Users, MemoryUsers, ve

\* VideoEncDestroy: whoever used memory closes it, the last user the engine.
LEMMA DestroyStep ==
  ASSUME EngineInv, NEW c \in Contexts, Destroy(c)
  PROVE  EngineInv'
<1> USE DEF EngineInv
<1>1. TypeOK'
  <2>1. CASE VideoEncDestroy(c) \/ Uninitialized(c) \/ MemAdapterClose(c)
    BY <2>1 DEF TypeOK, VideoEncDestroy, Uninitialized, MemAdapterClose, Goto, ve, mem
  <2>2. CASE VeRelease(c)
    <3>1. /\ gVeRefCount' \in Nat
          /\ UNCHANGED <<resets, mem, own>>
          /\ \/ UNCHANGED <<engine, gVeDriverFd>>
             \/ engine' = FALSE /\ gVeDriverFd' = FALSE
      BY <2>2 DEF TypeOK, VeRelease, ve
    <3>2. /\ pc' = [pc EXCEPT ![c] = "none"]
          /\ ICVersion' = [ICVersion EXCEPT ![c] = FALSE]
      BY <2>2 DEF VeRelease, Goto
    <3> QED
      BY <3>1, <3>2 DEF TypeOK, mem
  <2> QED
    BY <2>1, <2>2 DEF Destroy
<1>2. CASE VideoEncDestroy(c) \/ Uninitialized(c) \/ MemAdapterClose(c)
  <2>1. Users' = Users
    BY <1>2, SameUsers DEF VideoEncDestroy, Uninitialized, MemAdapterClose
  <2>2. EngineServesUsers'
    BY <1>2, <2>1 DEF VideoEncDestroy, Uninitialized, MemAdapterClose, Goto,
       EngineServesUsers, TypeOK, ve
  <2>3. MemoryServesUsers'
    BY <1>2 DEF VideoEncDestroy, Uninitialized, MemAdapterClose, Goto,
       MemoryServesUsers, MemoryUsers, TypeOK, mem
  <2> QED
    BY <1>1, <2>2, <2>3
<1>3. CASE VeRelease(c)
  <2>1. Users' = Users \ {c} /\ c \in Users
    BY <1>3 DEF VeRelease, Goto, Users, TypeOK
  <2>2. Cardinality(Users') = Cardinality(Users) - 1
    BY <2>1, UsersFinite, FS_RemoveElement
  <2>3. gVeRefCount > 0 /\ gVeDriverFd
    BY <2>1, UsersFinite DEF EngineServesUsers
  <2>4. Cardinality(Users') = 0 <=> Users' = {}
    BY <2>1, UsersFinite, FS_RemoveElement, FS_EmptySet
  <2>5. EngineServesUsers'
    <3>1. ~ (gVeRefCount <= 0)
      BY <2>3 DEF TypeOK
    <3>2. /\ gVeRefCount' = gVeRefCount - 1
          /\ gVeRefCount = 1 => engine' = FALSE /\ gVeDriverFd' = FALSE
          /\ gVeRefCount # 1 => engine' = engine /\ gVeDriverFd' = gVeDriverFd
      BY <1>3, <2>3, <3>1, Zenon DEF VeRelease, LastUserLeaves
    <3>3. gVeRefCount = 1 <=> Users' = {}
      <4>1. gVeRefCount = Cardinality(Users)
        BY DEF EngineServesUsers
      <4> QED
        BY <2>2, <2>4, <4>1, UsersFinite
    <3>4. \A d \in Contexts : pc'[d] \in {"live", "uninit"} => ICVersion'[d]
      BY <1>3 DEF VeRelease, Goto, EngineServesUsers, TypeOK
    <3>5. gVeRefCount' = Cardinality(Users')
      BY <2>2, <3>2 DEF EngineServesUsers
    <3>6. (gVeDriverFd' <=> Users' # {}) /\ (gVeDriverFd' => engine')
      <4>1. CASE Users' = {}
        BY <3>2, <3>3, <4>1, Zenon
      <4>2. CASE Users' # {}
        <5>1. engine' = engine /\ gVeDriverFd' = gVeDriverFd
          BY <3>2, <3>3, <4>2, Zenon
        <5> QED
          BY <2>3, <4>2, <5>1, Zenon DEF EngineServesUsers
      <4> QED
        BY <4>1, <4>2
    <3> QED
      BY <3>4, <3>5, <3>6, Zenon DEF EngineServesUsers
  <2>6. MemoryServesUsers'
    BY <1>3 DEF VeRelease, Goto, MemoryServesUsers, MemoryUsers, TypeOK, mem
  <2> QED
    BY <1>1, <2>5, <2>6
<1> QED
  BY <1>2, <1>3 DEF Destroy

LEMMA EngineInvariant == Spec => []EngineInv
<1>1. EngineInv /\ [Next]_vars => EngineInv'
  <2> SUFFICES ASSUME EngineInv, [Next]_vars PROVE EngineInv'
    OBVIOUS
  <2>1. CASE Next
    BY <2>1, CreateStep, UseStep, DestroyStep DEF Next
  <2>2. CASE UNCHANGED vars
    BY <2>2 DEF EngineInv, TypeOK, EngineServesUsers, MemoryServesUsers, Users,
       MemoryUsers, vars, ve, mem
  <2> QED
    BY <2>1, <2>2
<1> QED
  BY <1>1, InitEngine, PTL DEF Spec

\* The engine is open exactly while it has users, whose number it knows, and when
\* the last context has gone, however creations failed before, nothing is open.
THEOREM EngineSafe == Spec => [](EngineServesUsers /\ NothingLeftOpen)
<1>1. EngineInv => NothingLeftOpen
  BY DEF EngineInv, EngineServesUsers, MemoryServesUsers, NothingLeftOpen, Users, MemoryUsers
<1> QED
  BY <1>1, EngineInvariant, PTL DEF EngineInv

\* Only a first user resets the engine, and then nobody else uses it.
THEOREM ResetAlone == Spec => EngineResetAlone
<1>1. EngineInv /\ [Next]_vars => [resets' # resets => Users = {}]_vars
  <2> SUFFICES ASSUME EngineInv, Next, resets' # resets PROVE Users = {}
    OBVIOUS
  <2>1. gVeRefCount = 0
    BY DEF Next, Create, Use, Destroy, VeInitialize, VeInitializeFails, MemAdapterOpen,
       MemAdapterOpenFails, ContextCreated, ContextFails, MemAdapterPalloc,
       MemAdapterPfree, VideoEncDestroy, Uninitialized, MemAdapterClose, VeRelease,
       FirstUser, ve
  <2> QED
    BY <2>1, UsersFinite DEF EngineInv, EngineServesUsers
<1> QED
  BY <1>1, EngineInvariant, PTL DEF Spec, EngineResetAlone
===============================================================================
