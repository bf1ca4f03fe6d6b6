--------------------------- MODULE IonAlloc_proofs ---------------------------
(***************************************************************************)
(* Theorems about the ION adapter, for any memory, any sizes and any       *)
(* handles, however calls fail and clients are closed and opened again.    *)
(***************************************************************************)
EXTENDS IonAlloc, TLAPS

\* A buffer the heap may have given: whole pages of the DRAM.
Block == {b \in [phys : Nat, size : Nat] :
            /\ b.size > 0
            /\ b.phys > MEM_OFFSET}
Entry == [virtAddr : Nat \ {0}, physAddr : Nat, handle : Handle, fd : Block]

Mapping(e) == [start |-> e.virtAddr, buffer |-> e.fd]
VirtApart(e, f) == Apart(e.virtAddr, e.fd.size, f.virtAddr, f.fd.size)
PhysApart(b, c) == Apart(b.phys, b.size, c.phys, c.size)

Types ==
  /\ ion_fd \in BOOLEAN
  /\ pc \in {"idle", "map", "mmap", "phys"}
  /\ pc # "idle" => ion_fd
  /\ im_lst \subseteq Entry
  /\ \A e \in im_lst : e.physAddr = e.fd.phys - MEM_OFFSET
  /\ im \in [virtAddr : Nat, physAddr : Nat, handle : Handle \cup {NULL},
             fd : [phys : Nat, size : Nat]]
  /\ pc # "idle" => im.handle \in Handle /\ im.fd \in Block
  /\ pc = "phys" => im.virtAddr # NULL
  /\ pc = "idle" => im = NoEntry

\* The blocks on the list, and the one being made, have nothing in common.
Disjoint ==
  /\ \A e, f \in im_lst : e # f => VirtApart(e, f) /\ PhysApart(e.fd, f.fd)
  /\ \A e \in im_lst :
       /\ pc # "idle" => PhysApart(im.fd, e.fd)
       /\ pc = "phys" => VirtApart(im, e)

\* What the kernel keeps is what the list and the call in progress know of.
Kept ==
  /\ maps = {Mapping(e) : e \in im_lst} \cup (IF pc = "phys" THEN {Mapping(im)} ELSE {})
  /\ fds = {e.fd : e \in im_lst} \cup (IF pc \in {"mmap", "phys"} THEN {im.fd} ELSE {})
  /\ \A h \in handles :
       \/ \E e \in im_lst : h[2] = e.fd /\ h[1] = e.handle
       \/ pc # "idle" /\ h[2] = im.fd /\ h[1] = im.handle

HeldListed == \A v \in held : \E e \in im_lst : e.virtAddr = v

Inv == Types /\ Disjoint /\ Kept /\ HeldListed

-----------------------------------------------------------------------------
(* Sizes and places.                                                       *)

\* What is asked for becomes at least one page, and whole ones.
LEMMA Pages ==
  ASSUME NEW P \in Nat \ {0}, NEW s \in Nat \ {0}
  PROVE  (s + P - 1) \div P \in Nat \ {0}
OBVIOUS

LEMMA Times ==
  ASSUME NEW P \in Nat \ {0}, NEW q \in Nat \ {0}
  PROVE  q * P \in Nat /\ q * P > 0
OBVIOUS

\* A buffer of the heap is a block.
LEMMA HeapGivesBlocks ==
  ASSUME NEW asked \in Sizes, NEW b \in [phys : DramPages, size : {PageAligned(asked)}]
  PROVE  b \in Block
<1> USE IonAssumption
<1> DEFINE q == (asked + PAGE_SIZE - 1) \div PAGE_SIZE
<1>1. q \in Nat \ {0}
  <2>1. asked \in Nat \ {0}
    OBVIOUS
  <2> QED
    BY <2>1, Pages
<1>2. b.size = q * PAGE_SIZE
  BY DEF PageAligned
<1> HIDE DEF q
<1>3. b.size \in Nat /\ b.size > 0
  BY <1>1, <1>2, Times
<1>4. b.phys \in Nat /\ b.phys > MEM_OFFSET
  OBVIOUS
<1>5. b = [phys |-> b.phys, size |-> b.size]
  OBVIOUS
<1> QED
  BY <1>3, <1>4, <1>5 DEF Block

\* Blocks that have nothing in common are different, and so are the places of
\* entries on the list.
LEMMA ApartDiffers ==
  ASSUME NEW b \in Block, NEW c \in Block, PhysApart(b, c)
  PROVE  b # c /\ PhysApart(c, b)
BY DEF Block, PhysApart, Apart

LEMMA VirtApartDiffers ==
  ASSUME NEW e \in Entry, NEW f \in Entry, VirtApart(e, f)
  PROVE  e.virtAddr # f.virtAddr /\ VirtApart(f, e)
BY DEF Entry, Block, VirtApart, Apart

\* On the list an address, a buffer or a mapping is one entry's.
LEMMA EntriesDiffer ==
  ASSUME Types, Disjoint, NEW e \in im_lst, NEW f \in im_lst, e # f
  PROVE  /\ e.virtAddr # f.virtAddr /\ e.fd # f.fd
         /\ Mapping(e) # Mapping(f)
<1>1. e \in Entry /\ f \in Entry /\ e.fd \in Block /\ f.fd \in Block
  BY DEF Types, Entry
<1>2. e.virtAddr # f.virtAddr
  BY <1>1, VirtApartDiffers DEF Disjoint
<1>3. e.fd # f.fd
  BY <1>1, ApartDiffers DEF Disjoint
<1>4. Mapping(e) # Mapping(f)
  BY <1>2 DEF Mapping
<1> QED
  BY <1>2, <1>3, <1>4

-----------------------------------------------------------------------------
(* Every step keeps the invariant.                                         *)

LEMMA InitInv == Init => Inv
<1> USE IonAssumption
<1> SUFFICES ASSUME Init PROVE Inv
  OBVIOUS
<1>1. Types
  BY DEF Init, Types, NoEntry, NoBuffer, NULL
<1>2. Disjoint /\ Kept /\ HeldListed
  BY DEF Init, Disjoint, Kept, HeldListed
<1> QED
  BY <1>1, <1>2 DEF Inv

LEMMA OpenInv == Inv /\ ion_alloc_open => Inv'
<1> SUFFICES ASSUME Inv, ion_alloc_open PROVE Inv'
  OBVIOUS
<1>1. /\ pc' = pc /\ im' = im /\ im_lst' = im_lst /\ held' = held
      /\ handles' = handles /\ fds' = fds /\ maps' = maps
      /\ pc = "idle" /\ ion_fd' = TRUE
  BY DEF ion_alloc_open, kernel
<1> QED
  BY <1>1 DEF Inv, Types, Disjoint, Kept, HeldListed

\* Nothing that is kept refers to a handle, but for handles.
LEMMA CloseInv == Inv /\ ion_alloc_close => Inv'
<1> SUFFICES ASSUME Inv, ion_alloc_close PROVE Inv'
  OBVIOUS
<1>1. /\ pc' = pc /\ im' = im /\ im_lst' = im_lst /\ held' = held
      /\ handles' = {} /\ fds' = fds /\ maps' = maps
      /\ pc = "idle" /\ ion_fd' = FALSE
  BY DEF ion_alloc_close
<1> QED
  BY <1>1 DEF Inv, Types, Disjoint, Kept, HeldListed

LEMMA AllocInv ==
  ASSUME Inv, NEW asked \in Sizes, IocAlloc(asked)
  PROVE  Inv'
<1> USE DEF Inv
<1>1. PICK h \in Handle, b \in [phys : DramPages, size : {PageAligned(asked)}] :
        /\ Fits(b)
        /\ \A l \in Live : Apart(b.phys, b.size, l.phys, l.size)
        /\ handles' = handles \cup {<<h, b>>}
        /\ im' = [NoEntry EXCEPT !.handle = h, !.fd = b]
  BY DEF IocAlloc
<1>2. /\ pc = "idle" /\ pc' = "map" /\ ion_fd = TRUE /\ ion_fd' = ion_fd
      /\ im_lst' = im_lst /\ fds' = fds /\ maps' = maps /\ held' = held
  BY DEF IocAlloc, Types
<1>3. b \in Block
  BY <1>1, HeapGivesBlocks
<1>4. /\ im'.handle = h /\ im'.fd = b
      /\ im' \in [virtAddr : Nat, physAddr : Nat, handle : Handle \cup {NULL},
                  fd : [phys : Nat, size : Nat]]
  BY <1>1, <1>3 DEF NoEntry, NULL, Block
<1>5. \A e \in im_lst : PhysApart(b, e.fd)
  <2>1. \A e \in im_lst : e.fd \in Live
    BY DEF Kept, Live
  <2> QED
    BY <1>1, <2>1 DEF PhysApart
<1>6. Types'
  BY <1>2, <1>3, <1>4 DEF Types
<1>7. Disjoint'
  BY <1>2, <1>4, <1>5 DEF Disjoint
<1>8. Kept'
  <2>1. \A g \in handles' :
          \/ \E e \in im_lst' : g[2] = e.fd /\ g[1] = e.handle
          \/ g[2] = im'.fd /\ g[1] = im'.handle
    BY <1>1, <1>2, <1>4 DEF Kept
  <2> QED
    BY <1>2, <2>1 DEF Kept
<1> QED
  BY <1>2, <1>6, <1>7, <1>8 DEF HeldListed

LEMMA MapInv == Inv /\ IocMap => Inv'
<1> SUFFICES ASSUME Inv, IocMap PROVE Inv'
  OBVIOUS
<1>1. /\ pc = "map" /\ pc' = "mmap" /\ im' = im /\ im_lst' = im_lst /\ held' = held
      /\ handles' = handles /\ fds' = fds \cup {im.fd} /\ maps' = maps /\ ion_fd' = ion_fd
  BY DEF IocMap
<1>2. Types' /\ Disjoint' /\ HeldListed'
  BY <1>1 DEF Inv, Types, Disjoint, HeldListed
<1>3. Kept'
  BY <1>1 DEF Inv, Kept
<1> QED
  BY <1>2, <1>3 DEF Inv

\* What is undone is exactly what the call in progress has made.
LEMMA UndoInv ==
  ASSUME Inv, pc # "idle", im' = NoEntry, pc' = "idle",
         handles' = IocFree(im.handle),
         fds' = fds \ {im.fd},
         maps' = IF pc = "phys" THEN Unmapped(im) ELSE maps,
         UNCHANGED <<ion_fd, im_lst, held>>
  PROVE  Inv'
<1> USE DEF Inv
<1>1. \A e \in im_lst :
        /\ e.fd # im.fd
        /\ pc = "phys" => e.virtAddr # im.virtAddr
  <2> TAKE e \in im_lst
  <2>1. e \in Entry /\ e.fd \in Block /\ im.fd \in Block
    BY DEF Types, Entry
  <2>2. e.fd # im.fd
    BY <2>1, ApartDiffers DEF Disjoint
  <2>3. pc = "phys" => e.virtAddr # im.virtAddr
    BY <2>1 DEF Disjoint, VirtApart, Apart, Types, Entry, Block
  <2> QED
    BY <2>2, <2>3
<1>2. Types'
  BY IonAssumption DEF Types, NoEntry, NoBuffer, NULL
<1>3. Disjoint' /\ HeldListed'
  BY DEF Disjoint, HeldListed
<1>4. Kept'
  <2>1. maps' = {Mapping(e) : e \in im_lst}
    BY <1>1 DEF Kept, Unmapped, Mapping
  <2>2. fds' = {e.fd : e \in im_lst}
    BY <1>1 DEF Kept
  <2>3. \A h \in handles' : \E e \in im_lst : h[2] = e.fd /\ h[1] = e.handle
    BY DEF Kept, IocFree
  <2> QED
    BY <2>1, <2>2, <2>3 DEF Kept
<1> QED
  BY <1>2, <1>3, <1>4

LEMMA FailuresInv == Inv /\ (IocMapFails \/ MmapFails \/ IocPhysAddrFails) => Inv'
<1> SUFFICES ASSUME Inv, IocMapFails \/ MmapFails \/ IocPhysAddrFails PROVE Inv'
  OBVIOUS
<1>1. CASE IocMapFails
  <2>1. pc = "map" /\ \A e \in im_lst : PhysApart(im.fd, e.fd)
    BY <1>1 DEF IocMapFails, Inv, Disjoint
  <2>2. im.fd \notin fds
    BY <2>1, ApartDiffers DEF Inv, Kept, Types, Entry
  <2> QED
    BY <1>1, <2>1, <2>2, UndoInv DEF IocMapFails
<1>2. CASE MmapFails
  BY <1>2, UndoInv DEF MmapFails
<1>3. CASE IocPhysAddrFails
  BY <1>3, UndoInv DEF IocPhysAddrFails
<1> QED
  BY <1>1, <1>2, <1>3

LEMMA MmapInv == Inv /\ Mmap => Inv'
<1> SUFFICES ASSUME Inv, Mmap PROVE Inv'
  OBVIOUS
<1> USE DEF Inv
<1>1. PICK v \in VirtPages :
        /\ \A m \in maps : Apart(v, im.fd.size, m.start, m.buffer.size)
        /\ maps' = maps \cup {[start |-> v, buffer |-> im.fd]}
        /\ im' = [im EXCEPT !.virtAddr = v]
  BY DEF Mmap
<1>2. /\ pc = "mmap" /\ pc' = "phys" /\ im_lst' = im_lst /\ held' = held
      /\ handles' = handles /\ fds' = fds /\ ion_fd' = ion_fd
  BY DEF Mmap
<1>3. /\ v \in Nat \ {0}
      /\ im'.virtAddr = v /\ im'.fd = im.fd /\ im'.handle = im.handle
      /\ im' \in [virtAddr : Nat, physAddr : Nat, handle : Handle \cup {NULL},
                  fd : [phys : Nat, size : Nat]]
  BY <1>1, IonAssumption DEF Types
<1>4. \A e \in im_lst : Apart(v, im.fd.size, e.virtAddr, e.fd.size)
  <2>1. \A e \in im_lst : Mapping(e) \in maps
    BY DEF Kept
  <2> QED
    BY <1>1, <2>1 DEF Mapping
<1>5. Types'
  BY <1>2, <1>3 DEF Types, NULL
<1>6. Disjoint'
  BY <1>2, <1>3, <1>4 DEF Disjoint, VirtApart
<1>7. Kept'
  <2>1. maps' = {Mapping(e) : e \in im_lst} \cup {Mapping(im')}
    BY <1>1, <1>2, <1>3 DEF Kept, Mapping
  <2> QED
    BY <1>2, <1>3, <2>1 DEF Kept
<1> QED
  BY <1>2, <1>5, <1>6, <1>7 DEF HeldListed

LEMMA PhysAddrInv == Inv /\ IocPhysAddr => Inv'
<1> SUFFICES ASSUME Inv, IocPhysAddr PROVE Inv'
  OBVIOUS
<1> USE DEF Inv
<1> DEFINE new == [im EXCEPT !.physAddr = im.fd.phys - MEM_OFFSET]
<1>1. /\ pc = "phys" /\ pc' = "idle" /\ im_lst' = im_lst \cup {new}
      /\ held' = held \cup {im.virtAddr} /\ im' = NoEntry
      /\ handles' = handles /\ fds' = fds /\ maps' = maps /\ ion_fd' = ion_fd
  BY DEF IocPhysAddr, kernel
<1>2. /\ new \in Entry /\ new.physAddr = new.fd.phys - MEM_OFFSET
      /\ new.fd = im.fd /\ new.virtAddr = im.virtAddr /\ new.handle = im.handle
  BY <1>1, IonAssumption DEF Types, Entry, Block, NULL
<1>3. Mapping(new) = Mapping(im) /\ \A e \in im_lst : VirtApart(new, e) /\ PhysApart(new.fd, e.fd)
  BY <1>1, <1>2 DEF Mapping, Disjoint, VirtApart
<1> HIDE DEF new
<1>4. Types'
  BY <1>1, <1>2, IonAssumption DEF Types, NoEntry, NoBuffer, NULL
<1>5. Disjoint'
  <2>1. \A e \in im_lst : VirtApart(e, new) /\ PhysApart(e.fd, new.fd)
    BY <1>2, <1>3, ApartDiffers, VirtApartDiffers DEF Types, Entry
  <2> QED
    BY <1>1, <1>3, <2>1 DEF Disjoint
<1>6. Kept'
  <2>1. maps' = {Mapping(e) : e \in im_lst'}
    BY <1>1, <1>3 DEF Kept
  <2>2. fds' = {e.fd : e \in im_lst'}
    BY <1>1, <1>2 DEF Kept
  <2>3. \A h \in handles' : \E e \in im_lst' : h[2] = e.fd /\ h[1] = e.handle
    BY <1>1, <1>2 DEF Kept
  <2> QED
    BY <1>1, <2>1, <2>2, <2>3 DEF Kept
<1>7. HeldListed'
  BY <1>1, <1>2 DEF HeldListed
<1> QED
  BY <1>4, <1>5, <1>6, <1>7

\* The entry that goes takes its own mapping, descriptor and handle along, and
\* of a handle that it had from an earlier client nobody else's buffer depends.
LEMMA FreeInv ==
  ASSUME Inv, NEW ptr \in held, ion_alloc_free(ptr)
  PROVE  Inv'
<1> USE DEF Inv
<1>1. /\ pc = "idle" /\ pc' = pc /\ im' = im /\ ion_fd' = ion_fd /\ held' = held \ {ptr}
  BY DEF ion_alloc_free
<1>2. CASE UNCHANGED <<im_lst, kernel>>
  BY <1>1, <1>2 DEF kernel, Types, Disjoint, Kept, HeldListed
<1>3. ASSUME NEW entry \in im_lst, entry.virtAddr = ptr,
             im_lst' = im_lst \ {entry}, maps' = Unmapped(entry),
             fds' = fds \ {entry.fd}, handles' = IocFree(entry.handle)
      PROVE  Inv'
  <2>1. \A e \in im_lst \ {entry} :
          e.virtAddr # entry.virtAddr /\ e.fd # entry.fd
    BY EntriesDiffer
  <2>2. Types' /\ Disjoint'
    BY <1>1, <1>3 DEF Types, Disjoint
  <2>3. Kept'
    <3>1. maps' = {Mapping(e) : e \in im_lst'}
      BY <1>1, <1>3, <2>1 DEF Kept, Unmapped, Mapping
    <3>2. fds' = {e.fd : e \in im_lst'}
      BY <1>1, <1>3, <2>1 DEF Kept
    <3>3. \A h \in handles' : \E e \in im_lst' : h[2] = e.fd /\ h[1] = e.handle
      BY <1>1, <1>3 DEF Kept, IocFree
    <3> QED
      BY <1>1, <3>1, <3>2, <3>3 DEF Kept
  <2>4. HeldListed'
    BY <1>1, <1>3 DEF HeldListed
  <2> QED
    BY <2>2, <2>3, <2>4
<1> QED
  BY <1>2, <1>3 DEF ion_alloc_free

LEMMA StepInv == Inv /\ [Next]_vars => Inv'
<1> SUFFICES ASSUME Inv, [Next]_vars PROVE Inv'
  OBVIOUS
<1>1. CASE UNCHANGED vars
  BY <1>1 DEF vars, kernel, Inv, Types, Disjoint, Kept, HeldListed
<1>2. CASE ion_alloc_alloc
  BY <1>2, AllocInv, MapInv, MmapInv, PhysAddrInv, FailuresInv DEF ion_alloc_alloc
<1>3. CASE \E ptr \in held : ion_alloc_free(ptr)
  BY <1>3, FreeInv
<1> QED
  BY <1>1, <1>2, <1>3, OpenInv, CloseInv DEF Next

LEMMA InvHolds == Spec => []Inv
BY InitInv, StepInv, PTL DEF Spec

-----------------------------------------------------------------------------
(* Theorems.                                                               *)

\* A place in a block is in no other one, also as the encoder counts.
LEMMA NotInside ==
  ASSUME NEW a \in Int, NEW m \in Nat, NEW b \in Int, NEW n \in Nat \ {0}, NEW k \in Nat,
         k < m, Apart(a, m, b, n)
  PROVE  ~ Inside(a + k, b, n)
BY DEF Apart, Inside

LEMMA Shifted ==
  ASSUME NEW a \in Int, NEW m \in Nat, NEW b \in Int, NEW n \in Nat, NEW d \in Int,
         Apart(a, m, b, n)
  PROVE  Apart(a - d, m, b - d, n)
BY DEF Apart

\* Whatever calls fail, and whatever clients are closed and opened again: a
\* block that an application holds shares neither addresses nor memory with any
\* other buffer the kernel keeps.
THEOREM HeldStaysExclusive == Spec => []HeldExclusive
<1>1. Inv => HeldExclusive
  <2> SUFFICES ASSUME Inv, NEW v \in held
               PROVE  \E e \in im_lst :
                        /\ e.virtAddr = v
                        /\ [start |-> v, buffer |-> e.fd] \in maps
                        /\ \A m \in maps :
                             m.start # v => Apart(v, e.fd.size, m.start, m.buffer.size)
                        /\ \A l \in Live :
                             l # e.fd => Apart(e.fd.phys, e.fd.size, l.phys, l.size)
    BY DEF HeldExclusive
  <2> USE DEF Inv
  <2>1. PICK e \in im_lst : e.virtAddr = v
    BY DEF HeldListed
  <2>2. [start |-> v, buffer |-> e.fd] \in maps
    BY <2>1 DEF Kept, Mapping
  <2>3. \A m \in maps : m.start # v => Apart(v, e.fd.size, m.start, m.buffer.size)
    <3>1. ASSUME NEW f \in im_lst, f # e
          PROVE  Apart(v, e.fd.size, f.virtAddr, f.fd.size)
      BY <2>1, <3>1 DEF Disjoint, VirtApart
    <3>2. pc = "phys" => Apart(v, e.fd.size, im.virtAddr, im.fd.size)
      BY <2>1 DEF Disjoint, VirtApart, Apart
    <3> QED
      BY <2>1, <3>1, <3>2 DEF Kept, Mapping
  <2>4. \A l \in Live : l # e.fd => PhysApart(e.fd, l)
    <3>1. \A l \in Live : (\E f \in im_lst : l = f.fd) \/ (pc # "idle" /\ l = im.fd)
      BY DEF Live, Kept, Mapping
    <3>2. \A f \in im_lst : f.fd # e.fd => PhysApart(e.fd, f.fd)
      BY DEF Disjoint
    <3>3. pc # "idle" => PhysApart(e.fd, im.fd)
      BY ApartDiffers DEF Disjoint, Types, Entry
    <3> QED
      BY <3>1, <3>2, <3>3
  <2> QED
    BY <2>1, <2>2, <2>3, <2>4 DEF PhysApart
<1> QED
  BY <1>1, InvHolds, PTL

\* Between calls the kernel keeps what the list records and nothing else.
THEOREM NothingStaysBehind == Spec => []NothingLeftBehind
<1>1. Inv => NothingLeftBehind
  BY DEF Inv, Kept, Mapping, NothingLeftBehind
<1> QED
  BY <1>1, InvHolds, PTL

\* Every byte of a block is translated to its own place in the DRAM and back, and
\* the encoder of each chip is given this place exactly if it is below its offset.
THEOREM TranslationsUndoEachOther == Spec => []TranslationsInverse
<1>1. Inv => TranslationsInverse
  <2> SUFFICES ASSUME Inv, ion_fd, NEW e \in im_lst, NEW k \in 0 .. e.fd.size - 1
               PROVE  LET place == e.fd.phys + k - MEM_OFFSET
                      IN  /\ ion_alloc_vir2phy(e.virtAddr + k) = place
                          /\ ion_alloc_phy2vir(place) = e.virtAddr + k
                          /\ \A c \in ICVersions :
                               DeviceAddress(ion_alloc_vir2phy(e.virtAddr + k), c) = place
                                 <=> place < offt(c)
    BY Zenon DEF TranslationsInverse
  <2> USE DEF Inv
  <2> DEFINE v == e.virtAddr + k
             p == e.fd.phys + k - MEM_OFFSET
  <2>1. /\ e \in Entry /\ e.virtAddr \in Nat \ {0} /\ e.fd.size \in Nat
        /\ e.fd.phys \in Nat /\ e.fd.phys > MEM_OFFSET
        /\ e.physAddr = e.fd.phys - MEM_OFFSET
        /\ k \in Nat /\ k < e.fd.size
        /\ MEM_OFFSET \in Nat
    BY IonAssumption DEF Types, Entry, Block
  <2>2. /\ v \in Nat /\ v # NULL /\ p \in Nat /\ p # NULL
        /\ v - e.virtAddr = k /\ p - e.physAddr = k
        /\ v = e.virtAddr + k /\ p = e.physAddr + k
        /\ e.physAddr \in Nat \ {0}
    <3> DEFINE a == e.virtAddr
               b == e.fd.phys
               c == e.physAddr
    <3>1. /\ a \in Nat \ {0} /\ b \in Nat /\ b > MEM_OFFSET /\ c = b - MEM_OFFSET
          /\ k \in Nat /\ MEM_OFFSET \in Nat
      BY <2>1
    <3> HIDE DEF a, b, c
    <3>3. a + k \in Nat \ {0} /\ (a + k) - a = k
      BY <3>1
    <3>4. c \in Nat \ {0} /\ b + k - MEM_OFFSET = c + k /\ (c + k) - c = k
      BY <3>1
    <3>5. c + k \in Nat \ {0}
      BY <3>1, <3>4
    <3> QED
      BY <3>3, <3>4, <3>5 DEF a, b, c, NULL
  <2> HIDE DEF v, p
  <2>3. /\ Inside(v, e.virtAddr, e.fd.size) /\ e.virtAddr # NULL
        /\ Inside(p, e.physAddr, e.fd.size) /\ e.physAddr # NULL
    BY <2>1, <2>2 DEF Inside, NULL
  <2>4. ASSUME NEW f \in im_lst, f # e
        PROVE  ~ Inside(v, f.virtAddr, f.fd.size) /\ ~ Inside(p, f.physAddr, f.fd.size)
    <3>1. /\ f.virtAddr \in Nat /\ f.fd.size \in Nat \ {0} /\ f.fd.phys \in Nat
          /\ f.physAddr = f.fd.phys - MEM_OFFSET
      BY DEF Types, Entry, Block
    <3>2. /\ Apart(e.virtAddr, e.fd.size, f.virtAddr, f.fd.size)
          /\ Apart(e.fd.phys, e.fd.size, f.fd.phys, f.fd.size)
      BY <2>4 DEF Disjoint, VirtApart, PhysApart
    <3>3. /\ e.virtAddr \in Int /\ e.physAddr \in Int /\ e.fd.size \in Nat /\ e.fd.phys \in Int
          /\ f.virtAddr \in Int /\ f.physAddr \in Int /\ f.fd.phys \in Int
          /\ f.fd.size \in Nat \ {0} /\ f.fd.size \in Nat
          /\ k \in Nat /\ k < e.fd.size /\ MEM_OFFSET \in Int
      BY <2>1, <2>2, <3>1
    <3>4. ~ Inside(e.virtAddr + k, f.virtAddr, f.fd.size)
      BY <3>2, <3>3, NotInside, Zenon
    <3>5. Apart(e.fd.phys - MEM_OFFSET, e.fd.size, f.fd.phys - MEM_OFFSET, f.fd.size)
      BY <3>2, <3>3, Shifted, Zenon
    <3>6. Apart(e.physAddr, e.fd.size, f.physAddr, f.fd.size)
      BY <2>1, <3>1, <3>5, Zenon
    <3>7. ~ Inside(e.physAddr + k, f.physAddr, f.fd.size)
      BY <3>3, <3>6, NotInside, Zenon
    <3> QED
      BY <2>2, <3>4, <3>7, Zenon
  <2>5. {f \in im_lst : f.virtAddr # NULL /\ Inside(v, f.virtAddr, f.fd.size)} = {e}
    BY <2>3, <2>4
  <2>6. {f \in im_lst : f.physAddr # NULL /\ Inside(p, f.physAddr, f.fd.size)} = {e}
    BY <2>3, <2>4
  <2>7. (CHOOSE f \in {e} : TRUE) = e
    OBVIOUS
  <2>8. ion_alloc_vir2phy(v) = e.physAddr + (v - e.virtAddr)
    BY <2>2, <2>5, <2>7 DEF ion_alloc_vir2phy
  <2>9. ion_alloc_phy2vir(p) = e.virtAddr + (p - e.physAddr)
    BY <2>2, <2>6, <2>7 DEF ion_alloc_phy2vir
  <2>10. ion_alloc_vir2phy(v) = p /\ ion_alloc_phy2vir(p) = v
    BY <2>2, <2>8, <2>9
  <2>11. ASSUME NEW c \in ICVersions PROVE DeviceAddress(p, c) = p <=> p < offt(c)
    <3>1. offt(c) \in Nat \ {0}
      BY IonAssumption DEF offt
    <3> QED
      BY <2>2, <3>1 DEF DeviceAddress
  <2> QED
    BY <2>10, <2>11 DEF v, p
<1> QED
  BY <1>1, InvHolds, PTL
=============================================================================
