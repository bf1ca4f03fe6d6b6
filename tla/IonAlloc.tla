------------------------------- MODULE IonAlloc -------------------------------
(***************************************************************************)
(* common/ion_alloc.c: the memory adapter on top of the kernel's ION       *)
(* allocator, which OPTION_MEMORY_DRIVER_ION selects.                      *)
(*                                                                         *)
(* A block is made in four kernel calls, ION_IOC_ALLOC, ION_IOC_MAP, mmap  *)
(* and ION_IOC_CUSTOM; each is a step of its own, because each may fail    *)
(* and what the earlier ones have made must then be undone.  Every         *)
(* function holds ion_mx from beginning to end, so that one call at most   *)
(* is in progress.                                                         *)
(*                                                                         *)
(* What the kernel keeps is external: a buffer lives as long as a handle   *)
(* of the open client, a file descriptor or a mapping refers to it.        *)
(* Closing /dev/ion destroys the handles only, and a handle value may come *)
(* back for another buffer of a later client.                              *)
(***************************************************************************)
EXTENDS Integers

CONSTANTS PAGE_SIZE,
          MEM_OFFSET,   \* where the DRAM begins, as the adapter has it
          OFFT_1639,    \* offt of the encoder when ICVersion is 0x1639
          DramPages,    \* the physical pages that the heap may give
          VirtPages,    \* the virtual addresses that mmap may return
          Sizes,        \* the sizes that are asked for
          Handle        \* the values of the kernel's handles

\* The adapter subtracts MEM_OFFSET whatever the chip: here the DRAM does begin
\* there. The heap never gives its first page, whose physAddr would be NULL.
ASSUME IonAssumption ==
  /\ PAGE_SIZE \in Nat \ {0}
  /\ MEM_OFFSET \in Nat \ {0} /\ OFFT_1639 \in Nat \ {0}
  /\ DramPages \subseteq Nat /\ VirtPages \subseteq Nat \ {0}
  /\ Sizes \subseteq Nat \ {0}
  /\ \A a \in DramPages : a > MEM_OFFSET

NULL == 0

VARIABLES
  ion_fd,   \* whether the client is open
  im_lst,   \* the struct ion_mem on the list
  im,       \* the struct ion_mem that ion_alloc_alloc is making
  pc,       \* the kernel call of ion_alloc_alloc that is next
  handles,  \* kernel: <<handle, buffer>> of the open client
  fds,      \* kernel: the buffers with a file descriptor
  maps,     \* kernel: the mappings [start, buffer]
  held      \* the application: what it was given and has not freed

kernel == <<handles, fds, maps>>
vars == <<ion_fd, im_lst, im, pc, kernel, held>>

\* A buffer is a range of the DRAM; its descriptor is named after it.
Buffer == [phys : DramPages, size : Nat]
Fits(b) == \A i \in 0 .. b.size \div PAGE_SIZE - 1 : b.phys + i * PAGE_SIZE \in DramPages

NoBuffer == [phys |-> NULL, size |-> 0]
NoEntry == [virtAddr |-> NULL, physAddr |-> NULL, handle |-> NULL, fd |-> NoBuffer]

Init ==
  /\ ion_fd = FALSE
  /\ im_lst = {}
  /\ im = NoEntry
  /\ pc = "idle"
  /\ handles = {} /\ fds = {} /\ maps = {}
  /\ held = {}

\* The buffers that the kernel keeps.
Live == {h[2] : h \in handles} \cup fds \cup {m.buffer : m \in maps}

Apart(a, m, b, n) == a + m <= b \/ b + n <= a

-----------------------------------------------------------------------------

ion_alloc_open ==
  /\ pc = "idle" /\ ~ ion_fd
  /\ ion_fd' = TRUE
  /\ UNCHANGED <<im_lst, im, pc, kernel, held>>

\* Mutant: everything is unmapped, as ve_alloc_close does.
ion_alloc_close_unmaps ==
  /\ pc = "idle" /\ ion_fd
  /\ ion_fd' = FALSE
  /\ handles' = {} /\ fds' = {} /\ maps' = {}
  /\ im_lst' = {}
  /\ UNCHANGED <<im, pc, held>>

\* The list, the descriptors and the mappings stay.
ion_alloc_close ==
  /\ pc = "idle" /\ ion_fd
  /\ ion_fd' = FALSE
  /\ handles' = {}
  /\ UNCHANGED <<im_lst, im, pc, fds, maps, held>>

-----------------------------------------------------------------------------
(* ion_alloc_alloc                                                         *)

PageAligned(size) == ((size + PAGE_SIZE - 1) \div PAGE_SIZE) * PAGE_SIZE

\* When this call fails, or calloc before it, nothing has changed.
IocAlloc(asked) ==
  /\ pc = "idle" /\ ion_fd
  /\ \E h \in Handle, b \in [phys : DramPages, size : {PageAligned(asked)}] :
       /\ \A g \in handles : g[1] # h
       /\ Fits(b)
       /\ \A l \in Live : Apart(b.phys, b.size, l.phys, l.size)
       /\ handles' = handles \cup {<<h, b>>}
       /\ im' = [NoEntry EXCEPT !.handle = h, !.fd = b]
  /\ pc' = "map"
  /\ UNCHANGED <<ion_fd, im_lst, fds, maps, held>>

IocMap ==
  /\ pc = "map"
  /\ fds' = fds \cup {im.fd}
  /\ pc' = "mmap"
  /\ UNCHANGED <<ion_fd, im_lst, im, handles, maps, held>>

IocFree(h) == {g \in handles : g[1] # h}

IocMapFails ==
  /\ pc = "map"
  /\ handles' = IocFree(im.handle)
  /\ im' = NoEntry
  /\ pc' = "idle"
  /\ UNCHANGED <<ion_fd, im_lst, fds, maps, held>>

\* mmap returns a range of addresses that nothing is mapped to.
Mmap ==
  /\ pc = "mmap"
  /\ \E v \in VirtPages :
       /\ \A m \in maps : Apart(v, im.fd.size, m.start, m.buffer.size)
       /\ maps' = maps \cup {[start |-> v, buffer |-> im.fd]}
       /\ im' = [im EXCEPT !.virtAddr = v]
  /\ pc' = "phys"
  /\ UNCHANGED <<ion_fd, im_lst, handles, fds, held>>

\* Mutant: the descriptor is not closed.
MmapFailsLeaks ==
  /\ pc = "mmap"
  /\ handles' = IocFree(im.handle)
  /\ im' = NoEntry
  /\ pc' = "idle"
  /\ UNCHANGED <<ion_fd, im_lst, fds, maps, held>>

MmapFails ==
  /\ pc = "mmap"
  /\ fds' = fds \ {im.fd}
  /\ handles' = IocFree(im.handle)
  /\ im' = NoEntry
  /\ pc' = "idle"
  /\ UNCHANGED <<ion_fd, im_lst, maps, held>>

\* ION_IOC_SUNXI_PHYS_ADDR; the entry goes to the list.
IocPhysAddr ==
  /\ pc = "phys"
  /\ im_lst' = im_lst \cup {[im EXCEPT !.physAddr = im.fd.phys - MEM_OFFSET]}
  /\ held' = held \cup {im.virtAddr}
  /\ im' = NoEntry
  /\ pc' = "idle"
  /\ UNCHANGED <<ion_fd, kernel>>

Unmapped(entry) == {m \in maps : m.start # entry.virtAddr}

IocPhysAddrFails ==
  /\ pc = "phys"
  /\ maps' = Unmapped(im)
  /\ fds' = fds \ {im.fd}
  /\ handles' = IocFree(im.handle)
  /\ im' = NoEntry
  /\ pc' = "idle"
  /\ UNCHANGED <<ion_fd, im_lst, held>>

-----------------------------------------------------------------------------

\* The application frees a block that it holds, and no longer uses it.  While
\* the client is closed nothing happens.  The handle that is freed is the one
\* noted when the block was made; if that was an earlier client's, it may be
\* nobody's by now or another block's.
ion_alloc_free(ptr) ==
  /\ pc = "idle"
  /\ held' = held \ {ptr}
  /\ \/ ~ ion_fd /\ UNCHANGED <<im_lst, kernel>>
     \/ /\ ion_fd
        /\ \E entry \in im_lst :
             /\ entry.virtAddr = ptr
             /\ im_lst' = im_lst \ {entry}
             /\ maps' = Unmapped(entry)
             /\ fds' = fds \ {entry.fd}
             /\ handles' = IocFree(entry.handle)
  /\ UNCHANGED <<ion_fd, im, pc>>

-----------------------------------------------------------------------------
(* Address translation, and what the encoder makes of the result.          *)

\* Mutant: the last byte of a block is taken for the next one's.
InsideShort(ptr, start, size) == ptr = start \/ (ptr > start /\ ptr < start + size - 1)

Inside(ptr, start, size) == ptr = start \/ (ptr > start /\ ptr < start + size)

ion_alloc_vir2phy(ptr) ==
  LET hit == {e \in im_lst : e.virtAddr # NULL /\ Inside(ptr, e.virtAddr, e.fd.size)}
  IN  IF ptr = NULL \/ ~ ion_fd \/ hit = {} THEN NULL
      ELSE LET e == CHOOSE e \in hit : TRUE IN e.physAddr + (ptr - e.virtAddr)

ion_alloc_phy2vir(ptr) ==
  LET hit == {e \in im_lst : e.physAddr # NULL /\ Inside(ptr, e.physAddr, e.fd.size)}
  IN  IF ptr = NULL \/ ~ ion_fd \/ hit = {} THEN NULL
      ELSE LET e == CHOOSE e \in hit : TRUE IN e.virtAddr + (ptr - e.physAddr)

\* The chips that VideoEncodeOneFrame tells apart, and where it takes the DRAM of
\* each to begin; on the others that is MEM_OFFSET, 0x40000000.
ICVersions == {"0x1639", "other"}
offt(ICVersion) == IF ICVersion = "0x1639" THEN OFFT_1639 ELSE MEM_OFFSET

\* It turns a CPU's address into the encoder's. What the adapter has turned already
\* it leaves as it is only below offt.
DeviceAddress(addr, ICVersion) ==
  IF addr >= offt(ICVersion) THEN addr - offt(ICVersion) ELSE addr

-----------------------------------------------------------------------------

ion_alloc_alloc ==
  \/ \E asked \in Sizes : IocAlloc(asked)
  \/ IocMap \/ IocMapFails \/ Mmap \/ MmapFails \/ IocPhysAddr \/ IocPhysAddrFails

Next ==
  \/ ion_alloc_open \/ ion_alloc_close
  \/ ion_alloc_alloc
  \/ \E ptr \in held : ion_alloc_free(ptr)

Spec == Init /\ [][Next]_vars

-----------------------------------------------------------------------------
(* Properties.                                                             *)

\* Every field is what its struct declares; every buffer is whole pages of DRAM.
TypeOK ==
  /\ ion_fd \in BOOLEAN
  /\ pc \in {"idle", "map", "mmap", "phys"} /\ (pc # "idle" => ion_fd)
  /\ \A e \in im_lst : /\ e.virtAddr \in VirtPages /\ e.handle \in Handle
                       /\ e.fd \in Buffer /\ e.fd.size > 0 /\ e.fd.size % PAGE_SIZE = 0
                       /\ e.physAddr = e.fd.phys - MEM_OFFSET
  /\ handles \subseteq Handle \X Buffer
  /\ fds \subseteq Buffer
  /\ maps \subseteq [start : VirtPages, buffer : Buffer]
  /\ held \subseteq VirtPages

\* What an application holds stays its own: its block is on the list and
\* mapped, and neither its addresses nor its memory are part of any other live
\* buffer, whatever other users close, reopen, fail to allocate or free with a
\* handle of an earlier client.
HeldExclusive ==
  \A v \in held :
    \E e \in im_lst :
      /\ e.virtAddr = v
      /\ [start |-> v, buffer |-> e.fd] \in maps
      /\ \A m \in maps : m.start # v => Apart(v, e.fd.size, m.start, m.buffer.size)
      /\ \A l \in Live : l # e.fd => Apart(e.fd.phys, e.fd.size, l.phys, l.size)

\* Between calls the kernel keeps what the list records and nothing else: an
\* allocation that fails at any of its four calls leaves nothing behind.
NothingLeftBehind ==
  pc = "idle" =>
    /\ maps = {[start |-> e.virtAddr, buffer |-> e.fd] : e \in im_lst}
    /\ fds = {e.fd : e \in im_lst}
    /\ {h[2] : h \in handles} \subseteq fds

\* While the client is open the translations lead from every byte of a block to
\* its place in the DRAM and back to the byte, next to whatever other blocks. The
\* encoder is given this place exactly if it lies below the chip's offt; from any
\* further one the offset is subtracted once more.
TranslationsInverse ==
  ion_fd =>
    \A e \in im_lst :
      \A k \in 0 .. e.fd.size - 1 :
        LET place == e.fd.phys + k - MEM_OFFSET
        IN  /\ ion_alloc_vir2phy(e.virtAddr + k) = place
            /\ ion_alloc_phy2vir(place) = e.virtAddr + k
            /\ \A c \in ICVersions :
                 DeviceAddress(ion_alloc_vir2phy(e.virtAddr + k), c) = place <=> place < offt(c)
=============================================================================
