------------------------------- MODULE VeAlloc -------------------------------
(***************************************************************************)
(* common/ve_alloc.c: an allocator that cuts the physical memory reserved  *)
(* by the kernel into a list of used and free entries in the order of      *)
(* their addresses, and maps the used ones into the process.               *)
(*                                                                         *)
(* Every function holds ve_mx from beginning to end and is one step.  A    *)
(* call that fails (no entry fits, mmap or calloc fails, the device is     *)
(* closed) changes nothing and is no step.  The loop by which              *)
(* ve_alloc_free merges free entries is what CoalesceWalk models step by   *)
(* step; here it is its result.                                            *)
(***************************************************************************)
EXTENDS VeMemList

CONSTANTS PAGE_SIZE,
          PhysStart,   \* einfo.phymem_start - PAGE_OFFSET
          PhysTotal,   \* einfo.phymem_total_size
          VirtPages,   \* the virtual addresses mmap can return
          Sizes        \* the sizes that are asked for

ASSUME MemoryAssumption ==
  /\ PAGE_SIZE \in Nat \ {0}
  /\ PhysTotal \in Nat \ {0} /\ PhysTotal % PAGE_SIZE = 0
  /\ PhysStart \in Nat
  /\ VirtPages \subseteq Nat \ {0} /\ \A v \in VirtPages : v % PAGE_SIZE = 0
  /\ Sizes \subseteq Nat \ {0}

VARIABLES ve_fd,   \* whether the device is open
          ve_lst   \* sequence of struct ve_mem

vars == <<ve_fd, ve_lst>>

Init == ve_fd = FALSE /\ ve_lst = <<>>

-----------------------------------------------------------------------------

ve_alloc_open ==
  /\ ~ ve_fd
  /\ ve_fd' = TRUE
  /\ ve_lst' = Append(ve_lst, [virtAddr |-> NULL, physAddr |-> PhysStart, size |-> PhysTotal])

ve_alloc_close ==
  /\ ve_fd
  /\ ve_fd' = FALSE
  /\ ve_lst' = <<>>

-----------------------------------------------------------------------------
(* ve_alloc_alloc                                                          *)

PageAligned(size) == ((size + PAGE_SIZE - 1) \div PAGE_SIZE) * PAGE_SIZE

\* The smallest free entry that is large enough, the first of several.
\* Mutant: used entries are not passed over.
FittingAny(size) == {i \in DOMAIN ve_lst : ve_lst[i].size >= size}

Fitting(size) == {i \in DOMAIN ve_lst : ~ Used(ve_lst[i]) /\ ve_lst[i].size >= size}
Best(size) ==
  CHOOSE i \in Fitting(size) :
    \A j \in Fitting(size) \ {i} :
      \/ ve_lst[i].size < ve_lst[j].size
      \/ ve_lst[i].size = ve_lst[j].size /\ i < j

\* Kernel: mmap returns a range of addresses that nothing is mapped to.
Mappable(addr, size) ==
  \A i \in DOMAIN ve_lst :
    Used(ve_lst[i]) => \/ addr + size <= ve_lst[i].virtAddr
                       \/ ve_lst[i].virtAddr + ve_lst[i].size <= addr

\* Mutant: the rest keeps the address of the whole.
CutAtStart(best, addr, size) ==
  LET block == <<[virtAddr |-> addr, physAddr |-> best.physAddr, size |-> size]>>
      leftSize == best.size - size
  IN  IF leftSize > 0
        THEN block \o <<[virtAddr |-> NULL, physAddr |-> best.physAddr, size |-> leftSize]>>
        ELSE block

\* What the entry is cut into: the block, and the rest as a free entry.
Cut(best, addr, size) ==
  LET block == <<[virtAddr |-> addr, physAddr |-> best.physAddr, size |-> size]>>
      leftSize == best.size - size
  IN  IF leftSize > 0
        THEN block \o <<[virtAddr |-> NULL, physAddr |-> best.physAddr + size,
                         size |-> leftSize]>>
        ELSE block

ve_alloc_alloc(asked, addr) ==
  LET size == PageAligned(asked)
      b == Best(size)
  IN  /\ ve_fd
      /\ Fitting(size) # {}
      /\ Mappable(addr, size)
      /\ ve_lst' = SubSeq(ve_lst, 1, b - 1) \o Cut(ve_lst[b], addr, size)
                     \o SubSeq(ve_lst, b + 1, Len(ve_lst))
      /\ UNCHANGED ve_fd

-----------------------------------------------------------------------------
(* ve_alloc_free                                                           *)

ve_alloc_free(ptr) ==
  /\ ve_fd
  /\ ptr # NULL
  /\ \E i \in DOMAIN ve_lst :
       /\ ve_lst[i].virtAddr = ptr
       /\ ve_lst' = Coalesce([ve_lst EXCEPT ![i].virtAddr = NULL])
  /\ UNCHANGED ve_fd

-----------------------------------------------------------------------------
(* Address translation: the first entry that holds the address.            *)

ve_alloc_vir2phy(ptr) ==
  LET holds(ve) == Used(ve) /\ ptr >= ve.virtAddr /\ ptr < ve.virtAddr + ve.size
      i == SelectInSeq(ve_lst, holds)
  IN  IF ptr = NULL \/ ~ ve_fd \/ i = 0 THEN NULL
      ELSE ve_lst[i].physAddr + (ptr - ve_lst[i].virtAddr)

\* Mutant: the offset into the entry is forgotten.
phy2virStart(ptr) ==
  LET holds(ve) == ve.physAddr # NULL /\ ptr >= ve.physAddr /\ ptr < ve.physAddr + ve.size
      i == SelectInSeq(ve_lst, holds)
  IN  IF ptr = NULL \/ ~ ve_fd \/ i = 0 THEN NULL ELSE ve_lst[i].virtAddr

ve_alloc_phy2vir(ptr) ==
  LET holds(ve) == ve.physAddr # NULL /\ ptr >= ve.physAddr /\ ptr < ve.physAddr + ve.size
      i == SelectInSeq(ve_lst, holds)
  IN  IF ptr = NULL \/ ~ ve_fd \/ i = 0 THEN NULL
      ELSE ve_lst[i].virtAddr + (ptr - ve_lst[i].physAddr)

-----------------------------------------------------------------------------

Next ==
  \/ ve_alloc_open
  \/ ve_alloc_close
  \/ \E asked \in Sizes, addr \in VirtPages : ve_alloc_alloc(asked, addr)
  \/ \E ptr \in VirtPages : ve_alloc_free(ptr)

Spec == Init /\ [][Next]_vars

-----------------------------------------------------------------------------
(* Properties.                                                             *)

\* The entries cover the reserved memory without gap or overlap, in the order
\* of their addresses, and are whole pages: splitting and merging keep sizes and
\* addresses consistent.
Tiled ==
  /\ ve_fd <=> ve_lst # <<>>
  /\ \A i \in DOMAIN ve_lst :
       LET ve == ve_lst[i]
       IN  /\ ve.size > 0 /\ ve.size % PAGE_SIZE = 0
           /\ ve.physAddr = IF i = 1 THEN PhysStart
                            ELSE ve_lst[i - 1].physAddr + ve_lst[i - 1].size
           /\ i = Len(ve_lst) => ve.physAddr + ve.size = PhysStart + PhysTotal

\* No two free entries are neighbours: a request is refused only when no run of
\* free pages, however it came about, is long enough.
NoFalseShortage ==
  LET FreePage(a) ==
        \A i \in DOMAIN ve_lst :
          Used(ve_lst[i]) => ~ (a >= ve_lst[i].physAddr
                                /\ a < ve_lst[i].physAddr + ve_lst[i].size)
      Start == {PhysStart + n * PAGE_SIZE : n \in 0 .. PhysTotal \div PAGE_SIZE - 1}
  IN  \A asked \in Sizes :
        LET size == PageAligned(asked)
        IN  (\E s \in Start :
               /\ ve_fd /\ s + size <= PhysStart + PhysTotal
               /\ \A a \in Start : s <= a /\ a < s + size => FreePage(a))
            => Fitting(size) # {}

\* The two translations undo each other at every byte of every block, whatever
\* was split and merged around it.
TranslationsInverse ==
  \A i \in DOMAIN ve_lst :
    Used(ve_lst[i]) =>
      \A k \in 0 .. ve_lst[i].size - 1 :
        /\ ve_alloc_vir2phy(ve_lst[i].virtAddr + k) = ve_lst[i].physAddr + k
        /\ ve_alloc_phy2vir(ve_lst[i].physAddr + k) = ve_lst[i].virtAddr + k

\* The blocks in use are ranges of a pool: nothing given out overlaps anything
\* else that is in use, and freeing one block takes away that block alone.
Pool == INSTANCE MemoryPool WITH
  First <- PhysStart, Total <- PhysTotal,
  open <- ve_fd,
  live <- {[start |-> ve_lst[i].physAddr, size |-> ve_lst[i].size] :
             i \in {j \in DOMAIN ve_lst : Used(ve_lst[j])}}
PoolSpec == Pool!Spec
=============================================================================
