---------------------------- MODULE CoalesceWalk ----------------------------
(***************************************************************************)
(* The two nested loops with which ve_alloc_free (common/ve_alloc.c) merges*)
(* free entries, on the links of util/list.h.  ve_mx is held all the time. *)
(*                                                                         *)
(* Each loop saves the successor of its cursor before its body runs; the   *)
(* inner body deletes and frees the entry that the outer loop has saved.   *)
(* The outer loop then goes on through that freed entry.  What it reads    *)
(* there C leaves undefined.  Here virtAddr may read as anything, in every *)
(* freed entry and each time anew: a C library puts its own link there, or *)
(* leaves the NULL that is there.  The links are taken to be as they were: *)
(* what allocators write is at the beginning of the memory.  That is not   *)
(* so when another thread, which ve_mx does not keep out of malloc, is     *)
(* given the memory before the loops end; nothing can be said of them then.*)
(***************************************************************************)
EXTENDS VeMemList, KernelList

CONSTANT MaxEntries  \* bound: the length of the list

ASSUME MaxEntriesAssumption == MaxEntries \in Nat

HEAD == 0  \* &ve_lst
Entries == 1 .. MaxEntries

VARIABLES
  before,    \* the list before the loops, one entry of which was just freed
  size, links,
  freed,     \* the entries that have been deleted and freed, in this order
  ve, tmp,   \* the outer loop
  ne, tmp2,  \* the inner loop
  pc

walkVars == <<before, size, links, freed, ve, tmp, ne, tmp2, pc>>

next == links.next

Entry(i, used) == [virtAddr |-> IF used THEN i ELSE NULL, physAddr |-> i, size |-> 1]

\* Two free entries are neighbours only on account of the one just freed.
CanArise(lst) ==
  \E f \in DOMAIN lst :
    /\ ~ Used(lst[f])
    /\ \A i \in 1 .. Len(lst) - 1 : ~ Used(lst[i]) /\ ~ Used(lst[i + 1]) => f \in {i, i + 1}

\* ve_alloc_open adds the first entry at the tail, ve_alloc_alloc each further one
\* behind the one it has cut.
ListOf(n) ==
  FoldLeft(LAMBDA l, i : list_add(l, i, i - 1),
           list_add_tail(INIT_LIST_HEAD(0 .. n), 1, HEAD), [i \in 1 .. n - 1 |-> i + 1])

WalkInit ==
  /\ \E n \in Entries : \E used \in [1 .. n -> BOOLEAN] :
       /\ before = [i \in 1 .. n |-> Entry(i, used[i])]
       /\ links = ListOf(n)
  /\ CanArise(before)
  /\ size = [i \in DOMAIN before |-> before[i].size]
  /\ freed = <<>>
  /\ ve = next[HEAD]
  /\ tmp = next[next[HEAD]]
  /\ ne = HEAD
  /\ tmp2 = HEAD
  /\ pc = "outer"

\* Whether virtAddr of entry e is seen to be set; undefined in freed memory.
SeenUsed(e) == IF e \in ToSet(freed) THEN BOOLEAN ELSE {Used(before[e])}

\* Mutant: the saved entry is not renewed.
AdvanceOnce ==
  /\ ve' = tmp
  /\ pc' = "outer"
  /\ UNCHANGED <<before, size, links, freed, tmp, ne, tmp2>>

\* The outer loop's step to the entry it has saved.
Advance ==
  /\ ve' = tmp
  /\ tmp' = next[tmp]
  /\ pc' = "outer"
  /\ UNCHANGED <<before, size, links, freed, ne, tmp2>>

OuterEnd ==
  /\ pc = "outer" /\ ve = HEAD
  /\ pc' = "done"
  /\ UNCHANGED <<before, size, links, freed, ve, tmp, ne, tmp2>>

SkipUsed ==
  /\ pc = "outer" /\ ve # HEAD
  /\ TRUE \in SeenUsed(ve)
  /\ Advance

\* list_for_each_entry_safe_continue starts behind the free entry ve.
EnterInner ==
  /\ pc = "outer" /\ ve # HEAD
  /\ FALSE \in SeenUsed(ve)
  /\ ne' = next[ve]
  /\ tmp2' = next[next[ve]]
  /\ pc' = "inner"
  /\ UNCHANGED <<before, size, links, freed, ve, tmp>>

LeaveInner ==
  /\ pc = "inner"
  /\ ne = HEAD \/ (ne # HEAD /\ TRUE \in SeenUsed(ne))
  /\ Advance

SizeAdded == [size EXCEPT ![ve] = @ + size[ne]]

\* Mutant: the inner loop does not stop at a used entry.
MergeableAny == TRUE

Mergeable == FALSE \in SeenUsed(ne)

\* __list_del_entry, the sum of the sizes, free.
MergeEntry ==
  /\ pc = "inner" /\ ne # HEAD
  /\ Mergeable
  /\ links' = __list_del_entry(links, ne)
  /\ size' = SizeAdded
  /\ freed' = Append(freed, ne)
  /\ ne' = tmp2
  /\ tmp2' = links'.next[tmp2]
  /\ UNCHANGED <<before, ve, tmp, pc>>

WalkNext == OuterEnd \/ SkipUsed \/ EnterInner \/ LeaveInner \/ MergeEntry

WalkSpec == WalkInit /\ [][WalkNext]_walkVars /\ WF_walkVars(WalkNext)

-----------------------------------------------------------------------------

\* The list as the links have it.
Linked ==
  LET listed == Forward(links, HEAD)
  IN  [k \in DOMAIN listed |-> [before[listed[k]] EXCEPT !.size = size[listed[k]]]]

\* In spite of the visits to freed entries, the loops leave the list that
\* VeAlloc works with: every run of free entries is one entry.  It can be walked
\* in both directions, as the next insertion needs.
ResultCoalesced ==
  pc = "done" =>
    /\ Linked = Coalesce(before)
    /\ Forward(links, HEAD) = Reverse(Backward(links, HEAD))

\* "safe against removal" (list.h:528): no entry is freed again by a loop that
\* meets it after its removal.
FreedOnce == \A i, j \in DOMAIN freed : freed[i] = freed[j] => i = j

\* Whatever freed memory reads as, only the last of three free entries is ever
\* freed twice: a call of ve_alloc_free that merges its block with the entry on
\* one side, and not on both, frees each entry once.
TwiceOnlyOfThree ==
  \A i, j \in DOMAIN freed :
    i # j /\ freed[i] = freed[j] =>
      /\ freed[i] - 2 \in DOMAIN before
      /\ \A k \in freed[i] - 2 .. freed[i] : ~ Used(before[k])

\* The loops end, also when they pass through freed entries.
LoopsEnd == <>(pc = "done")
=============================================================================
