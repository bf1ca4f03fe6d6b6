------------------------------ MODULE VeMemList ------------------------------
(* The entries of ve_lst (common/ve_alloc.c), and the list that is left    *)
(* when ve_alloc_free has merged the free ones.                            *)
EXTENDS Integers, SequencesExt

NULL == 0

\* struct ve_mem; a free entry has no virtual address.
Used(ve) == ve.virtAddr # NULL

\* A free entry takes in the free entries that follow it.
Merge(lst, ve) ==
  IF lst # <<>> /\ ~ Used(ve) /\ ~ Used(Last(lst))
    THEN [lst EXCEPT ![Len(lst)].size = @ + ve.size]
    ELSE Append(lst, ve)

\* Mutant: free entries are not merged.
CoalesceNothing(lst) == lst

Coalesce(lst) == FoldLeft(Merge, <<>>, lst)
=============================================================================
