----------------------------- MODULE KernelList -----------------------------
(***************************************************************************)
(* The circular, doubly linked lists of util/list.h, as far as the library *)
(* uses them.  The links of a list are a record of two functions on its    *)
(* nodes, next and prev; the head is a node like the others.  A node that  *)
(* has been deleted keeps its own links.                                   *)
(***************************************************************************)
EXTENDS Integers, SequencesExt

\* Every node by itself.
INIT_LIST_HEAD(nodes) == [next |-> [p \in nodes |-> p], prev |-> [p \in nodes |-> p]]

__list_add(links, new, prev, next) ==
  [next |-> [links.next EXCEPT ![new] = next, ![prev] = new],
   prev |-> [links.prev EXCEPT ![next] = new, ![new] = prev]]

list_add(links, new, head) == __list_add(links, new, head, links.next[head])

list_add_tail(links, new, head) == __list_add(links, new, links.prev[head], head)

\* Mutant: only one direction is closed.
__list_del_forward(links, prev, next) == [links EXCEPT !.next[prev] = next]

__list_del(links, prev, next) ==
  [next |-> [links.next EXCEPT ![prev] = next],
   prev |-> [links.prev EXCEPT ![next] = prev]]

__list_del_entry(links, entry) == __list_del(links, links.prev[entry], links.next[entry])

\* list_for_each_entry: the nodes behind the head, and the same from behind.
Forward(links, head) ==
  LET at[k \in 1 .. Cardinality(DOMAIN links.next)] ==
        IF k = 1 THEN links.next[head]
        ELSE IF at[k - 1] = head THEN head ELSE links.next[at[k - 1]]
  IN  [k \in 1 .. Cardinality({i \in DOMAIN at : at[i] # head}) |-> at[k]]

Backward(links, head) == Forward([next |-> links.prev, prev |-> links.next], head)
=============================================================================
