----------------------------- MODULE MemoryPool -----------------------------
(***************************************************************************)
(* What the memory adapter promises: every block it gives out is a range   *)
(* of the reserved physical memory that is nobody else's until it is freed *)
(* or the adapter is closed.                                               *)
(***************************************************************************)
EXTENDS Integers

CONSTANTS First, Total  \* the reserved memory is Total bytes from First on

VARIABLES open, live    \* live: the ranges given out, [start, size]

vars == <<open, live>>

Apart(r, s) == r.start + r.size <= s.start \/ s.start + s.size <= r.start

Range == [start : First .. First + Total - 1, size : 1 .. Total]

Init == open = FALSE /\ live = {}

Open == open' = TRUE /\ UNCHANGED live

Allocate(r) ==
  /\ open
  /\ r.start + r.size <= First + Total
  /\ \A s \in live : Apart(r, s)
  /\ live' = live \cup {r}
  /\ UNCHANGED open

Free(r) == r \in live /\ live' = live \ {r} /\ UNCHANGED open

Close == open' = FALSE /\ live' = {}

Next == Open \/ Close \/ (\E r \in Range : Allocate(r) \/ Free(r))

Spec == Init /\ [][Next]_vars
=============================================================================
