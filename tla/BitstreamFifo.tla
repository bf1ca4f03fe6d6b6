---------------------------- MODULE BitstreamFifo ----------------------------
(***************************************************************************)
(* What the bitstream manager promises: encoded streams are laid one after *)
(* the other on an endless tape, each padded to whole units; they are      *)
(* delivered in that order, each once, and given back in that order.  What *)
(* has been given back may be overwritten, so at most Size bytes of the    *)
(* tape, and at most Capacity streams, are live.                           *)
(***************************************************************************)
EXTENDS Naturals, Sequences

CONSTANTS Length,         \* the lengths an encoded stream can have
          Padded(_),      \* the tape a stream of a length takes
          Size, Capacity

VARIABLES unread,     \* added and not yet delivered, oldest first
          held,       \* delivered and not yet given back, oldest first
          head, tail  \* the live part of the tape is [head, tail)

vars == <<unread, held, head, tail>>

Init ==
  /\ unread = <<>>
  /\ held = <<>>
  /\ head = 0
  /\ tail = 0

Add(l) ==
  /\ Len(unread) + Len(held) < Capacity
  /\ tail + Padded(l) - head <= Size
  /\ unread' = Append(unread, [start |-> tail, length |-> l])
  /\ tail' = tail + Padded(l)
  /\ UNCHANGED <<held, head>>

Deliver ==
  /\ unread # <<>>
  /\ held' = Append(held, Head(unread))
  /\ unread' = Tail(unread)
  /\ UNCHANGED <<head, tail>>

GiveBack ==
  /\ held # <<>>
  /\ head' = Head(held).start + Padded(Head(held).length)
  /\ held' = Tail(held)
  /\ UNCHANGED <<unread, tail>>

Next == (\E l \in Length : Add(l)) \/ Deliver \/ GiveBack

Spec == Init /\ [][Next]_vars
=============================================================================
