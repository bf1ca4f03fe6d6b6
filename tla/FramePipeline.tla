---------------------------- MODULE FramePipeline ----------------------------
(***************************************************************************)
(* What the frame buffer manager promises to an application, without its   *)
(* slots, threads and locks: the frames accepted by AddOneInputBuffer are  *)
(* encoded in the order of their acceptance and handed back by             *)
(* AlreadyUsedInputBuffer in that order, each exactly once, and at most    *)
(* Capacity frames are inside at any time.                                 *)
(*                                                                         *)
(* The queue is never shortened; two counters tell how far it has been     *)
(* encoded and handed back.                                                *)
(***************************************************************************)
EXTENDS Naturals, Sequences

CONSTANTS Frame,      \* what can be submitted
          Capacity    \* how many frames fit between submission and hand-back

VARIABLES submitted,  \* every frame accepted so far, oldest first
          finished,   \* how many of them have been encoded
          returned    \* how many of them have been handed back

vars == <<submitted, finished, returned>>

Init ==
  /\ submitted = <<>>
  /\ finished = 0
  /\ returned = 0

Submit(f) ==
  /\ Len(submitted) - returned < Capacity
  /\ submitted' = Append(submitted, f)
  /\ UNCHANGED <<finished, returned>>

Finish ==
  /\ finished < Len(submitted)
  /\ finished' = finished + 1
  /\ UNCHANGED <<submitted, returned>>

HandBack ==
  /\ returned < finished
  /\ returned' = returned + 1
  /\ UNCHANGED <<submitted, finished>>

Next == (\E f \in Frame : Submit(f)) \/ Finish \/ HandBack

Spec == Init /\ [][Next]_vars
=============================================================================
