---------------------------- MODULE EncoderDevice ----------------------------
(***************************************************************************)
(* What an encoder device (VENC_DEVICE, vencoder/include/venc_device.h)    *)
(* may expect of its caller: open comes first and close last, init and     *)
(* uninit come in turn between them, and encode only between an init and   *)
(* its uninit, with frames in the order of their submission.  An init may  *)
(* fail; a device must then be ready for the same calls, and is given its  *)
(* uninit before anything ends or begins anew.                             *)
(***************************************************************************)
EXTENDS Naturals, Sequences

CONSTANT Frame

VARIABLES handle,   \* "closed", "open", and since init: "initialized" or "failed"
          offered,  \* frames the application has submitted since init
          encoded   \* those of them that encode has been given

vars == <<handle, offered, encoded>>

Idle == offered = <<>> /\ encoded = <<>>

Init == handle = "closed" /\ Idle

Open == handle = "closed" /\ handle' = "open" /\ UNCHANGED <<offered, encoded>>

Initialize(ok) ==
  /\ handle = "open" /\ Idle
  /\ handle' = IF ok THEN "initialized" ELSE "failed"
  /\ Idle'

Begun == handle \in {"initialized", "failed"}

Offer(f) ==
  /\ Begun
  /\ offered' = Append(offered, f)
  /\ UNCHANGED <<handle, encoded>>

Encode ==
  /\ Begun
  /\ Len(encoded) < Len(offered)
  /\ encoded' = Append(encoded, offered[Len(encoded) + 1])
  /\ UNCHANGED <<handle, offered>>

Uninitialize == Begun /\ handle' = "open" /\ Idle'

Close == handle = "open" /\ handle' = "closed" /\ UNCHANGED <<offered, encoded>>

Next ==
  \/ Open \/ (\E ok \in BOOLEAN : Initialize(ok))
  \/ (\E f \in Frame : Offer(f)) \/ Encode
  \/ Uninitialize \/ Close

Spec == Init /\ [][Next]_vars
=============================================================================
