------------------------- MODULE VencContext_proofs --------------------------
(***************************************************************************)
(* What is proved of vencoder/vencoder.c in the hands of its clients, for  *)
(* any number of picture buffers, frames and rounds, whichever calls fail: *)
(* the registry finds every device it has accepted (DeviceFound), nothing  *)
(* is left of a context that is gone (NothingRemains), the device is       *)
(* called as EncoderDevice says (DeviceKept), its streams are counted      *)
(* right (StreamsCounted), and VideoTest's loop leaves no frame and no     *)
(* picture behind (RoundsComplete) and no stream unwritten (FileWritten).  *)
(*                                                                         *)
(* The properties of the loop rest on invariants that say where the        *)
(* round's frame, its picture and its stream are at each call (RoundFrames,*)
(* RoundPictures, StreamInv, RoundFile).  Once is a fold over a file of    *)
(* any length; OnceMore follows it stream by stream with an induction that *)
(* rests on the order of the natural numbers being well founded.           *)
(***************************************************************************)
EXTENDS VencContext, SequenceTheorems, WellFoundedInduction, TLAPS

-----------------------------------------------------------------------------
(* The queue of picture buffers, as long as no node is queued twice.       *)

\* The nodes of a non-empty queue are among S, and its head is one of them.
LEMMA QueueRange ==
  ASSUME NEW S, NEW q \in Seq(S)
  PROVE  /\ Range(q) = {q[n] : n \in 1 .. Len(q)}
         /\ Range(q) \subseteq S
         /\ q # <<>> => Head(q) \in Range(q) /\ Head(q) \in S
  BY LenProperties, EmptySeq DEF Range

\* A node that is not queued goes to the end: the queue has this one node more
\* and still holds each node once.
LEMMA EnqueueFresh ==
  ASSUME NEW S, NEW q \in Seq(S), NEW p \in S, p \notin Range(q), IsInjective(q)
  PROVE  /\ enqueue(q, p) = Append(q, p)
         /\ enqueue(q, p) \in Seq(S)
         /\ Range(enqueue(q, p)) = Range(q) \cup {p}
         /\ IsInjective(enqueue(q, p))
         /\ enqueue(q, p) # <<>>
         /\ q # <<>> => Head(enqueue(q, p)) = Head(q)
<1>1. enqueue(q, p) = Append(q, p)
  BY DEF enqueue
<1> DEFINE r == Append(q, p)
<1>2. /\ r \in Seq(S) /\ Len(r) = Len(q) + 1 /\ Len(q) \in Nat
      /\ \A n \in 1 .. Len(q) : r[n] = q[n]
      /\ r[Len(q) + 1] = p
  BY LenProperties
<1>3. /\ Range(r) = {r[n] : n \in 1 .. Len(q) + 1}
      /\ Range(q) = {q[n] : n \in 1 .. Len(q)}
  BY <1>2, QueueRange
<1> HIDE DEF r
<1>4. Range(r) = Range(q) \cup {p}
  BY <1>2, <1>3
<1>5. IsInjective(r)
  BY <1>2, <1>3, LenProperties DEF IsInjective
<1>6. r # <<>>
  BY <1>2, EmptySeq
<1>7. q # <<>> => Head(r) = Head(q)
  BY <1>2, <1>6, EmptySeq
<1> QED
  BY <1>1, <1>2, <1>4, <1>5, <1>6, <1>7 DEF r

\* Taking the head of a queue that holds each node once leaves the others.
LEMMA DequeueHead ==
  ASSUME NEW S, NEW q \in Seq(S), q # <<>>, IsInjective(q)
  PROVE  /\ dequeue(q) \in Seq(S)
         /\ Range(dequeue(q)) = Range(q) \ {Head(q)}
         /\ IsInjective(dequeue(q))
<1> DEFINE r == Tail(q)
<1>1. /\ r \in Seq(S) /\ Len(r) = Len(q) - 1 /\ Len(q) \in Nat \ {0}
      /\ \A n \in 1 .. Len(q) - 1 : r[n] = q[n + 1]
      /\ Head(q) = q[1]
  BY HeadTailProperties, EmptySeq
<1>2. /\ Range(r) = {r[n] : n \in 1 .. Len(q) - 1}
      /\ Range(q) = {q[n] : n \in 1 .. Len(q)}
  BY <1>1, QueueRange
<1>3. \A n, j \in 1 .. Len(q) : q[n] = q[j] => n = j
  BY LenProperties DEF IsInjective
<1> HIDE DEF r
<1>4. Range(r) = Range(q) \ {Head(q)}
  <2>1. ASSUME NEW x \in Range(r) PROVE x \in Range(q) \ {Head(q)}
    BY <1>1, <1>2, <1>3
  <2>2. ASSUME NEW x \in Range(q) \ {Head(q)} PROVE x \in Range(r)
    <3>1. PICK n \in 1 .. Len(q) : x = q[n] /\ n # 1
      BY <1>1, <1>2
    <3>2. n - 1 \in 1 .. Len(q) - 1 /\ r[n - 1] = x
      BY <1>1, <3>1
    <3> QED
      BY <1>2, <3>2
  <2> QED
    BY <2>1, <2>2
<1>5. IsInjective(r)
  BY <1>1, <1>3, LenProperties DEF IsInjective
<1> QED
  BY <1>1, <1>4, <1>5 DEF r, dequeue

-----------------------------------------------------------------------------
(* The clients: where each of them makes which call.                       *)

\* VideoTest makes every call at one place of its program.
LEMMA VideoTestCalls ==
  ASSUME client = "VideoTest"
  PROVE  /\ End = 13
         /\ Calls("VideoEncCreate") => at = 1
         /\ Calls("VideoEncInit") => at = 2
         /\ Calls("AllocInputBuffer") => at = 3
         /\ Calls("GetOneAllocInputBuffer") => at = 4
         /\ Calls("fread") => at = 5
         /\ Calls("AddOneInputBuffer") => at = 6
         /\ Calls("VideoEncodeOneFrame") => at = 7
         /\ Calls("AlreadyUsedInputBuffer") => at = 8
         /\ Calls("ReturnOneAllocInputBuffer") => at = 9
         /\ Calls("GetOneBitstreamFrame") => at = 10
         /\ Calls("fwrite") => at = 11
         /\ Calls("FreeOneBitStreamFrame") => at = 12
         /\ ~ Calls("VideoEncDestroy")
<1>1. Program[client] = VideoTest /\ Len(VideoTest) = 12
  BY DEF Program, VideoTest
<1>2. \A n \in 1 .. 12 :
        /\ VideoTest[n] = "VideoEncCreate" => n = 1
        /\ VideoTest[n] = "VideoEncInit" => n = 2
        /\ VideoTest[n] = "AllocInputBuffer" => n = 3
        /\ VideoTest[n] = "GetOneAllocInputBuffer" => n = 4
        /\ VideoTest[n] = "fread" => n = 5
        /\ VideoTest[n] = "AddOneInputBuffer" => n = 6
        /\ VideoTest[n] = "VideoEncodeOneFrame" => n = 7
        /\ VideoTest[n] = "AlreadyUsedInputBuffer" => n = 8
        /\ VideoTest[n] = "ReturnOneAllocInputBuffer" => n = 9
        /\ VideoTest[n] = "GetOneBitstreamFrame" => n = 10
        /\ VideoTest[n] = "fwrite" => n = 11
        /\ VideoTest[n] = "FreeOneBitStreamFrame" => n = 12
        /\ VideoTest[n] # "VideoEncDestroy"
  BY DEF VideoTest
<1> QED
  BY <1>1, <1>2 DEF Calls, End

\* AWJpecEnc begins with VideoEncCreate, ends with VideoEncDestroy and calls no
\* VideoEncodeOneFrame in between.
LEMMA JpegCalls ==
  ASSUME client \in {"AWJpecEnc", "AWJpecEncPhy"}
  PROVE  /\ End \in Nat /\ End > 2
         /\ Calls("VideoEncCreate") => at = 1
         /\ Calls("VideoEncDestroy") => at = End - 1
         /\ ~ Calls("VideoEncodeOneFrame")
         /\ \A name \in {"VideoEncInit", "AllocInputBuffer", "GetOneAllocInputBuffer",
                         "fread", "AddOneInputBuffer", "AlreadyUsedInputBuffer",
                         "ReturnOneAllocInputBuffer", "GetOneBitstreamFrame", "fwrite",
                         "FreeOneBitStreamFrame"} :
              Calls(name) => at \in 2 .. End - 2
<1>1. CASE client = "AWJpecEnc"
  <2>1. Program[client] = AWJpecEnc /\ Len(AWJpecEnc) = 12
    BY <1>1 DEF Program, AWJpecEnc
  <2>2. \A n \in 1 .. 12 :
          /\ AWJpecEnc[n] = "VideoEncCreate" <=> n = 1
          /\ AWJpecEnc[n] = "VideoEncDestroy" <=> n = 12
          /\ AWJpecEnc[n] # "VideoEncodeOneFrame"
    BY DEF AWJpecEnc
  <2> QED
    BY <1>1, <2>1, <2>2 DEF Calls, End
<1>2. CASE client = "AWJpecEncPhy"
  <2>1. Program[client] = AWJpecEncPhy /\ Len(AWJpecEncPhy) = 8
    BY <1>2 DEF Program, AWJpecEncPhy
  <2>2. \A n \in 1 .. 8 :
          /\ AWJpecEncPhy[n] = "VideoEncCreate" <=> n = 1
          /\ AWJpecEncPhy[n] = "VideoEncDestroy" <=> n = 8
          /\ AWJpecEncPhy[n] # "VideoEncodeOneFrame"
    BY DEF AWJpecEncPhy
  <2> QED
    BY <1>2, <2>1, <2>2 DEF Calls, End
<1> QED
  BY <1>1, <1>2

-----------------------------------------------------------------------------
(* The registry.                                                           *)

\* A set of natural numbers has a smallest one.
LEMMA Smallest ==
  ASSUME NEW T, T \subseteq Nat, T # {}
  PROVE  \E x \in T : \A y \in T : x <= y
<1>1. PICK x \in T : \A y \in T : ~ (<<y, x>> \in OpToRel(<, Nat))
  BY NatLessThanWellFounded, WFMin, Zenon
<1>2. \A y \in T : ~ (y < x)
  BY <1>1, Zenon DEF OpToRel
<1> QED
  BY <1>2

\* One node per codec, and one for every registration that was answered with 0.
RegistryInv ==
  /\ dev_lst \in Seq(VEncoderNode)
  /\ \A n, m \in 1 .. Len(dev_lst) : dev_lst[n].type = dev_lst[m].type => n = m
  /\ \A type \in CodecTypes, dev \in Devices :
       <<type, dev>> \in accepted =>
         \E n \in 1 .. Len(dev_lst) : dev_lst[n].type = type /\ dev_lst[n].device = dev

\* A registration adds a node for a codec that has none.
LEMMA RegisterInv ==
  ASSUME RegistryInv, NEW type \in CodecTypes, NEW dev \in Devices,
         VEncoderRegister(type, dev)
  PROVE  RegistryInv'
<1> DEFINE node == [type |-> type, device |-> dev]
<1>1. /\ dev_lst \in Seq(VEncoderNode) /\ Len(dev_lst) \in Nat
      /\ DOMAIN dev_lst = 1 .. Len(dev_lst)
  BY LenProperties DEF RegistryInv
<1>2. node \in VEncoderNode /\ node.type = type /\ node.device = dev
  BY DEF VEncoderNode
<1> HIDE DEF node
<1>3. /\ dev_lst' \in Seq(VEncoderNode)
      /\ Len(dev_lst') = Len(dev_lst) + 1
      /\ \A n \in 1 .. Len(dev_lst) : dev_lst'[n] = dev_lst[n]
      /\ dev_lst'[Len(dev_lst) + 1] = node
  <2>1. dev_lst' = Append(dev_lst, node)
    BY DEF VEncoderRegister, node
  <2> QED
    BY <1>1, <1>2, <2>1, AppendProperties
<1>4. \A n \in 1 .. Len(dev_lst) : dev_lst[n].type # type
  BY <1>1 DEF VEncoderRegister, Conflict
<1>5. \A n, m \in 1 .. Len(dev_lst') : dev_lst'[n].type = dev_lst'[m].type => n = m
  BY <1>1, <1>2, <1>3, <1>4 DEF RegistryInv
<1>6. ASSUME NEW t \in CodecTypes, NEW d \in Devices, <<t, d>> \in accepted'
      PROVE  \E n \in 1 .. Len(dev_lst') : dev_lst'[n].type = t /\ dev_lst'[n].device = d
  <2>1. CASE <<t, d>> \in accepted
    <3>1. PICK n \in 1 .. Len(dev_lst) : dev_lst[n].type = t /\ dev_lst[n].device = d
      BY <2>1 DEF RegistryInv
    <3> QED
      BY <1>1, <1>3, <3>1
  <2>2. CASE <<t, d>> = <<type, dev>>
    BY <1>1, <1>2, <1>3, <2>2
  <2> QED
    BY <1>6, <2>1, <2>2 DEF VEncoderRegister
<1> QED
  BY <1>3, <1>5, <1>6 DEF RegistryInv

\* The registry changes by the constructor alone.
LEMMA RegistryKept == Spec => []RegistryInv
<1>1. Init => RegistryInv
  BY EmptySeq DEF Init, RegistryInit, RegistryInv
<1>2. RegistryInv /\ [Next]_vars => RegistryInv'
  <2> SUFFICES ASSUME RegistryInv, [Next]_vars PROVE RegistryInv'
    OBVIOUS
  <2>1. CASE RegistryNext
    <3>1. ASSUME NEW type \in CodecTypes, NEW dev \in Devices,
                 VEncoderRegister(type, dev)
          PROVE  RegistryInv'
      BY <3>1, RegisterInv
    <3>2. CASE UNCHANGED <<dev_lst, accepted>>
      BY <3>2 DEF RegistryInv
    <3> QED
      BY <2>1, <3>1, <3>2
      DEF RegistryNext, ScanLocalPath, AddVEncPluginSingle, PluginInit, AllVisited
  <2>2. CASE UNCHANGED registry
    BY <2>2 DEF registry, RegistryInv
  <2>3. ClientNext => UNCHANGED registry
    BY DEF ClientNext, CreateAdapter, CreateContext, CreateOpen, CreateFails, VideoEncInit,
           VideoEncInitFails, VideoEncUnInit, VideoEncDestroy, AllocInputBuffer,
           GetOneAllocInputBuffer, ReturnOneAllocInputBuffer, fread, AddOneInputBuffer,
           AlreadyUsedInputBuffer, VideoEncodeOneFrame, GetOneBitstreamFrame, fwrite,
           FreeOneBitStreamFrame
  <2> QED
    BY <2>1, <2>2, <2>3 DEF Next, Stopped, vars
<1> QED
  BY <1>1, <1>2, PTL DEF Spec

\* VideoEncCreate finds the device of every registration that was accepted.
THEOREM DeviceFound == Spec => []RegisteredFound
<1>1. RegistryInv => RegisteredFound
  <2> SUFFICES ASSUME RegistryInv, NEW type \in CodecTypes, NEW dev \in Devices,
                      <<type, dev>> \in accepted
               PROVE  VencoderDeviceCreate(type) = dev
    BY DEF RegisteredFound
  <2>1. PICK n \in 1 .. Len(dev_lst) : dev_lst[n].type = type /\ dev_lst[n].device = dev
    BY DEF RegistryInv
  <2>2. Matches(type) = {n}
    BY <2>1, LenProperties DEF Matches, RegistryInv
  <2>3. (CHOOSE k \in {n} : \A j \in {n} : k <= j) = n
    <3>1. n <= n
      BY LenProperties DEF RegistryInv
    <3> QED
      BY <3>1, Zenon
  <2> QED
    BY <2>1, <2>2, <2>3 DEF VencoderDeviceCreate
<1> QED
  BY <1>1, RegistryKept, PTL

-----------------------------------------------------------------------------
(* The context.                                                            *)

\* How far the context has come decides what there is of it.
ContextInv ==
  /\ ctx \in {"none", "adapter", "context", "made"}
  /\ bInit \in BOOLEAN /\ pFBM \in BOOLEAN /\ (pFBM <=> bInit) /\ (bInit => ctx = "made")
  /\ adapter = IF ctx = "none" THEN 0 ELSE 1
  /\ handle \in IF ctx # "made" THEN {"closed"}
                ELSE IF bInit THEN {"initialized", "failed"} ELSE {"open"}

\* The picture buffers are the manager's, and so is their memory.
PictureInv ==
  /\ buffer_num \in {0, nBufferNum}
  /\ allocate_buffer \in BOOLEAN
  /\ allocate_buffer => bInit /\ buffer_num = nBufferNum
  /\ memory = IF allocate_buffer THEN nBufferNum ELSE 0

\* The client is at a call of its program, at the first one while the context is made.
ClientInv ==
  /\ client \in {"VideoTest", "AWJpecEnc", "AWJpecEncPhy", "any"}
  /\ at \in Nat /\ i \in 1 .. testNumber
  /\ ctx \in {"adapter", "context"} => client = "any" \/ at = 1
  /\ client \in {"AWJpecEnc", "AWJpecEncPhy"} /\ at = End => ctx = "none"

\* Wherever a client goes, it is a place of its program.
LEMMA GoesOn ==
  ASSUME ClientInv, NEW name, NEW ok \in BOOLEAN, Goes(name, ok)
  PROVE  /\ client' = client /\ at' \in Nat /\ i' \in 1 .. testNumber /\ End' = End
         /\ client = "VideoTest" =>
              IF name = "VideoEncCreate" /\ ~ ok THEN at' = 13 /\ i' = i
              ELSE IF at = 12 /\ i < testNumber THEN at' = 4 /\ i' = i + 1
              ELSE at' = at + 1 /\ i' = i
         /\ client \in {"AWJpecEnc", "AWJpecEncPhy"} =>
              /\ i' = i
              /\ at' = IF ok \/ name \notin {"VideoEncCreate", "VideoEncInit", "AllocInputBuffer"}
                         THEN at + 1
                       ELSE IF name = "VideoEncCreate" THEN End ELSE End - 1
<1>1. client' = client /\ End' = End
  BY DEF Goes, End
<1>2. CASE client = "any"
  BY <1>1, <1>2 DEF Goes, ClientInv
<1>3. CASE client = "VideoTest"
  BY <1>1, <1>3, VideoTestCalls, ContextAssumption
  DEF Goes, ClientInv, Minds, AfterError, LoopHead
<1>4. CASE client \in {"AWJpecEnc", "AWJpecEncPhy"}
  BY <1>1, <1>4, JpegCalls DEF Goes, ClientInv, Minds, AfterError
<1> QED
  BY <1>1, <1>2, <1>3, <1>4 DEF ClientInv

\* The calls that neither make nor unmake a context.
Middle == {"VideoEncInit", "AllocInputBuffer", "GetOneAllocInputBuffer", "fread",
           "AddOneInputBuffer", "VideoEncodeOneFrame", "AlreadyUsedInputBuffer",
           "ReturnOneAllocInputBuffer", "GetOneBitstreamFrame", "fwrite",
           "FreeOneBitStreamFrame"}

\* What they do to the program: it goes on, or the client is killed.
LEMMA MiddleCalls ==
  ClientNext =>
    \/ CreateAdapter \/ (\E codec \in CodecTypes : CreateContext(codec)) \/ CreateOpen
    \/ CreateFails \/ VideoEncUnInit \/ VideoEncDestroy
    \/ /\ UNCHANGED ctx
       /\ \E name \in Middle, ok \in BOOLEAN :
            Calls(name) /\ (Goes(name, ok) \/ (at' = Killed /\ UNCHANGED <<client, i>>))
BY DEF ClientNext, VideoEncInit, VideoEncInitFails, AllocInputBuffer, Middle, context,
       GetOneAllocInputBuffer, ReturnOneAllocInputBuffer, fread, AddOneInputBuffer,
       AlreadyUsedInputBuffer, VideoEncodeOneFrame, GetOneBitstreamFrame, fwrite,
       FreeOneBitStreamFrame

\* A call moves the context, the adapter and the device's handle together.
LEMMA ContextStep ==
  ASSUME ContextInv, ClientNext
  PROVE  ContextInv'
<1>1. CASE UNCHANGED <<ctx, adapter, bInit, pFBM, handle>>
  BY <1>1 DEF ContextInv
<1>2. CASE CreateAdapter
  BY <1>2 DEF ContextInv, CreateAdapter, device
<1>3. ASSUME NEW codec \in CodecTypes, CreateContext(codec) PROVE ContextInv'
  BY <1>3 DEF ContextInv, CreateContext, device
<1>5. CASE CreateOpen
  BY <1>5 DEF ContextInv, CreateOpen
<1>6. CASE CreateFails
  BY <1>6 DEF ContextInv, CreateFails, device
<1>7. CASE VideoEncUnInit
  BY <1>7 DEF ContextInv, VideoEncUnInit
<1>8. CASE VideoEncDestroy
  BY <1>8 DEF ContextInv, VideoEncDestroy, DestroyReady
<1>4. ASSUME NEW ok \in BOOLEAN, VideoEncInit(ok) PROVE ContextInv'
  BY <1>4 DEF ContextInv, VideoEncInit
<1> QED
  BY <1>1, <1>2, <1>3, <1>4, <1>5, <1>6, <1>7, <1>8
  DEF ClientNext, VideoEncInitFails, AllocInputBuffer, GetOneAllocInputBuffer,
      ReturnOneAllocInputBuffer, fread, AddOneInputBuffer, AlreadyUsedInputBuffer,
      VideoEncodeOneFrame, GetOneBitstreamFrame, fwrite, FreeOneBitStreamFrame,
      context, device

\* A call that makes picture buffers, or gives up their manager, takes the memory along.
LEMMA PictureStep ==
  ASSUME ContextInv, PictureInv, ClientNext
  PROVE  PictureInv'
<1>1. CASE UNCHANGED <<buffer_num, allocate_buffer, memory, bInit>>
  BY <1>1 DEF PictureInv
<1>3. CASE VideoEncUnInit
  <2>1. memory' = memory - PicturesFreed /\ buffer_num' = 0 /\ allocate_buffer' = FALSE
    BY <1>3 DEF VideoEncUnInit, NoManager
  <2>2. PicturesFreed = memory /\ memory \in Nat
    BY ContextAssumption DEF PictureInv, PicturesFreed
  <2>3. memory' = 0
    BY <2>1, <2>2
  <2> QED
    BY <2>1, <2>3 DEF PictureInv
<1>4. ASSUME NEW ok \in BOOLEAN, VideoEncInit(ok) PROVE PictureInv'
  BY <1>4 DEF ContextInv, PictureInv, VideoEncInit, NoManager
<1>5. ASSUME NEW ok \in BOOLEAN, AllocInputBuffer(ok) PROVE PictureInv'
  <2>1. ~ allocate_buffer /\ memory = 0 /\ bInit' = bInit
    BY <1>5 DEF AllocInputBuffer, context, PictureInv
  <2>2. CASE /\ pFBM /\ buffer_num' = nBufferNum /\ allocate_buffer' = TRUE
             /\ memory' = memory + nBufferNum
    BY <2>1, <2>2, ContextAssumption DEF ContextInv, PictureInv
  <2>3. CASE /\ buffer_num' = (IF pFBM THEN nBufferNum ELSE buffer_num)
             /\ UNCHANGED <<allocate_buffer, memory>>
    BY <2>1, <2>3 DEF PictureInv
  <2> QED
    BY <1>5, <2>2, <2>3 DEF AllocInputBuffer
<1> QED
  BY <1>1, <1>3, <1>4, <1>5
  DEF ClientNext, CreateAdapter, CreateContext, CreateOpen, CreateFails,
      VideoEncInitFails, VideoEncDestroy, GetOneAllocInputBuffer,
      ReturnOneAllocInputBuffer, fread, AddOneInputBuffer, AlreadyUsedInputBuffer,
      VideoEncodeOneFrame, GetOneBitstreamFrame, fwrite, FreeOneBitStreamFrame,
      context, pictures, ContextInv

\* A call leads to a place of the client's program again.
LEMMA ClientStep ==
  ASSUME ContextInv, ClientInv, ClientNext
  PROVE  ClientInv'
<1>1. CASE UNCHANGED <<program, ctx>>
  BY <1>1 DEF ClientInv, program, End
<1>6. CASE CreateAdapter
  <2>1. UNCHANGED program /\ ctx' = "adapter" /\ Calls("VideoEncCreate")
    BY <1>6 DEF CreateAdapter
  <2>2. client # "any" => at = 1 /\ at # End
    BY <2>1, VideoTestCalls, JpegCalls DEF ClientInv
  <2> QED
    BY <2>1, <2>2 DEF ClientInv, program, End
<1>7. ASSUME NEW codec \in CodecTypes, CreateContext(codec) PROVE ClientInv'
  BY <1>7 DEF CreateContext, ClientInv, program, End
<1>8. VideoEncUnInit => UNCHANGED <<program, ctx>>
  BY DEF VideoEncUnInit
<1>2. CASE CreateOpen
  <2>1. ctx = "context" /\ ctx' = "made" /\ Goes("VideoEncCreate", TRUE)
    BY <1>2 DEF CreateOpen
  <2>2. client \in {"AWJpecEnc", "AWJpecEncPhy"} => at' # End'
    <3>1. SUFFICES ASSUME client \in {"AWJpecEnc", "AWJpecEncPhy"} PROVE at' # End'
      OBVIOUS
    <3>2. at = 1 /\ End \in Nat /\ End > 2
      BY <2>1, <3>1, JpegCalls DEF ClientInv
    <3>3. End' = End /\ at' = at + 1
      BY <2>1, <3>1, GoesOn
    <3> QED
      BY <3>2, <3>3
  <2>3. client' = client /\ at' \in Nat /\ i' \in 1 .. testNumber
    BY <2>1, GoesOn
  <2> QED
    BY <2>1, <2>2, <2>3 DEF ClientInv
<1>3. CASE CreateFails
  BY <1>3, GoesOn DEF CreateFails, ClientInv
<1>4. CASE VideoEncDestroy
  BY <1>4, GoesOn DEF VideoEncDestroy, ClientInv
<1>5. ASSUME UNCHANGED ctx, NEW name \in Middle, NEW ok \in BOOLEAN, Calls(name),
             Goes(name, ok) \/ (at' = Killed /\ UNCHANGED <<client, i>>)
      PROVE  ClientInv'
  <2>1. ctx \in {"adapter", "context"} => client = "any"
    BY <1>5, VideoTestCalls, JpegCalls DEF ClientInv, Middle
  <2>2. client \in {"AWJpecEnc", "AWJpecEncPhy"} => at' # End' 
    BY <1>5, JpegCalls, GoesOn DEF Middle, Killed, End
  <2>3. client' = client /\ at' \in Nat /\ i' \in 1 .. testNumber
    BY <1>5, GoesOn DEF Killed, ClientInv
  <2> QED
    BY <1>5, <2>1, <2>2, <2>3 DEF ClientInv
<1> QED
  BY <1>1, <1>2, <1>3, <1>4, <1>5, <1>6, <1>7, <1>8, MiddleCalls

\* Context, pictures and client stay in step on every way through the program.
LEMMA ContextKept == Spec => [](ContextInv /\ PictureInv /\ ClientInv)
<1> DEFINE I == ContextInv /\ PictureInv /\ ClientInv
<1>1. Init => I
  <2> SUFFICES ASSUME Init PROVE I
    OBVIOUS
  <2>1. ContextInv /\ PictureInv
    BY DEF Init, ContextInv, PictureInv
  <2>2. client \in {"VideoTest", "AWJpecEnc", "AWJpecEncPhy", "any"} /\ at = 1 /\ i = 1
    BY DEF Init, Program
  <2>3. client \in {"AWJpecEnc", "AWJpecEncPhy"} => at # End
    BY <2>2, JpegCalls
  <2>4. ClientInv
    BY <2>2, <2>3, ContextAssumption DEF ClientInv
  <2> QED
    BY <2>1, <2>4
<1>2. I /\ [Next]_vars => I'
  <2> SUFFICES ASSUME I, [Next]_vars PROVE I'
    OBVIOUS
  <2>1. CASE ClientNext
    BY <2>1, ContextStep, PictureStep, ClientStep
  <2>2. CASE UNCHANGED <<program, context, pictures, device>>
    BY <2>2 DEF program, context, pictures, device, ContextInv, PictureInv, ClientInv, End
  <2> QED
    BY <2>1, <2>2 DEF Next, Stopped, vars
<1> HIDE DEF I
<1>3. Spec => []I
  BY <1>1, <1>2, PTL DEF Spec
<1> QED
  BY <1>3 DEF I

\* Whichever stage fails and wherever the client stops, the context takes
\* everything with it: it is all there when ctx says so, and nothing else.
THEOREM NothingRemains == Spec => []NothingLeft
<1>1. ContextInv /\ PictureInv /\ ClientInv => NothingLeft
  BY DEF ContextInv, PictureInv, ClientInv, NothingLeft
<1> QED
  BY <1>1, ContextKept, PTL

-----------------------------------------------------------------------------
(* Frames.                                                                 *)

Pictures == 0 .. nBufferNum - 1

\* The pipeline is in order, what encode was given is what has been finished, and
\* without a manager there are no frames.
FrameInv ==
  /\ submitted \in Seq(Frame) /\ encoded \in Seq(Frame)
  /\ finished \in Nat /\ returned \in Nat
  /\ returned <= finished /\ finished <= Len(submitted) /\ Len(encoded) = finished
  /\ inputBuffer \in Frame
  /\ allocate_queue \in Seq(Pictures)
  /\ ~ bInit => submitted = <<>> /\ encoded = <<>>

\* Also the queue that enqueue cuts short holds picture buffers.
LEMMA EnqueueType ==
  ASSUME NEW S, NEW q \in Seq(S), NEW p \in S
  PROVE  enqueue(q, p) \in Seq(S)
<1>1. CASE p \in Range(q)
  <2>1. \E n \in DOMAIN q : q[n] = p
    BY <1>1 DEF Range
  <2>2. PlaceOf(q, p) \in DOMAIN q
    BY <2>1, Zenon DEF PlaceOf
  <2>3. PlaceOf(q, p) \in 1 .. Len(q) /\ Len(q) \in Nat
    BY <2>2, LenProperties
  <2>4. \A n \in 1 .. PlaceOf(q, p) : q[n] \in S
    BY <2>3, ElementOfSeq
  <2>5. SubSeq(q, 1, PlaceOf(q, p)) \in Seq(S)
    BY <2>3, SubSeqProperties
  <2> QED
    BY <1>1, <2>5 DEF enqueue
<1>2. CASE p \notin Range(q)
  BY <1>2, AppendProperties DEF enqueue
<1> QED
  BY <1>1, <1>2

\* The calls that change neither frames nor pictures.
LEMMA FrameCalls ==
  ClientNext =>
    \/ UNCHANGED <<submitted, finished, returned, encoded, inputBuffer, allocate_queue, bInit>>
    \/ \E ok \in BOOLEAN : VideoEncInit(ok) \/ AllocInputBuffer(ok)
    \/ VideoEncUnInit \/ GetOneAllocInputBuffer \/ ReturnOneAllocInputBuffer \/ fread
    \/ AddOneInputBuffer \/ AlreadyUsedInputBuffer
    \/ \E stream \in BOOLEAN : VideoEncodeOneFrame(stream)
    \/ \E codec \in CodecTypes : CreateContext(codec)
BY DEF ClientNext, CreateAdapter, CreateOpen, CreateFails,
       VideoEncInitFails, VideoEncDestroy, GetOneBitstreamFrame, fwrite,
       FreeOneBitStreamFrame, context, frameList, pictures, device, locals

\* A call keeps the pipeline in order and the device's frames the finished ones.
LEMMA FrameStep ==
  ASSUME ContextInv, PictureInv, ClientInv, FrameInv, ClientNext
  PROVE  FrameInv'
<1>1. CASE UNCHANGED <<submitted, finished, returned, encoded, inputBuffer, allocate_queue, bInit>>
  BY <1>1 DEF FrameInv
<1>2. ASSUME NEW codec \in CodecTypes, CreateContext(codec) PROVE FrameInv'
  <2>1. UNCHANGED <<submitted, finished, returned, encoded, inputBuffer, allocate_queue>>
    BY <1>2 DEF CreateContext, frameList, pictures, device, locals
  <2>2. ~ bInit
    BY <1>2 DEF CreateContext, ContextInv
  <2> QED
    BY <2>1, <2>2 DEF FrameInv
<1>3. ASSUME NoManager, encoded' = <<>>, UNCHANGED inputBuffer PROVE FrameInv'
  BY <1>3, EmptySeq DEF FrameInv, NoManager
<1>4. ASSUME NEW ok \in BOOLEAN, VideoEncInit(ok) PROVE FrameInv'
  BY <1>3, <1>4 DEF VideoEncInit, locals
<1>5. CASE VideoEncUnInit
  BY <1>3, <1>5 DEF VideoEncUnInit
<1>6. ASSUME NEW ok \in BOOLEAN, AllocInputBuffer(ok) PROVE FrameInv'
  <2>1. UNCHANGED <<submitted, finished, returned, encoded, inputBuffer, bInit>>
    BY <1>6 DEF AllocInputBuffer, frameList, device, locals, context
  <2>2. allocate_queue' \in Seq(Pictures)
    <3>1. [n \in 1 .. nBufferNum |-> n - 1] \in Seq(Pictures)
      BY ContextAssumption, IsASeq DEF Pictures
    <3> QED
      BY <1>6, <3>1 DEF AllocInputBuffer, FrameInv
  <2> QED
    BY <2>1, <2>2 DEF FrameInv
<1>7. CASE GetOneAllocInputBuffer
  <2>1. UNCHANGED <<submitted, finished, returned, encoded, bInit>>
    BY <1>7 DEF GetOneAllocInputBuffer, frameList, device, context
  <2>2. CASE UNCHANGED <<inputBuffer, allocate_queue>>
    BY <2>1, <2>2 DEF FrameInv
  <2>3. CASE /\ allocate_queue # <<>>
             /\ inputBuffer' = [nID |-> Head(allocate_queue), nPts |-> 0]
             /\ allocate_queue' = Tail(allocate_queue)
    <3>1. Head(allocate_queue) \in Pictures /\ Tail(allocate_queue) \in Seq(Pictures)
      BY <2>3, HeadTailProperties, EmptySeq DEF FrameInv
    <3>2. inputBuffer' \in Frame
      BY <2>3, <3>1, ContextAssumption DEF Frame, IDs, Pictures
    <3> QED
      BY <2>1, <2>3, <3>1, <3>2 DEF FrameInv
  <2> QED
    BY <1>7, <2>2, <2>3 DEF GetOneAllocInputBuffer, dequeue
<1>8. CASE ReturnOneAllocInputBuffer
  <2>1. UNCHANGED <<submitted, finished, returned, encoded, inputBuffer, bInit>>
    BY <1>8 DEF ReturnOneAllocInputBuffer, frameList, device, context, locals
  <2>2. \/ UNCHANGED allocate_queue
        \/ /\ inputBuffer.nID < buffer_num
           /\ allocate_queue' = enqueue(allocate_queue, inputBuffer.nID)
    BY <1>8 DEF ReturnOneAllocInputBuffer
  <2>3. inputBuffer.nID < buffer_num => inputBuffer.nID \in Pictures
    BY ContextAssumption DEF FrameInv, PictureInv, Frame, IDs, Pictures
  <2>4. allocate_queue' \in Seq(Pictures)
    BY <2>2, <2>3, EnqueueType DEF FrameInv
  <2> QED
    BY <2>1, <2>4 DEF FrameInv
<1>9. CASE fread
  <2>1. UNCHANGED <<submitted, finished, returned, encoded, allocate_queue, bInit>>
    BY <1>9 DEF fread, frameList, device, context, pictures
  <2>2. inputBuffer' \in Frame
    <3>1. i \in 0 .. testNumber
      BY ContextAssumption DEF ClientInv
    <3>2. [inputBuffer EXCEPT !.nPts = i] \in Frame
      BY <3>1 DEF FrameInv, Frame
    <3> QED
      BY <1>9, <3>2 DEF fread, FrameInv
  <2> QED
    BY <2>1, <2>2 DEF FrameInv
<1>10. CASE AddOneInputBuffer
  <2>1. UNCHANGED <<encoded, inputBuffer, allocate_queue, bInit>>
    BY <1>10 DEF AddOneInputBuffer, device, context, pictures, locals
  <2>2. CASE UNCHANGED frameList
    BY <2>1, <2>2 DEF FrameInv, frameList
  <2>3. CASE pFBM /\ Queues!Submit(inputBuffer)
    <3>1. submitted' = Append(submitted, inputBuffer) /\ UNCHANGED <<finished, returned>>
      BY <2>3 DEF Queues!Submit
    <3>2. submitted' \in Seq(Frame) /\ Len(submitted') = Len(submitted) + 1 /\ Len(submitted) \in Nat
      BY <3>1, AppendProperties, LenProperties DEF FrameInv
    <3>3. bInit
      BY <2>3 DEF ContextInv
    <3> QED
      BY <2>1, <3>1, <3>2, <3>3 DEF FrameInv
  <2> QED
    BY <1>10, <2>2, <2>3 DEF AddOneInputBuffer
<1>11. CASE AlreadyUsedInputBuffer
  <2>1. UNCHANGED <<encoded, allocate_queue, bInit>>
    BY <1>11 DEF AlreadyUsedInputBuffer, device, context, pictures
  <2>2. CASE UNCHANGED <<frameList, inputBuffer>>
    BY <2>1, <2>2 DEF FrameInv, frameList
  <2>3. CASE Queues!HandBack /\ inputBuffer' = submitted[returned + 1]
    <3>1. returned < finished /\ returned' = returned + 1 /\ UNCHANGED <<submitted, finished>>
      BY <2>3 DEF Queues!HandBack
    <3>2. returned + 1 \in 1 .. Len(submitted)
      BY <3>1, LenProperties DEF FrameInv
    <3>3. inputBuffer' \in Frame
      BY <2>3, <3>2, ElementOfSeq DEF FrameInv
    <3> QED
      BY <2>1, <3>1, <3>3 DEF FrameInv
  <2> QED
    BY <1>11, <2>2, <2>3 DEF AlreadyUsedInputBuffer
<1>12. ASSUME NEW stream \in BOOLEAN, VideoEncodeOneFrame(stream) PROVE FrameInv'
  <2>1. UNCHANGED <<inputBuffer, allocate_queue, bInit>>
    BY <1>12 DEF VideoEncodeOneFrame, context, pictures, locals
  <2>2. CASE UNCHANGED <<frameList, encoded>>
    BY <2>1, <2>2 DEF FrameInv, frameList
  <2>3. CASE /\ pFBM /\ finished < Len(submitted) /\ Queues!Finish
             /\ encoded' = Append(encoded, submitted[finished + 1])
    <3>1. finished' = finished + 1 /\ UNCHANGED <<submitted, returned>>
      BY <2>3 DEF Queues!Finish
    <3>2. finished + 1 \in 1 .. Len(submitted) /\ Len(submitted) \in Nat
      BY <2>3, LenProperties DEF FrameInv
    <3>3. submitted[finished + 1] \in Frame
      BY <3>2, ElementOfSeq DEF FrameInv
    <3>4. encoded' \in Seq(Frame) /\ Len(encoded') = Len(encoded) + 1
      BY <2>3, <3>3, AppendProperties DEF FrameInv
    <3>5. bInit
      BY <2>3 DEF ContextInv
    <3> QED
      BY <2>1, <2>3, <3>1, <3>2, <3>4, <3>5 DEF FrameInv
  <2> QED
    BY <1>12, <2>2, <2>3 DEF VideoEncodeOneFrame, FrameUsed
<1> QED
  BY <1>1, <1>2, <1>4, <1>5, <1>6, <1>7, <1>8, <1>9, <1>10, <1>11, <1>12, FrameCalls

\* So does every step.
LEMMA FrameKept == Spec => []FrameInv
<1>1. Init => FrameInv
  <2> SUFFICES ASSUME Init PROVE FrameInv
    OBVIOUS
  <2>1. /\ submitted = <<>> /\ finished = 0 /\ returned = 0 /\ encoded = <<>>
        /\ allocate_queue = <<>>
    BY DEF Init, Queues!Init
  <2>2. inputBuffer \in Frame
    BY ContextAssumption DEF Init, Frame, IDs
  <2> QED
    BY <2>1, <2>2, EmptySeq DEF FrameInv
<1>2. (ContextInv /\ PictureInv /\ ClientInv) /\ FrameInv /\ [Next]_vars => FrameInv'
  <2> SUFFICES ASSUME ContextInv, PictureInv, ClientInv, FrameInv, [Next]_vars PROVE FrameInv'
    OBVIOUS
  <2>1. CASE ClientNext
    BY <2>1, FrameStep
  <2>2. CASE UNCHANGED <<context, frameList, pictures, device, locals>>
    BY <2>2 DEF context, frameList, pictures, device, locals, FrameInv
  <2> QED
    BY <2>1, <2>2 DEF Next, Stopped, vars
<1> QED
  BY <1>1, <1>2, ContextKept, PTL DEF Spec

\* The step simulation of DeviceSpec: in whatever order the client calls and
\* whatever fails, the device is called as EncoderDevice says.
THEOREM DeviceKept == Spec => DeviceSpec
<1> DEFINE I == ContextInv /\ PictureInv /\ ClientInv /\ FrameInv
<1>1. Init => Device!Init
  BY DEF Init, Queues!Init, Device!Init, Device!Idle
<1>2. I /\ [Next]_vars => [Device!Next]_(Device!vars)
  <2> SUFFICES ASSUME I, [Next]_vars PROVE Device!Next \/ UNCHANGED Device!vars
    OBVIOUS
  <2>1. CASE UNCHANGED <<handle, submitted, encoded>>
    BY <2>1 DEF Device!vars
  <2>2. CASE CreateOpen
    <3>1. handle = "closed" /\ handle' = "open" /\ UNCHANGED <<submitted, encoded>>
      BY <2>2 DEF CreateOpen, ContextInv, frameList
    <3> QED
      BY <3>1 DEF Device!Next, Device!Open
  <2>3. ASSUME NEW ok \in BOOLEAN, VideoEncInit(ok) PROVE Device!Next
    <3>1. handle = "open" /\ submitted = <<>> /\ encoded = <<>>
      BY <2>3 DEF VideoEncInit, ContextInv, FrameInv
    <3>2. /\ handle' = IF ok THEN "initialized" ELSE "failed"
          /\ submitted' = <<>> /\ encoded' = <<>>
      BY <2>3 DEF VideoEncInit, NoManager
    <3>3. Device!Initialize(ok)
      BY <3>1, <3>2 DEF Device!Initialize, Device!Idle
    <3> QED
      BY <3>3 DEF Device!Next
  <2>4. CASE VideoEncUnInit
    <3>1. Device!Begun /\ handle' = "open" /\ submitted' = <<>> /\ encoded' = <<>>
      BY <2>4 DEF VideoEncUnInit, NoManager, ContextInv, Device!Begun
    <3> QED
      BY <3>1 DEF Device!Next, Device!Uninitialize, Device!Idle
  <2>5. CASE VideoEncDestroy
    <3>1. handle = "open" /\ handle' = "closed" /\ UNCHANGED <<submitted, encoded>>
      BY <2>5 DEF VideoEncDestroy, DestroyReady, ContextInv, frameList
    <3> QED
      BY <3>1 DEF Device!Next, Device!Close
  <2>6. CASE AddOneInputBuffer /\ ~ UNCHANGED frameList
    <3>1. pFBM /\ Queues!Submit(inputBuffer) /\ UNCHANGED <<handle, encoded>>
      BY <2>6 DEF AddOneInputBuffer, device
    <3>2. Device!Begun /\ submitted' = Append(submitted, inputBuffer)
      BY <3>1 DEF ContextInv, Queues!Submit, Device!Begun
    <3>3. PICK f \in Frame : f = inputBuffer
      BY DEF FrameInv
    <3>4. Device!Offer(f)
      BY <3>1, <3>2, <3>3 DEF Device!Offer
    <3> QED
      BY <3>4 DEF Device!Next
  <2>7. ASSUME NEW stream \in BOOLEAN, VideoEncodeOneFrame(stream), ~ UNCHANGED <<frameList, encoded>>
        PROVE  Device!Next
    <3>1. /\ pFBM /\ finished < Len(submitted) /\ Queues!Finish
          /\ encoded' = Append(encoded, submitted[finished + 1])
          /\ UNCHANGED handle
      BY <2>7 DEF VideoEncodeOneFrame, FrameUsed
    <3>2. Device!Begun /\ UNCHANGED submitted /\ Len(encoded) = finished
      BY <3>1 DEF ContextInv, Queues!Finish, FrameInv, Device!Begun
    <3>3. Device!Encode
      BY <3>1, <3>2 DEF Device!Encode
    <3> QED
      BY <3>3 DEF Device!Next
  <2>8. CASE RegistryNext /\ UNCHANGED <<frameList, device>>
    BY <2>1, <2>8 DEF frameList, device
  <2>9. CASE UNCHANGED vars
    BY <2>1, <2>9 DEF vars, frameList, device
  <2>10. ASSUME NEW codec \in CodecTypes, CreateContext(codec)
         PROVE  UNCHANGED <<handle, submitted, encoded>>
    BY <2>10 DEF CreateContext, frameList, device
  <2>11. ASSUME NEW ok \in BOOLEAN, AllocInputBuffer(ok)
         PROVE  UNCHANGED <<handle, submitted, encoded>>
    BY <2>11 DEF AllocInputBuffer, frameList, device
  <2>12. ASSUME NEW stream \in BOOLEAN, VideoEncodeOneFrame(stream), UNCHANGED <<frameList, encoded>>
         PROVE  UNCHANGED <<handle, submitted, encoded>>
    BY <2>12 DEF VideoEncodeOneFrame, frameList
  <2>13. ASSUME \/ CreateAdapter \/ CreateFails \/ VideoEncInitFails \/ GetOneAllocInputBuffer
                \/ ReturnOneAllocInputBuffer \/ fread \/ AlreadyUsedInputBuffer
                \/ GetOneBitstreamFrame \/ fwrite \/ FreeOneBitStreamFrame
                \/ (AddOneInputBuffer /\ UNCHANGED frameList)
         PROVE  UNCHANGED <<handle, submitted, encoded>>
    BY <2>13 DEF CreateAdapter, CreateFails, VideoEncInitFails, GetOneAllocInputBuffer,
           ReturnOneAllocInputBuffer, fread, AlreadyUsedInputBuffer, AddOneInputBuffer,
           GetOneBitstreamFrame, fwrite, FreeOneBitStreamFrame, frameList, device,
           Queues!HandBack
  <2>14. CASE ClientNext
    <3>1. CASE \E codec \in CodecTypes : CreateContext(codec)
      BY <2>1, <2>10, <3>1
    <3>2. CASE \E ok \in BOOLEAN : VideoEncInit(ok)
      BY <2>3, <3>2
    <3>3. CASE \E ok \in BOOLEAN : AllocInputBuffer(ok)
      BY <2>1, <2>11, <3>3
    <3>4. CASE \E stream \in BOOLEAN : VideoEncodeOneFrame(stream)
      BY <2>1, <2>7, <2>12, <3>4
    <3>5. CASE AddOneInputBuffer
      BY <2>1, <2>6, <2>13, <3>5
    <3>6. CASE CreateAdapter \/ CreateFails \/ VideoEncInitFails \/ GetOneAllocInputBuffer
               \/ ReturnOneAllocInputBuffer \/ fread \/ AlreadyUsedInputBuffer
               \/ GetOneBitstreamFrame \/ fwrite \/ FreeOneBitStreamFrame
      BY <2>1, <2>13, <3>6
    <3> QED
      BY <2>2, <2>4, <2>5, <2>14, <3>1, <3>2, <3>3, <3>4, <3>5, <3>6 DEF ClientNext
  <2> QED
    BY <2>8, <2>9, <2>14 DEF Next, Stopped
<1> QED
  BY <1>1, <1>2, ContextKept, FrameKept, PTL DEF Spec, DeviceSpec, Device!Spec

-----------------------------------------------------------------------------
(* The round of VideoTest's loop, call by call.                            *)

\* The calls of VideoTest, each with its place and the next one.
RoundStep ==
  \/ /\ at = 1 /\ at' \in {1, 2, 13} /\ i' = i
     /\ UNCHANGED <<frameList, pictures, encoded, streams, locals>>
     /\ bInit' = FALSE
  \/ at = 2 /\ at' = 3 /\ i' = i /\ VideoEncInitFails
  \/ at = 2 /\ at' = 3 /\ i' = i /\ (\E ok \in BOOLEAN : VideoEncInit(ok))
  \/ at = 3 /\ at' = 4 /\ i' = i /\ (\E ok \in BOOLEAN : AllocInputBuffer(ok))
  \/ at = 4 /\ at' = 5 /\ i' = i /\ GetOneAllocInputBuffer
  \/ at = 5 /\ at' \in {0, 6} /\ i' = i /\ fread
  \/ at = 6 /\ at' = 7 /\ i' = i /\ AddOneInputBuffer
  \/ at = 7 /\ at' = 8 /\ i' = i /\ (\E stream \in BOOLEAN : VideoEncodeOneFrame(stream))
  \/ at = 8 /\ at' = 9 /\ i' = i /\ AlreadyUsedInputBuffer
  \/ at = 9 /\ at' \in {0, 10} /\ i' = i /\ ReturnOneAllocInputBuffer
  \/ at = 10 /\ at' = 11 /\ i' = i /\ GetOneBitstreamFrame
  \/ at = 11 /\ at' \in {0, 12} /\ i' = i /\ fwrite
  \/ at = 12 /\ i < testNumber /\ at' = 4 /\ i' = i + 1 /\ FreeOneBitStreamFrame
  \/ at = 12 /\ i = testNumber /\ at' = 13 /\ i' = i /\ FreeOneBitStreamFrame

\* Every step of VideoTest is the one call of its place.
LEMMA VideoTestStep ==
  ASSUME ContextInv, ClientInv, client = "VideoTest", ClientNext
  PROVE  client' = "VideoTest" /\ RoundStep
<1> DEFINE Here(n) == at = n /\ client' = client /\ at' = n + 1 /\ i' = i
<1>g. ASSUME NEW name, NEW ok \in BOOLEAN, Goes(name, ok)
      PROVE  /\ client' = client
             /\ IF name = "VideoEncCreate" /\ ~ ok THEN at' = 13 /\ i' = i
                ELSE IF at = 12 /\ i < testNumber THEN at' = 4 /\ i' = i + 1
                ELSE at' = at + 1 /\ i' = i
  BY <1>g, GoesOn
<1>m. ASSUME NEW name, Calls(name), name # "VideoEncCreate", NEW ok \in BOOLEAN, Goes(name, ok)
      PROVE  /\ client' = client
             /\ IF at = 12 /\ i < testNumber THEN at' = 4 /\ i' = i + 1
                ELSE at' = at + 1 /\ i' = i
  BY <1>m, <1>g
<1>t. ASSUME NEW name, Goes(name, TRUE)
      PROVE  /\ client' = client
             /\ IF at = 12 /\ i < testNumber THEN at' = 4 /\ i' = i + 1
                ELSE at' = at + 1 /\ i' = i
  BY <1>t, VideoTestCalls DEF Goes, LoopHead, ClientInv
<1>1. CASE CreateAdapter
  BY <1>1, VideoTestCalls DEF CreateAdapter, ContextInv, program, device, RoundStep
<1>2. ASSUME NEW codec \in CodecTypes, CreateContext(codec)
      PROVE  /\ client' = client /\ at = 1 /\ at' = 1 /\ i' = i /\ bInit' = FALSE
             /\ UNCHANGED <<frameList, pictures, encoded, streams, locals>>
  BY <1>2 DEF CreateContext, ClientInv, program, device
<1>3. CASE CreateOpen
  <2>1. at = 1 /\ bInit' = FALSE /\ Goes("VideoEncCreate", TRUE)
        /\ UNCHANGED <<frameList, pictures, encoded, streams, locals>>
    BY <1>3 DEF CreateOpen, ClientInv, ContextInv
  <2>2. /\ client' = client
        /\ IF at = 12 /\ i < testNumber THEN at' = 4 /\ i' = i + 1
           ELSE at' = at + 1 /\ i' = i
    BY <2>1, <1>t, Zenon
  <2> QED
    BY <2>1, <2>2 DEF RoundStep
<1>4. CASE CreateFails
  <2>1. at = 1 /\ bInit' = FALSE /\ Goes("VideoEncCreate", FALSE)
        /\ UNCHANGED <<frameList, pictures, encoded, streams, locals>>
    BY <1>4, VideoTestCalls DEF CreateFails, ClientInv, ContextInv, device
  <2> QED
    BY <2>1, <1>g DEF RoundStep
<1>5. ASSUME NEW ok \in BOOLEAN, VideoEncInit(ok) PROVE Here(2)
  <2>1. Calls("VideoEncInit") /\ Goes("VideoEncInit", ok)
    BY <1>5 DEF VideoEncInit
  <2>2. at = 2
    BY <2>1, VideoTestCalls
  <2> QED
    BY <2>1, <2>2, <1>m
<1>6. ASSUME VideoEncInitFails PROVE Here(2)
  <2>1. Calls("VideoEncInit") /\ Goes("VideoEncInit", FALSE)
    BY <1>6 DEF VideoEncInitFails
  <2>2. at = 2
    BY <2>1, VideoTestCalls
  <2>3. client' = client /\ at' = at + 1 /\ i' = i
    BY <2>1, <2>2, VideoTestCalls DEF Goes, Minds
  <2> QED
    BY <2>2, <2>3
<1>7. ASSUME NEW ok \in BOOLEAN, AllocInputBuffer(ok) PROVE Here(3)
  <2>1. Calls("AllocInputBuffer") /\ Goes("AllocInputBuffer", ok)
    BY <1>7 DEF AllocInputBuffer
  <2>2. at = 3
    BY <2>1, VideoTestCalls
  <2> QED
    BY <2>1, <2>2, <1>m
<1>8. ASSUME GetOneAllocInputBuffer PROVE Here(4)
  <2>1. Calls("GetOneAllocInputBuffer") /\ Goes("GetOneAllocInputBuffer", TRUE)
    BY <1>8 DEF GetOneAllocInputBuffer
  <2>2. at = 4
    BY <2>1, VideoTestCalls
  <2>3. /\ client' = client
        /\ IF at = 12 /\ i < testNumber THEN at' = 4 /\ i' = i + 1
           ELSE at' = at + 1 /\ i' = i
    BY <2>1, <1>t, Zenon
  <2> QED
    BY <2>2, <2>3
<1>9. ASSUME fread PROVE at = 5 /\ client' = client /\ at' \in {0, 6} /\ i' = i
  <2>1. Calls("fread") /\ (Goes("fread", TRUE) \/ (at' = 0 /\ UNCHANGED <<client, i>>))
    BY <1>9 DEF fread, Killed
  <2>2. at = 5
    BY <2>1, VideoTestCalls
  <2>3. \/ at' = 0 /\ UNCHANGED <<client, i>>
        \/ /\ client' = client
           /\ IF at = 12 /\ i < testNumber THEN at' = 4 /\ i' = i + 1
              ELSE at' = at + 1 /\ i' = i
    BY <2>1, <1>t, Zenon
  <2> QED
    BY <2>2, <2>3
<1>10. ASSUME AddOneInputBuffer PROVE Here(6)
  <2>1. Calls("AddOneInputBuffer") /\ Goes("AddOneInputBuffer", TRUE)
    BY <1>10 DEF AddOneInputBuffer
  <2>2. at = 6
    BY <2>1, VideoTestCalls
  <2>3. /\ client' = client
        /\ IF at = 12 /\ i < testNumber THEN at' = 4 /\ i' = i + 1
           ELSE at' = at + 1 /\ i' = i
    BY <2>1, <1>t, Zenon
  <2> QED
    BY <2>2, <2>3
<1>11. ASSUME NEW stream \in BOOLEAN, VideoEncodeOneFrame(stream) PROVE Here(7)
  <2>1. Calls("VideoEncodeOneFrame") /\ Goes("VideoEncodeOneFrame", TRUE)
    BY <1>11 DEF VideoEncodeOneFrame
  <2>2. at = 7
    BY <2>1, VideoTestCalls
  <2>3. /\ client' = client
        /\ IF at = 12 /\ i < testNumber THEN at' = 4 /\ i' = i + 1
           ELSE at' = at + 1 /\ i' = i
    BY <2>1, <1>t, Zenon
  <2> QED
    BY <2>2, <2>3
<1>12. ASSUME AlreadyUsedInputBuffer PROVE Here(8)
  <2>1. Calls("AlreadyUsedInputBuffer") /\ Goes("AlreadyUsedInputBuffer", TRUE)
    BY <1>12 DEF AlreadyUsedInputBuffer
  <2>2. at = 8
    BY <2>1, VideoTestCalls
  <2>3. /\ client' = client
        /\ IF at = 12 /\ i < testNumber THEN at' = 4 /\ i' = i + 1
           ELSE at' = at + 1 /\ i' = i
    BY <2>1, <1>t, Zenon
  <2> QED
    BY <2>2, <2>3
<1>13. ASSUME ReturnOneAllocInputBuffer PROVE at = 9 /\ client' = client /\ at' \in {0, 10} /\ i' = i
  <2>1. Calls("ReturnOneAllocInputBuffer") /\ (Goes("ReturnOneAllocInputBuffer", TRUE) \/ (at' = 0 /\ UNCHANGED <<client, i>>))
    BY <1>13 DEF ReturnOneAllocInputBuffer, Killed
  <2>2. at = 9
    BY <2>1, VideoTestCalls
  <2>3. \/ at' = 0 /\ UNCHANGED <<client, i>>
        \/ /\ client' = client
           /\ IF at = 12 /\ i < testNumber THEN at' = 4 /\ i' = i + 1
              ELSE at' = at + 1 /\ i' = i
    BY <2>1, <1>t, Zenon
  <2> QED
    BY <2>2, <2>3
<1>14. ASSUME GetOneBitstreamFrame PROVE Here(10)
  <2>1. Calls("GetOneBitstreamFrame") /\ Goes("GetOneBitstreamFrame", TRUE)
    BY <1>14 DEF GetOneBitstreamFrame
  <2>2. at = 10
    BY <2>1, VideoTestCalls
  <2>3. /\ client' = client
        /\ IF at = 12 /\ i < testNumber THEN at' = 4 /\ i' = i + 1
           ELSE at' = at + 1 /\ i' = i
    BY <2>1, <1>t, Zenon
  <2> QED
    BY <2>2, <2>3
<1>15. ASSUME fwrite PROVE at = 11 /\ client' = client /\ at' \in {0, 12} /\ i' = i
  <2>1. Calls("fwrite") /\ (Goes("fwrite", TRUE) \/ (at' = 0 /\ UNCHANGED <<client, i>>))
    BY <1>15 DEF fwrite, Killed
  <2>2. at = 11
    BY <2>1, VideoTestCalls
  <2>3. \/ at' = 0 /\ UNCHANGED <<client, i>>
        \/ /\ client' = client
           /\ IF at = 12 /\ i < testNumber THEN at' = 4 /\ i' = i + 1
              ELSE at' = at + 1 /\ i' = i
    BY <2>1, <1>t, Zenon
  <2> QED
    BY <2>2, <2>3
<1>16. ASSUME FreeOneBitStreamFrame
       PROVE  /\ at = 12 /\ client' = client
              /\ \/ i < testNumber /\ at' = 4 /\ i' = i + 1
                 \/ i = testNumber /\ at' = 13 /\ i' = i
  <2>1. Calls("FreeOneBitStreamFrame") /\ Goes("FreeOneBitStreamFrame", TRUE)
    BY <1>16 DEF FreeOneBitStreamFrame
  <2>2. at = 12
    BY <2>1, VideoTestCalls
  <2>3. i \in 1 .. testNumber /\ testNumber \in Nat
    BY ContextAssumption DEF ClientInv
  <2>4. /\ client' = client
        /\ IF at = 12 /\ i < testNumber THEN at' = 4 /\ i' = i + 1
           ELSE at' = at + 1 /\ i' = i
    BY <2>1, <1>t
  <2> QED
    BY <2>2, <2>3, <2>4
<1>17. ~ VideoEncUnInit /\ ~ VideoEncDestroy
  BY VideoTestCalls DEF VideoEncUnInit, VideoEncDestroy
<1>18. CASE \E codec \in CodecTypes : CreateContext(codec)
  BY <1>2, <1>18 DEF RoundStep
<1>19. CASE \E ok \in BOOLEAN : VideoEncInit(ok)
  BY <1>5, <1>19 DEF RoundStep
<1>20. CASE VideoEncInitFails
  BY <1>6, <1>20 DEF RoundStep
<1>21. CASE \E ok \in BOOLEAN : AllocInputBuffer(ok)
  BY <1>7, <1>21 DEF RoundStep
<1>22. CASE GetOneAllocInputBuffer
  BY <1>8, <1>22 DEF RoundStep
<1>23. CASE fread
  BY <1>9, <1>23 DEF RoundStep
<1>24. CASE AddOneInputBuffer
  BY <1>10, <1>24 DEF RoundStep
<1>25. CASE \E stream \in BOOLEAN : VideoEncodeOneFrame(stream)
  BY <1>11, <1>25 DEF RoundStep
<1>26. CASE AlreadyUsedInputBuffer
  BY <1>12, <1>26 DEF RoundStep
<1>27. CASE ReturnOneAllocInputBuffer
  BY <1>13, <1>27 DEF RoundStep
<1>28. CASE GetOneBitstreamFrame
  BY <1>14, <1>28 DEF RoundStep
<1>29. CASE fwrite
  BY <1>15, <1>29 DEF RoundStep
<1>30. CASE FreeOneBitStreamFrame
  BY <1>16, <1>30 DEF RoundStep
<1> QED
  BY <1>1, <1>3, <1>4, <1>17, <1>18, <1>19, <1>20, <1>21, <1>22, <1>23, <1>24, <1>25, <1>26,
     <1>27, <1>28, <1>29, <1>30 DEF ClientNext

-----------------------------------------------------------------------------
(* Streams.                                                                *)

\* The device's count is right, and when VideoTest or AWJpecEnc calls
\* FreeOneBitStreamFrame, nothing is unread that the call could take away.
StreamInv ==
  /\ unread \in Seq(Nat) /\ got \in Nat /\ nValidFrameNum = Len(unread) + got
  /\ ~ bInit => unread = <<>> /\ got = 0
  /\ client \in {"AWJpecEnc", "AWJpecEncPhy"} => unread = <<>> /\ got = 0
  /\ client = "VideoTest" =>
       /\ at \in 1 .. 7 \/ at = 13 => unread = <<>> /\ got = 0
       /\ at \in 8 .. 10 => Len(unread) <= 1 /\ got = 0
       /\ at \in 11 .. 12 => unread = <<>> /\ got <= 1

StreamsUnchanged == UNCHANGED <<unread, got, nValidFrameNum, bInit>>

\* The calls that have to do with streams.
LEMMA StreamCalls ==
  ASSUME ContextInv, StreamInv, ClientNext
  PROVE  \/ StreamsUnchanged
         \/ unread' = <<>> /\ nValidFrameNum' = 0 /\ got' = 0
         \/ \E stream \in BOOLEAN : VideoEncodeOneFrame(stream)
         \/ GetOneBitstreamFrame \/ FreeOneBitStreamFrame
<1>1. ASSUME NEW ok \in BOOLEAN, VideoEncInit(ok)
      PROVE  unread' = <<>> /\ nValidFrameNum' = 0 /\ got' = 0
  BY <1>1 DEF VideoEncInit, locals, StreamInv
<1>2. VideoEncUnInit => unread' = <<>> /\ nValidFrameNum' = 0 /\ got' = 0
  BY DEF VideoEncUnInit
<1>3. ASSUME NEW codec \in CodecTypes, CreateContext(codec) PROVE StreamsUnchanged
  BY <1>3 DEF CreateContext, ContextInv, streams, locals, StreamsUnchanged
<1>4. ASSUME NEW ok \in BOOLEAN, AllocInputBuffer(ok) PROVE StreamsUnchanged
  BY <1>4 DEF AllocInputBuffer, context, streams, locals, StreamsUnchanged
<1>5. ASSUME \/ CreateAdapter \/ CreateOpen \/ CreateFails \/ VideoEncInitFails
             \/ VideoEncDestroy \/ GetOneAllocInputBuffer
      PROVE  StreamsUnchanged
  BY <1>5 DEF CreateAdapter, CreateOpen, CreateFails, VideoEncInitFails, VideoEncDestroy,
              GetOneAllocInputBuffer, context, streams, locals, StreamsUnchanged
<1>6. ASSUME \/ ReturnOneAllocInputBuffer \/ fread
             \/ AddOneInputBuffer \/ AlreadyUsedInputBuffer \/ fwrite
      PROVE  StreamsUnchanged
  BY <1>6 DEF ReturnOneAllocInputBuffer, fread, AddOneInputBuffer, AlreadyUsedInputBuffer,
              fwrite, context, streams, locals, StreamsUnchanged
<1> QED
  BY <1>1, <1>2, <1>3, <1>4, <1>5, <1>6 DEF ClientNext

\* A call keeps the device's count and VideoTest's places of it.
LEMMA StreamStep ==
  ASSUME ContextInv, ClientInv, FrameInv, StreamInv, ClientNext
  PROVE  StreamInv'
<1>c. client' = client
  <2>1. \A name, ok : Goes(name, ok) => client' = client
    BY DEF Goes
  <2> QED
    BY <2>1 DEF ClientNext, CreateAdapter, CreateContext, CreateOpen, CreateFails,
          VideoEncInit, VideoEncInitFails, VideoEncUnInit, VideoEncDestroy, AllocInputBuffer,
          GetOneAllocInputBuffer, ReturnOneAllocInputBuffer, fread, AddOneInputBuffer,
          AlreadyUsedInputBuffer, VideoEncodeOneFrame, GetOneBitstreamFrame, fwrite,
          FreeOneBitStreamFrame, program
<1>r. client = "VideoTest" => RoundStep
  BY VideoTestStep
<1>1. CASE /\ StreamsUnchanged /\ ~ GetOneBitstreamFrame /\ ~ FreeOneBitStreamFrame
           /\ ~ (\E stream \in BOOLEAN : VideoEncodeOneFrame(stream))
  <2>1. client = "VideoTest" =>
          \/ at \in 1 .. 6 /\ (at' \in 1 .. 7 \/ at' \in {0, 13})
          \/ at \in 8 .. 9 /\ at' \in {0, 9, 10}
          \/ at = 11 /\ at' \in {0, 12}
    BY <1>r, <1>1 DEF RoundStep
  <2> QED
    BY <1>c, <1>1, <2>1 DEF StreamInv, StreamsUnchanged
<1>2. ASSUME unread' = <<>>, nValidFrameNum' = 0, got' = 0 PROVE StreamInv'
  <2>1. <<>> \in Seq(Nat) /\ Len(<<>>) = 0
    BY EmptySeq
  <2> QED
    BY <1>2, <2>1 DEF StreamInv
<1>3. ASSUME NEW stream \in BOOLEAN, VideoEncodeOneFrame(stream) PROVE StreamInv'
  <2>1. client \notin {"AWJpecEnc", "AWJpecEncPhy"} /\ UNCHANGED <<got, bInit>>
    BY <1>3, JpegCalls DEF VideoEncodeOneFrame, locals, context
  <2>2. client = "VideoTest" => at = 7 /\ at' = 8
    <3>1. client = "VideoTest" => at = 7
      BY <1>3, VideoTestCalls DEF VideoEncodeOneFrame
    <3> QED
      BY <3>1, <1>r DEF RoundStep
  <2>3. CASE UNCHANGED streams
    BY <1>c, <2>1, <2>2, <2>3, EmptySeq DEF StreamInv, streams
  <2>4. CASE \E frame \in Frame : /\ pFBM /\ unread' = Append(unread, frame.nPts)
                                  /\ nValidFrameNum' = nValidFrameNum + 1
    <3>1. PICK frame \in Frame : /\ pFBM /\ unread' = Append(unread, frame.nPts)
                                 /\ nValidFrameNum' = nValidFrameNum + 1
      BY <2>4
    <3>2. frame.nPts \in Nat
      BY ContextAssumption DEF Frame
    <3>3. unread' \in Seq(Nat) /\ Len(unread') = Len(unread) + 1 /\ Len(unread) \in Nat
      BY <3>1, <3>2, AppendProperties, LenProperties DEF StreamInv
    <3>4. client = "VideoTest" => Len(unread) = 0 /\ got = 0
      BY <2>2, EmptySeq DEF StreamInv
    <3>5. bInit
      BY <3>1 DEF ContextInv
    <3> QED
      BY <1>c, <2>1, <2>2, <3>1, <3>3, <3>4, <3>5 DEF StreamInv
  <2>5. UNCHANGED streams \/ (/\ pFBM /\ finished < Len(submitted)
                              /\ unread' = Append(unread, submitted[finished + 1].nPts)
                              /\ nValidFrameNum' = nValidFrameNum + 1)
    BY <1>3 DEF VideoEncodeOneFrame
  <2>6. finished < Len(submitted) => submitted[finished + 1] \in Frame
    BY ElementOfSeq, LenProperties DEF FrameInv
  <2> QED
    BY <2>3, <2>4, <2>5, <2>6
<1>4. CASE GetOneBitstreamFrame
  <2>1. UNCHANGED <<bInit, nValidFrameNum>>
    BY <1>4 DEF GetOneBitstreamFrame, context
  <2>2. client = "VideoTest" => at = 10 /\ at' = 11
    <3>1. client = "VideoTest" => at = 10
      BY <1>4, VideoTestCalls DEF GetOneBitstreamFrame
    <3> QED
      BY <3>1, <1>r DEF RoundStep
  <2>3. CASE unread = <<>>
    <3>1. UNCHANGED <<unread, got>>
      BY <1>4, <2>3 DEF GetOneBitstreamFrame
    <3> QED
      BY <1>c, <2>1, <2>2, <2>3, <3>1 DEF StreamInv
  <2>4. CASE unread # <<>>
    <3>1. unread' = Tail(unread) /\ got' = got + 1
      BY <1>4, <2>4 DEF GetOneBitstreamFrame
    <3>2. unread' \in Seq(Nat) /\ Len(unread') = Len(unread) - 1 /\ Len(unread) \in Nat \ {0}
      BY <2>4, <3>1, HeadTailProperties, EmptySeq DEF StreamInv
    <3>3. client = "VideoTest" => unread' = <<>>
      BY <2>2, <3>2, EmptySeq DEF StreamInv
    <3>4. client \notin {"AWJpecEnc", "AWJpecEncPhy"} /\ bInit
      BY <2>4 DEF StreamInv
    <3> QED
      BY <1>c, <2>1, <2>2, <3>1, <3>2, <3>3, <3>4 DEF StreamInv
  <2> QED
    BY <2>3, <2>4
<1>5. CASE FreeOneBitStreamFrame
  <2>1. UNCHANGED <<bInit, unread>> /\ nValidFrameNum' = OneReturned(nValidFrameNum)
        /\ got' = IF got = 0 THEN 0 ELSE got - 1
    BY <1>5 DEF FreeOneBitStreamFrame, context
  <2>2. client = "VideoTest" => at = 12 /\ at' \in {4, 13}
    <3>1. client = "VideoTest" => at = 12
      BY <1>5, VideoTestCalls DEF FreeOneBitStreamFrame
    <3> QED
      BY <3>1, <1>r DEF RoundStep
  <2>3. got = 0 => unread = <<>>
    BY <1>5, <2>2 DEF FreeOneBitStreamFrame, StreamInv, ClientInv
  <2>4. Len(unread) \in Nat /\ (unread = <<>> => Len(unread) = 0)
    BY LenProperties, EmptySeq DEF StreamInv
  <2>5. nValidFrameNum' = Len(unread') + got' /\ got' \in Nat /\ got' <= got
    BY <2>1, <2>3, <2>4 DEF StreamInv, OneReturned
  <2> QED
    BY <1>c, <2>1, <2>2, <2>5 DEF StreamInv
<1> QED
  BY <1>1, <1>2, <1>3, <1>4, <1>5, StreamCalls

\* So does every step.
LEMMA StreamKept == Spec => []StreamInv
<1>1. Init => StreamInv
  BY EmptySeq DEF Init, StreamInv
<1>2. (ContextInv /\ PictureInv /\ ClientInv) /\ FrameInv /\ StreamInv /\ [Next]_vars
        => StreamInv'
  <2> SUFFICES ASSUME ContextInv, PictureInv, ClientInv, FrameInv, StreamInv, [Next]_vars
               PROVE  StreamInv'
    OBVIOUS
  <2>1. CASE ClientNext
    BY <2>1, StreamStep
  <2>2. CASE UNCHANGED <<program, context, streams, locals>>
    BY <2>2 DEF program, context, streams, locals, StreamInv
  <2> QED
    BY <2>1, <2>2 DEF Next, Stopped, vars
<1> QED
  BY <1>1, <1>2, ContextKept, FrameKept, PTL DEF Spec

\* The device's count of live streams is right, although FreeOneBitStreamFrame is
\* called without a stream as well.
THEOREM StreamsCounted == Spec => []StreamsAccounted
<1>1. StreamInv => StreamsAccounted
  BY DEF StreamInv, StreamsAccounted
<1> QED
  BY <1>1, StreamKept, PTL

-----------------------------------------------------------------------------
(* Where the round's frame and its picture are.                            *)

\* The frame goes through the pipeline between AddOneInputBuffer and
\* AlreadyUsedInputBuffer, unless there is no manager.
RoundFrames ==
  client = "VideoTest" =>
    /\ at \in 1 .. 3 => i = 1 /\ submitted = <<>> /\ ~ allocate_buffer
    /\ at \in 1 .. 2 => ~ bInit
    /\ bInit =>
         /\ at \in 3 .. 6 => Len(submitted) = i - 1 /\ returned = i - 1
         /\ at = 7 => Len(submitted) = i /\ finished = i - 1 /\ returned = i - 1
         /\ at = 8 => Len(submitted) = i /\ finished = i /\ returned = i - 1
         /\ at \in 9 .. 12 => Len(submitted) = i /\ returned = i
         /\ at = 13 => Len(submitted) = testNumber /\ returned = testNumber

\* The picture is the client's between GetOneAllocInputBuffer and
\* ReturnOneAllocInputBuffer, where the frame that comes back names it again.
RoundPictures ==
  client = "VideoTest" /\ allocate_buffer =>
    /\ at \in {4} \cup 10 .. 13 => IsInjective(allocate_queue) /\ Range(allocate_queue) = Pictures
    /\ at \in 5 .. 9 => /\ IsInjective(allocate_queue)
                        /\ inputBuffer.nID \in Pictures
                        /\ Range(allocate_queue) = Pictures \ {inputBuffer.nID}
    /\ at \in 7 .. 8 => submitted[Len(submitted)].nID = inputBuffer.nID

\* A call of VideoTest moves its frame, and the frame's picture, to the next place.
LEMMA RoundStepKept ==
  ASSUME ContextInv, PictureInv, ClientInv, FrameInv, RoundFrames, RoundPictures, ClientNext,
         client = "VideoTest"
  PROVE  RoundFrames' /\ RoundPictures'
<1>r. client' = "VideoTest" /\ RoundStep
  BY VideoTestStep
<1>t. /\ i \in 1 .. testNumber /\ testNumber \in Nat
      /\ finished \in Nat /\ returned \in Nat /\ Len(submitted) \in Nat
      /\ returned <= finished /\ finished <= Len(submitted)
      /\ submitted = <<>> <=> Len(submitted) = 0
      /\ ~ bInit => submitted = <<>>
      /\ allocate_buffer => bInit
  BY ContextAssumption, LenProperties, EmptySeq DEF ClientInv, FrameInv, PictureInv
<1>1. CASE /\ at = 1 /\ at' \in {1, 2, 13} /\ i' = i /\ bInit' = FALSE
           /\ UNCHANGED <<frameList, pictures, encoded, streams, locals>>
  BY <1>1, <1>t DEF RoundFrames, RoundPictures, frameList, pictures, locals
<1>2. CASE at = 2 /\ at' = 3 /\ i' = i /\ VideoEncInitFails
  BY <1>2, <1>t DEF RoundFrames, RoundPictures, VideoEncInitFails, context, frameList, pictures,
                    locals
<1>3. ASSUME at = 2, at' = 3, i' = i, NEW ok \in BOOLEAN, VideoEncInit(ok)
      PROVE  RoundFrames' /\ RoundPictures'
  <2>1. submitted' = <<>> /\ returned' = 0 /\ allocate_buffer' = FALSE /\ Len(<<>>) = 0
    BY <1>3, EmptySeq DEF VideoEncInit, NoManager
  <2>2. i = 1
    BY <1>3, <1>r DEF RoundFrames
  <2> QED
    BY <1>3, <2>1, <2>2 DEF RoundFrames, RoundPictures
<1>4. ASSUME at = 3, at' = 4, i' = i, NEW ok \in BOOLEAN, AllocInputBuffer(ok)
      PROVE  RoundFrames' /\ RoundPictures'
  <2>1. UNCHANGED <<submitted, finished, returned, bInit>>
    BY <1>4 DEF AllocInputBuffer, context, frameList
  <2>2. RoundFrames'
    BY <1>4, <2>1 DEF RoundFrames
  <2> DEFINE q == [n \in 1 .. nBufferNum |-> n - 1]
  <2>3. allocate_buffer' => allocate_queue' = q
    BY <1>4 DEF AllocInputBuffer, RoundFrames
  <2>4. IsInjective(q)
    BY ContextAssumption DEF IsInjective
  <2>5. \A k \in Pictures : k + 1 \in 1 .. nBufferNum /\ q[k + 1] = k
    BY ContextAssumption DEF Pictures
  <2>6. \A n \in 1 .. nBufferNum : q[n] \in Pictures
    BY ContextAssumption DEF Pictures
  <2>7. DOMAIN q = 1 .. nBufferNum
    OBVIOUS
  <2> HIDE DEF q
  <2>8. Range(q) = Pictures
    BY <2>5, <2>6, <2>7 DEF Range
  <2>9. allocate_buffer' => IsInjective(allocate_queue)' /\ Range(allocate_queue)' = Pictures
    BY <2>3, <2>4, <2>8
  <2> QED
    BY <1>4, <2>2, <2>9 DEF RoundPictures, Pictures
<1>5. CASE at = 4 /\ at' = 5 /\ i' = i /\ GetOneAllocInputBuffer
  <2>1. UNCHANGED <<submitted, finished, returned, bInit, allocate_buffer>>
    BY <1>5 DEF GetOneAllocInputBuffer, context, frameList
  <2>2. RoundFrames'
    BY <1>5, <2>1 DEF RoundFrames
  <2>3. SUFFICES ASSUME allocate_buffer PROVE RoundPictures'
    BY <2>1, <2>2 DEF RoundPictures
  <2>4. /\ IsInjective(allocate_queue) /\ Range(allocate_queue) = Pictures
        /\ allocate_queue \in Seq(Pictures) /\ pFBM
    BY <1>5, <2>3, <1>t DEF RoundPictures, FrameInv, ContextInv
  <2>5. allocate_queue # <<>>
    <3>1. 0 \in Range(allocate_queue)
      BY <2>4, ContextAssumption DEF Pictures
    <3> QED
      BY <3>1, EmptySeq, LenProperties DEF Range
  <2>6. inputBuffer' = [nID |-> Head(allocate_queue), nPts |-> 0]
        /\ allocate_queue' = dequeue(allocate_queue)
    BY <1>5, <2>3, <2>4, <2>5 DEF GetOneAllocInputBuffer
  <2>7. /\ Head(allocate_queue) \in Pictures
        /\ Range(dequeue(allocate_queue)) = Pictures \ {Head(allocate_queue)}
        /\ IsInjective(dequeue(allocate_queue))
    BY <2>4, <2>5, QueueRange, DequeueHead
  <2> QED
    BY <1>5, <2>6, <2>7 DEF RoundPictures
<1>6. CASE at = 5 /\ at' \in {0, 6} /\ i' = i /\ fread
  <2>1. UNCHANGED <<submitted, finished, returned, bInit, allocate_buffer, allocate_queue>>
    BY <1>6 DEF fread, context, frameList, pictures
  <2>2. RoundFrames'
    BY <1>6, <2>1 DEF RoundFrames
  <2>3. inputBuffer'.nID = inputBuffer.nID
    BY <1>6 DEF fread, FrameInv, Frame
  <2> QED
    BY <1>6, <2>1, <2>2, <2>3 DEF RoundPictures
<1>7. CASE at = 6 /\ at' = 7 /\ i' = i /\ AddOneInputBuffer
  <2>1. UNCHANGED <<bInit, allocate_buffer, allocate_queue, inputBuffer>>
    BY <1>7 DEF AddOneInputBuffer, context, pictures, locals
  <2>2. CASE ~ bInit
    BY <1>7, <1>t, <2>1, <2>2 DEF RoundFrames, RoundPictures
  <2>3. CASE bInit
    <3>1. Len(submitted) = i - 1 /\ returned = i - 1 /\ finished = i - 1
      BY <1>7, <1>r, <1>t, <2>3 DEF RoundFrames
    <3>2. pFBM /\ Len(submitted) - returned < FRAME_BUFFER_NUM
      BY <2>3, <3>1, <1>t, ContextAssumption DEF ContextInv
    <3>3. submitted' = Append(submitted, inputBuffer) /\ UNCHANGED <<finished, returned>>
      BY <1>7, <3>2 DEF AddOneInputBuffer, Queues!Submit
    <3>4. Len(submitted') = i /\ submitted'[i] = inputBuffer
      BY <3>1, <3>3, <1>t, AppendProperties DEF FrameInv
    <3>5. RoundFrames'
      BY <1>7, <3>1, <3>3, <3>4, <1>t DEF RoundFrames
    <3>6. RoundPictures'
      BY <1>7, <1>r, <2>1, <3>4 DEF RoundPictures
    <3> QED
      BY <3>5, <3>6
  <2> QED
    BY <2>2, <2>3
<1>8. ASSUME at = 7, at' = 8, i' = i, NEW stream \in BOOLEAN, VideoEncodeOneFrame(stream)
      PROVE  RoundFrames' /\ RoundPictures'
  <2>1. UNCHANGED <<submitted, bInit, allocate_buffer, allocate_queue, inputBuffer>>
    BY <1>8 DEF VideoEncodeOneFrame, context, pictures, locals, frameList, FrameUsed,
                Queues!Finish
  <2>2. RoundPictures'
    BY <1>8, <1>r, <2>1 DEF RoundPictures
  <2>3. CASE ~ bInit
    BY <1>8, <2>1, <2>2, <2>3 DEF RoundFrames
  <2>4. CASE bInit
    <3>1. Len(submitted) = i /\ finished = i - 1 /\ returned = i - 1 /\ pFBM
      BY <1>8, <1>r, <2>4 DEF RoundFrames, ContextInv
    <3>2. finished' = finished + 1 /\ UNCHANGED returned
      BY <1>8, <3>1, <1>t DEF VideoEncodeOneFrame, FrameUsed, Queues!Finish
    <3> QED
      BY <1>8, <2>1, <2>2, <3>1, <3>2, <1>t DEF RoundFrames
  <2> QED
    BY <2>3, <2>4
<1>9. CASE at = 8 /\ at' = 9 /\ i' = i /\ AlreadyUsedInputBuffer
  <2>1. UNCHANGED <<bInit, allocate_buffer, allocate_queue, submitted>>
    BY <1>9 DEF AlreadyUsedInputBuffer, context, pictures, frameList, Queues!HandBack
  <2>2. CASE ~ bInit
    BY <1>9, <1>t, <2>1, <2>2 DEF RoundFrames, RoundPictures
  <2>3. CASE bInit
    <3>1. Len(submitted) = i /\ finished = i /\ returned = i - 1 /\ pFBM
      BY <1>9, <1>r, <2>3 DEF RoundFrames, ContextInv
    <3>2. returned' = i /\ inputBuffer' = submitted[i]
      BY <1>9, <3>1, <1>t DEF AlreadyUsedInputBuffer, Queues!HandBack
    <3>3. RoundFrames'
      BY <1>9, <2>1, <3>1, <3>2, <1>t DEF RoundFrames
    <3>4. RoundPictures'
      BY <1>9, <1>r, <2>1, <3>1, <3>2 DEF RoundPictures
    <3> QED
      BY <3>3, <3>4
  <2> QED
    BY <2>2, <2>3
<1>10. CASE at = 9 /\ at' \in {0, 10} /\ i' = i /\ ReturnOneAllocInputBuffer
  <2>1. UNCHANGED <<submitted, finished, returned, bInit, allocate_buffer>>
    BY <1>10 DEF ReturnOneAllocInputBuffer, context, frameList
  <2>2. RoundFrames'
    BY <1>10, <2>1, <1>r DEF RoundFrames
  <2>3. SUFFICES ASSUME allocate_buffer PROVE RoundPictures'
    BY <2>1, <2>2 DEF RoundPictures
  <2>4. /\ IsInjective(allocate_queue) /\ inputBuffer.nID \in Pictures
        /\ Range(allocate_queue) = Pictures \ {inputBuffer.nID}
        /\ allocate_queue \in Seq(Pictures)
    BY <1>10, <1>r, <2>3 DEF RoundPictures, FrameInv
  <2>5. pFBM /\ inputBuffer.nID < buffer_num
    BY <2>3, <2>4, <1>t, ContextAssumption DEF ContextInv, PictureInv, Pictures
  <2>6. allocate_queue' = enqueue(allocate_queue, inputBuffer.nID)
    BY <1>10, <2>3, <2>5 DEF ReturnOneAllocInputBuffer
  <2>7. /\ Range(enqueue(allocate_queue, inputBuffer.nID)) = Pictures
        /\ IsInjective(enqueue(allocate_queue, inputBuffer.nID))
    <3>1. inputBuffer.nID \notin Range(allocate_queue)
      BY <2>4
    <3>2. ASSUME NEW S, NEW q \in Seq(S), NEW p \in S, p \notin Range(q), IsInjective(q)
          PROVE  Range(enqueue(q, p)) = Range(q) \cup {p} /\ IsInjective(enqueue(q, p))
      BY <3>2, EnqueueFresh
    <3>3. /\ Range(enqueue(allocate_queue, inputBuffer.nID))
               = Range(allocate_queue) \cup {inputBuffer.nID}
          /\ IsInjective(enqueue(allocate_queue, inputBuffer.nID))
      BY <2>4, <3>1, <3>2, Zenon
    <3> QED
      BY <2>4, <3>3
  <2> QED
    BY <1>10, <2>6, <2>7 DEF RoundPictures
<1>11. CASE /\ \/ at = 10 /\ at' = 11 /\ i' = i /\ GetOneBitstreamFrame
               \/ at = 11 /\ at' \in {0, 12} /\ i' = i /\ fwrite
               \/ at = 12 /\ i < testNumber /\ at' = 4 /\ i' = i + 1 /\ FreeOneBitStreamFrame
               \/ at = 12 /\ i = testNumber /\ at' = 13 /\ i' = i /\ FreeOneBitStreamFrame
  <2>1. UNCHANGED <<submitted, finished, returned, bInit, allocate_buffer, allocate_queue>>
    <3>1. CASE GetOneBitstreamFrame
      BY <3>1 DEF GetOneBitstreamFrame, context, frameList, pictures
    <3>2. CASE fwrite
      BY <3>2 DEF fwrite, context, frameList, pictures
    <3>3. CASE FreeOneBitStreamFrame
      BY <3>3 DEF FreeOneBitStreamFrame, context, frameList, pictures
    <3>4. GetOneBitstreamFrame \/ fwrite \/ FreeOneBitStreamFrame
      BY <1>11
    <3> QED
      BY <3>1, <3>2, <3>3, <3>4
  <2>2. RoundFrames'
    <3>1. bInit => Len(submitted) = i /\ returned = i
      BY <1>11, <1>r DEF RoundFrames
    <3>2. CASE at' \in {0, 11, 12} /\ i' = i
      BY <3>1, <3>2, <2>1, <1>r DEF RoundFrames
    <3>3. CASE i < testNumber /\ at' = 4 /\ i' = i + 1
      BY <3>1, <3>3, <2>1, <1>r, <1>t DEF RoundFrames
    <3>4. CASE i = testNumber /\ at' = 13 /\ i' = i
      BY <3>1, <3>4, <2>1, <1>r DEF RoundFrames
    <3> QED
      BY <1>11, <3>2, <3>3, <3>4
  <2>3. RoundPictures'
    BY <1>11, <1>r, <2>1 DEF RoundPictures
  <2> QED
    BY <2>2, <2>3
<1> QED
  BY <1>r, <1>1, <1>2, <1>3, <1>4, <1>5, <1>6, <1>7, <1>8, <1>9, <1>10, <1>11 DEF RoundStep

\* A client stays the client it is.
LEMMA SameClient ==
  ASSUME ClientNext
  PROVE  client' = client
<1>1. CASE CreateAdapter
  BY <1>1 DEF CreateAdapter, Goes, program
<1>2. ASSUME NEW codec \in CodecTypes, CreateContext(codec) PROVE client' = client
  BY <1>2 DEF CreateContext, Goes, program
<1>3. CASE CreateOpen
  BY <1>3 DEF CreateOpen, Goes, program
<1>4. CASE CreateFails
  BY <1>4 DEF CreateFails, Goes, program
<1>5. ASSUME NEW ok \in BOOLEAN, VideoEncInit(ok) PROVE client' = client
  BY <1>5 DEF VideoEncInit, Goes, program
<1>6. CASE VideoEncInitFails
  BY <1>6 DEF VideoEncInitFails, Goes, program
<1>7. CASE VideoEncUnInit
  BY <1>7 DEF VideoEncUnInit, Goes, program
<1>8. CASE VideoEncDestroy
  BY <1>8 DEF VideoEncDestroy, Goes, program
<1>9. ASSUME NEW ok \in BOOLEAN, AllocInputBuffer(ok) PROVE client' = client
  BY <1>9 DEF AllocInputBuffer, Goes, program
<1>10. CASE GetOneAllocInputBuffer
  BY <1>10 DEF GetOneAllocInputBuffer, Goes, program
<1>11. CASE ReturnOneAllocInputBuffer
  BY <1>11 DEF ReturnOneAllocInputBuffer, Goes, program
<1>12. CASE fread
  BY <1>12 DEF fread, Goes, program
<1>13. CASE AddOneInputBuffer
  BY <1>13 DEF AddOneInputBuffer, Goes, program
<1>14. CASE AlreadyUsedInputBuffer
  BY <1>14 DEF AlreadyUsedInputBuffer, Goes, program
<1>15. ASSUME NEW stream \in BOOLEAN, VideoEncodeOneFrame(stream) PROVE client' = client
  BY <1>15 DEF VideoEncodeOneFrame, Goes, program
<1>16. CASE GetOneBitstreamFrame
  BY <1>16 DEF GetOneBitstreamFrame, Goes, program
<1>17. CASE fwrite
  BY <1>17 DEF fwrite, Goes, program
<1>18. CASE FreeOneBitStreamFrame
  BY <1>18 DEF FreeOneBitStreamFrame, Goes, program
<1> QED
  BY <1>1, <1>2, <1>3, <1>4, <1>5, <1>6, <1>7, <1>8, <1>9,
     <1>10, <1>11, <1>12, <1>13, <1>14, <1>15, <1>16, <1>17, <1>18
  DEF ClientNext

\* The other clients, and the library's constructor, leave VideoTest's round alone.
LEMMA RoundKept == Spec => [](RoundFrames /\ RoundPictures)
<1>1. Init => RoundFrames /\ RoundPictures
  BY DEF Init, Queues!Init, RoundFrames, RoundPictures
<1>2. (ContextInv /\ PictureInv /\ ClientInv) /\ FrameInv /\ (RoundFrames /\ RoundPictures)
        /\ [Next]_vars => (RoundFrames /\ RoundPictures)'
  <2> SUFFICES ASSUME ContextInv, PictureInv, ClientInv, FrameInv, RoundFrames, RoundPictures,
                      [Next]_vars
               PROVE  RoundFrames' /\ RoundPictures'
    OBVIOUS
  <2>1. CASE ClientNext /\ client = "VideoTest"
    BY <2>1, RoundStepKept
  <2>2. CASE ClientNext /\ client # "VideoTest"
    <3>1. client' = client
      BY <2>2, SameClient
    <3> QED
      BY <2>2, <3>1 DEF RoundFrames, RoundPictures
  <2>3. CASE UNCHANGED <<program, context, frameList, pictures, locals>>
    BY <2>3 DEF program, context, frameList, pictures, locals, RoundFrames, RoundPictures
  <2> QED
    BY <2>1, <2>2, <2>3 DEF Next, Stopped, vars
<1> QED
  BY <1>1, <1>2, ContextKept, FrameKept, PTL DEF Spec

\* After every round of VideoTest's loop the frame has come back and all picture
\* buffers are there again, whichever calls of the round have failed.
THEOREM RoundsComplete == Spec => []RoundComplete
<1>1. (ContextInv /\ PictureInv /\ ClientInv) /\ FrameInv /\ (RoundFrames /\ RoundPictures)
        => RoundComplete
  <2> SUFFICES ASSUME ContextInv, PictureInv, ClientInv, FrameInv, RoundFrames, RoundPictures,
                      client = "VideoTest", at \in {LoopHead, End}
               PROVE  /\ returned = Len(submitted)
                      /\ pFBM => Len(submitted) = IF at = End THEN testNumber ELSE i - 1
                      /\ allocate_buffer =>
                           /\ IsInjective(allocate_queue)
                           /\ Range(allocate_queue) = 0 .. nBufferNum - 1
    BY DEF RoundComplete
  <2>1. at \in {4, 13} /\ (at = End <=> at = 13)
    BY VideoTestCalls DEF LoopHead
  <2>2. allocate_buffer => IsInjective(allocate_queue) /\ Range(allocate_queue) = 0 .. nBufferNum - 1
    BY <2>1 DEF RoundPictures, Pictures
  <2>3. CASE bInit
    BY <2>1, <2>2, <2>3 DEF RoundFrames
  <2>4. CASE ~ bInit
    <3>1. submitted = <<>> /\ Len(submitted) = 0 /\ returned = 0
      BY <2>4, EmptySeq DEF FrameInv
    <3> QED
      BY <2>2, <2>4, <3>1 DEF ContextInv, PictureInv
  <2> QED
    BY <2>3, <2>4
<1> QED
  BY <1>1, ContextKept, FrameKept, RoundKept, PTL

-----------------------------------------------------------------------------
(* What the file would be if every stream were written once.               *)

\* One more stream.
WriteOnce(once, s) ==
  IF s = Uninitialized \/ (once # <<>> /\ s = Last(once)) THEN once ELSE Append(once, s)

\* Induction over the members of a set.
LEMMA Induction ==
  ASSUME NEW S, 0 \in S, \A n \in Nat : n \in S => n + 1 \in S
  PROVE  \A n \in Nat : n \in S
<1> DEFINE C == Nat \ S
<1>1. SUFFICES ASSUME C # {} PROVE FALSE
  OBVIOUS
<1>2. PICK x \in C : \A y \in C : x <= y
  BY <1>1, Smallest
<1>3. x - 1 \in Nat /\ x - 1 \in S
  BY <1>2
<1> QED
  BY <1>2, <1>3

\* The greatest number of 1 .. n and of what has n in it.
LEMMA MaxIsLast ==
  ASSUME NEW n \in Nat \ {0}, NEW s, s \subseteq 1 .. n, n \in s
  PROVE  Max(s) = n
<1>1. \A y \in s : n >= y
  OBVIOUS
<1>2. \A x \in s : (\A y \in s : x >= y) => x = n
  OBVIOUS
<1> QED
  BY <1>1, <1>2 DEF Max

\* g is the function by which the fold over the streams at the places S is defined.
IsFold(g, file, S) ==
  g = [s \in SUBSET S |->
         IF s = {} THEN <<>> ELSE WriteOnce(g[s \ {Max(s)}], file[Max(s)])]

\* The recursive function behind Once exists for every length of the file.
LEMMA FoldExists ==
  ASSUME NEW file
  PROVE  \A n \in Nat : \E g : IsFold(g, file, 1 .. n)
<1> DEFINE C == {n \in Nat : \E g : IsFold(g, file, 1 .. n)}
<1>1. 0 \in C
  <2> DEFINE g == [s \in SUBSET (1 .. 0) |-> <<>>]
  <2>1. \A s \in SUBSET (1 .. 0) : s = {}
    OBVIOUS
  <2>2. IsFold(g, file, 1 .. 0)
    BY <2>1, Zenon DEF IsFold
  <2> QED
    BY <2>2
<1>2. ASSUME NEW n \in Nat, n \in C PROVE n + 1 \in C
  <2>1. PICK g : IsFold(g, file, 1 .. n)
    BY <1>2
  <2> DEFINE h == [s \in SUBSET (1 .. n + 1) |->
                     IF n + 1 \in s THEN WriteOnce(g[s \ {n + 1}], file[n + 1]) ELSE g[s]]
             H(s) == IF s = {} THEN <<>> ELSE WriteOnce(h[s \ {Max(s)}], file[Max(s)])
  <2>2. \A s \in SUBSET (1 .. n) : s \in SUBSET (1 .. n + 1) /\ n + 1 \notin s /\ h[s] = g[s]
    OBVIOUS
  <2>3. \A s \in SUBSET (1 .. n) :
          g[s] = IF s = {} THEN <<>> ELSE WriteOnce(g[s \ {Max(s)}], file[Max(s)])
    BY <2>1, Zenon DEF IsFold
  <2>4. ASSUME NEW s \in SUBSET (1 .. n + 1), n + 1 \in s PROVE h[s] = H(s)
    <3>1. Max(s) = n + 1 /\ s # {}
      <4>1. n + 1 \in Nat \ {0} /\ s \subseteq 1 .. n + 1
        OBVIOUS
      <4> QED
        BY <2>4, <4>1, MaxIsLast, Zenon
    <3>2. s \ {n + 1} \in SUBSET (1 .. n)
      OBVIOUS
    <3>3. h[s] = WriteOnce(g[s \ {n + 1}], file[n + 1])
      BY <2>4
    <3>4. h[s \ {n + 1}] = g[s \ {n + 1}]
      BY <2>2, <3>2
    <3> HIDE DEF h
    <3> QED
      BY <3>1, <3>3, <3>4
  <2>5. ASSUME NEW s \in SUBSET (1 .. n + 1), n + 1 \notin s PROVE h[s] = H(s)
    <3>1. s \in SUBSET (1 .. n) /\ s \ {Max(s)} \in SUBSET (1 .. n)
      <4>1. \A x \in s : x \in 1 .. n
        BY <2>5
      <4> QED
        BY <4>1, Zenon
    <3>2. h[s] = g[s] /\ h[s \ {Max(s)}] = g[s \ {Max(s)}]
      BY <2>2, <3>1
    <3> HIDE DEF h
    <3> QED
      BY <2>3, <3>1, <3>2
  <2>6. h = [s \in SUBSET (1 .. n + 1) |-> h[s]]
    OBVIOUS
  <2> HIDE DEF h
  <2>7. \A s \in SUBSET (1 .. n + 1) : h[s] = H(s)
    BY <2>4, <2>5, Zenon
  <2>8. IsFold(h, file, 1 .. n + 1)
    BY <2>6, <2>7, Zenon DEF IsFold
  <2> QED
    BY <2>8
<1> HIDE DEF C
<1>3. \A n \in Nat : n \in C
  BY <1>1, <1>2, Induction
<1> QED
  BY <1>3 DEF C

\* The fold, stream by stream: m[k] is what the first k writes come to.
LEMMA OnceSteps ==
  ASSUME NEW file, NEW n \in Nat, DOMAIN file = 1 .. n
  PROVE  \E m : /\ m[0] = <<>>
                /\ \A k \in 1 .. n : m[k] = WriteOnce(m[k - 1], file[k])
                /\ Once(file) = m[n]
<1> DEFINE iter == CHOOSE g : IsFold(g, file, 1 .. n)
           m == [k \in 0 .. n |-> iter[1 .. k]]
<1>1. IsFold(iter, file, 1 .. n)
  BY FoldExists, Zenon
<1>2. Once(file) = iter[1 .. n]
  BY Zenon DEF Once, FoldLeft, MapThenFoldSet, IsFold, WriteOnce
<1> HIDE DEF iter
<1>3. \A s \in SUBSET (1 .. n) :
        iter[s] = IF s = {} THEN <<>> ELSE WriteOnce(iter[s \ {Max(s)}], file[Max(s)])
  BY <1>1, Zenon DEF IsFold
<1>4. m[0] = <<>>
  <2>1. 1 .. 0 = {} /\ {} \in SUBSET (1 .. n)
    OBVIOUS
  <2>2. iter[{}] = <<>>
    BY <1>3, <2>1, Zenon
  <2>3. m[0] = iter[1 .. 0]
    OBVIOUS
  <2> QED
    BY <2>1, <2>2, <2>3, Zenon
<1>5. ASSUME NEW k \in 1 .. n PROVE m[k] = WriteOnce(m[k - 1], file[k])
  <2>1. Max(1 .. k) = k /\ 1 .. k # {} /\ (1 .. k) \ {k} = 1 .. k - 1
    BY MaxIsLast
  <2>2. iter[1 .. k] = WriteOnce(iter[1 .. k - 1], file[k])
    <3>1. 1 .. k \in SUBSET (1 .. n)
      OBVIOUS
    <3> QED
      BY <1>3, <2>1, <3>1, Zenon
  <2>3. m[k] = iter[1 .. k] /\ m[k - 1] = iter[1 .. k - 1]
    OBVIOUS
  <2> HIDE DEF m
  <2> QED
    BY <2>2, <2>3
<1>6. Once(file) = m[n]
  BY <1>2
<1> HIDE DEF m
<1> QED
  BY <1>4, <1>5, <1>6

\* A file in which nothing has been written.
LEMMA OnceNothing == Once(<<>>) = <<>>
<1>1. DOMAIN <<>> = 1 .. 0
  OBVIOUS
<1> QED
  BY <1>1, OnceSteps

\* The fold over one stream more is one WriteOnce more: the folds over the file and over
\* the longer file agree stream by stream.
LEMMA OnceMore ==
  ASSUME NEW file \in Seq(Nat), NEW s \in Nat
  PROVE  Once(Append(file, s)) = WriteOnce(Once(file), s)
<1> DEFINE n == Len(file)
           more == Append(file, s)
<1>1. /\ n \in Nat /\ DOMAIN file = 1 .. n /\ DOMAIN more = 1 .. n + 1
      /\ \A k \in 1 .. n : more[k] = file[k]
      /\ more[n + 1] = s
  BY LenProperties, AppendProperties
<1> HIDE DEF n, more
<1>2. PICK m : /\ m[0] = <<>>
               /\ \A k \in 1 .. n : m[k] = WriteOnce(m[k - 1], file[k])
               /\ Once(file) = m[n]
  BY <1>1, OnceSteps
<1>3. PICK p : /\ p[0] = <<>>
               /\ \A k \in 1 .. n + 1 : p[k] = WriteOnce(p[k - 1], more[k])
               /\ Once(more) = p[n + 1]
  BY <1>1, OnceSteps
<1> DEFINE C == {k \in Nat : k <= n => p[k] = m[k]}
<1>4. 0 \in C
  BY <1>2, <1>3
<1>5. ASSUME NEW k \in Nat, k \in C PROVE k + 1 \in C
  <2>1. SUFFICES ASSUME k + 1 <= n PROVE p[k + 1] = m[k + 1]
    OBVIOUS
  <2>2. /\ k + 1 \in 1 .. n /\ k + 1 \in 1 .. n + 1 /\ (k + 1) - 1 = k
        /\ p[k] = m[k]
    <3>1. k <= n /\ k + 1 \in 1 .. n /\ k + 1 \in 1 .. n + 1 /\ (k + 1) - 1 = k
      BY <1>1, <2>1
    <3> QED
      BY <1>5, <3>1
  <2>3. p[k + 1] = WriteOnce(p[k], more[k + 1]) /\ m[k + 1] = WriteOnce(m[k], file[k + 1])
    BY <1>2, <1>3, <2>2
  <2> QED
    BY <1>1, <2>2, <2>3
<1> HIDE DEF C
<1>6. n \in C
  BY <1>1, <1>4, <1>5, Induction
<1>7. p[n] = m[n]
  BY <1>1, <1>6 DEF C
<1>8. Once(more) = WriteOnce(p[n], s)
  BY <1>1, <1>3
<1> QED
  BY <1>2, <1>7, <1>8 DEF more

\* s is the last stream of once, or there is none.
LastIs(once, s) == IF once = <<>> THEN s = Uninitialized ELSE s = Last(once) /\ s # Uninitialized

\* The last stream written again changes nothing.
LEMMA WriteAgain ==
  ASSUME NEW once, NEW s, LastIs(once, s)
  PROVE  WriteOnce(once, s) = once
BY DEF WriteOnce, LastIs

\* A stream that the file does not end with is added, and is the last one then.
LEMMA WriteLater ==
  ASSUME NEW once \in Seq(Nat), NEW s \in Nat \ {0}, once = <<>> \/ Last(once) # s
  PROVE  /\ WriteOnce(once, s) = Append(once, s)
         /\ Append(once, s) \in Seq(Nat)
         /\ LastIs(Append(once, s), s)
<1>1. WriteOnce(once, s) = Append(once, s)
  BY DEF WriteOnce, Uninitialized
<1>2. /\ Append(once, s) \in Seq(Nat) /\ Len(Append(once, s)) = Len(once) + 1
      /\ Append(once, s)[Len(once) + 1] = s /\ Len(once) \in Nat
  BY AppendProperties, LenProperties
<1>3. Append(once, s) # <<>> /\ Last(Append(once, s)) = s
  BY <1>2, EmptySeq DEF Last
<1> QED
  BY <1>1, <1>2, <1>3 DEF LastIs, Uninitialized

-----------------------------------------------------------------------------
(* The round's stream on its way to the file.                              *)

\* Nothing of the streams the file holds is outstanding.
Written == produced = Once(out_file) /\ LastIs(Once(out_file), outputBuffer)

\* outputBuffer holds the last stream of the file; from VideoEncodeOneFrame to
\* fwrite the round's stream may be missing from the file.
RoundFile ==
  client = "VideoTest" =>
    /\ out_file \in Seq(Nat) /\ Once(out_file) \in Seq(Nat) /\ outputBuffer \in Nat
    /\ at \in 1 .. 3 => out_file = <<>> /\ produced = <<>> /\ outputBuffer = Uninitialized
    /\ at = 6 => inputBuffer.nPts = i
    /\ at = 7 /\ bInit => submitted[i].nPts = i
    /\ at \in 1 .. 7 => Written
    /\ at \in 4 .. 10 => outputBuffer < i
    /\ at \in 8 .. 10 => \/ unread = <<>> /\ Written
                         \/ /\ unread = <<i>> /\ produced = Append(Once(out_file), i)
                            /\ LastIs(Once(out_file), outputBuffer)
    /\ at = 11 => \/ Written
                  \/ /\ outputBuffer = i /\ produced = Append(Once(out_file), i)
                     /\ Once(out_file) # <<>> => Last(Once(out_file)) < i
    /\ at \in 11 .. 13 => outputBuffer <= i
    /\ at \in 12 .. 13 => Written

\* A call of VideoTest moves the round's stream on: encode makes it, get hands it
\* out, fwrite adds it to the file; without one fwrite repeats the last.
LEMMA RoundFileStep ==
  ASSUME ContextInv, PictureInv, ClientInv, FrameInv, StreamInv, RoundFrames, RoundFile,
         ClientNext, client = "VideoTest"
  PROVE  RoundFile'
<1>r. client' = "VideoTest" /\ RoundStep
  BY VideoTestStep
<1>t. /\ i \in Nat /\ i > 0
      /\ out_file \in Seq(Nat) /\ Once(out_file) \in Seq(Nat) /\ outputBuffer \in Nat
  <2>1. i \in Nat /\ i > 0
    BY ContextAssumption DEF ClientInv
  <2> QED
    BY <2>1 DEF RoundFile
<1>1. CASE /\ at = 1 /\ at' \in {1, 2, 13} /\ i' = i
           /\ UNCHANGED <<frameList, pictures, encoded, streams, locals>>
  <2>1. UNCHANGED <<out_file, produced, outputBuffer>>
    BY <1>1 DEF streams, locals
  <2>2. Written /\ out_file = <<>> /\ produced = <<>> /\ outputBuffer = 0
    BY <1>1, <1>r DEF RoundFile, Uninitialized
  <2>3. Written'
    BY <2>1, <2>2 DEF Written
  <2> QED
    BY <1>1, <1>t, <2>1, <2>2, <2>3 DEF RoundFile, Uninitialized
<1>2. CASE /\ at = 2 /\ at' = 3 /\ i' = i
           /\ VideoEncInitFails \/ (\E ok \in BOOLEAN : VideoEncInit(ok))
  <2>1. UNCHANGED <<out_file, outputBuffer>> /\ (produced' = <<>> \/ produced' = produced)
    <3>1. CASE VideoEncInitFails
      BY <3>1 DEF VideoEncInitFails, streams, locals
    <3>2. ASSUME NEW ok \in BOOLEAN, VideoEncInit(ok)
          PROVE  UNCHANGED <<out_file, outputBuffer>> /\ produced' = <<>>
      BY <3>2 DEF VideoEncInit, locals
    <3> QED
      BY <1>2, <3>1, <3>2
  <2>2. Written /\ out_file = <<>> /\ produced = <<>> /\ outputBuffer = 0
    BY <1>2, <1>r DEF RoundFile, Uninitialized
  <2>3. Written'
    BY <2>1, <2>2 DEF Written
  <2> QED
    BY <1>2, <1>t, <2>1, <2>2, <2>3 DEF RoundFile, Uninitialized
<1>3. CASE at = 3 /\ at' = 4 /\ i' = i /\ (\E ok \in BOOLEAN : AllocInputBuffer(ok))
  <2>1. UNCHANGED <<out_file, produced, outputBuffer>>
    BY <1>3 DEF AllocInputBuffer, streams, locals
  <2>2. Written /\ outputBuffer = 0
    BY <1>3, <1>r DEF RoundFile, Uninitialized
  <2>3. Written'
    BY <2>1, <2>2 DEF Written
  <2> QED
    BY <1>3, <1>t, <2>1, <2>2, <2>3 DEF RoundFile
<1>4. CASE at = 4 /\ at' = 5 /\ i' = i /\ GetOneAllocInputBuffer
  <2>1. UNCHANGED <<out_file, produced, outputBuffer>>
    BY <1>4 DEF GetOneAllocInputBuffer, streams
  <2>2. Written /\ outputBuffer < i
    BY <1>4, <1>r DEF RoundFile
  <2>3. Written'
    BY <2>1, <2>2 DEF Written
  <2> QED
    BY <1>4, <1>t, <2>1, <2>2, <2>3 DEF RoundFile
<1>5. CASE at = 5 /\ at' \in {0, 6} /\ i' = i /\ fread
  <2>1. UNCHANGED <<out_file, produced, outputBuffer>>
    BY <1>5 DEF fread, streams
  <2>2. at' = 6 => inputBuffer'.nPts = i
    BY <1>5 DEF fread, FrameInv, Frame, Killed
  <2>3. Written /\ outputBuffer < i
    BY <1>5, <1>r DEF RoundFile
  <2>4. Written'
    BY <2>1, <2>3 DEF Written
  <2> QED
    BY <1>5, <1>t, <2>1, <2>2, <2>3, <2>4 DEF RoundFile
<1>6. CASE at = 6 /\ at' = 7 /\ i' = i /\ AddOneInputBuffer
  <2>1. UNCHANGED <<out_file, produced, outputBuffer, bInit>>
    BY <1>6 DEF AddOneInputBuffer, context, streams, locals
  <2>2. Written /\ outputBuffer < i /\ inputBuffer.nPts = i
    BY <1>6, <1>r DEF RoundFile
  <2>3. Written'
    BY <2>1, <2>2 DEF Written
  <2>4. bInit => submitted'[i].nPts = i
    <3>1. SUFFICES ASSUME bInit PROVE submitted'[i].nPts = i
      OBVIOUS
    <3>2. Len(submitted) = i - 1 /\ returned = i - 1 /\ pFBM
      BY <1>6, <1>r, <3>1 DEF RoundFrames, ContextInv
    <3>3. Len(submitted) - returned < FRAME_BUFFER_NUM
      BY <1>t, <3>2, ContextAssumption
    <3>4. submitted' = Append(submitted, inputBuffer)
      BY <1>6, <3>2, <3>3 DEF AddOneInputBuffer, Queues!Submit
    <3>5. submitted'[i] = inputBuffer
      BY <1>t, <3>2, <3>4, AppendProperties DEF FrameInv
    <3> QED
      BY <2>2, <3>5
  <2> QED
    BY <1>6, <1>t, <2>1, <2>2, <2>3, <2>4 DEF RoundFile
<1>7. ASSUME at = 7, at' = 8, i' = i, NEW stream \in BOOLEAN, VideoEncodeOneFrame(stream)
      PROVE  RoundFile'
  <2>1. UNCHANGED <<out_file, outputBuffer>>
    BY <1>7 DEF VideoEncodeOneFrame, locals
  <2>2. Written /\ outputBuffer < i /\ unread = <<>>
    BY <1>7, <1>r DEF RoundFile, StreamInv
  <2>3. CASE UNCHANGED <<unread, produced>>
    <3>1. Written'
      BY <2>1, <2>2, <2>3 DEF Written
    <3> QED
      BY <1>7, <1>t, <2>1, <2>2, <2>3, <3>1 DEF RoundFile
  <2>4. CASE pFBM /\ finished < Len(submitted) /\ stream
    <3>1. Len(submitted) = i /\ finished + 1 = i /\ submitted[i].nPts = i
      BY <1>7, <1>r, <1>t, <2>4 DEF RoundFile, RoundFrames, ContextInv, FrameInv
    <3>2. /\ unread' = Append(unread, submitted[finished + 1].nPts)
          /\ produced' = Append(produced, submitted[finished + 1].nPts)
      BY <1>7, <2>4 DEF VideoEncodeOneFrame
    <3>3. unread' = <<i>> /\ produced' = Append(produced, i)
      BY <2>2, <3>1, <3>2
    <3>4. produced' = Append(Once(out_file), i) /\ LastIs(Once(out_file), outputBuffer)
      BY <2>2, <3>3 DEF Written
    <3> QED
      BY <1>7, <1>t, <2>1, <2>2, <3>3, <3>4 DEF RoundFile
  <2> QED
    BY <1>7, <2>3, <2>4 DEF VideoEncodeOneFrame, streams
<1>8. CASE /\ i' = i
           /\ \/ at = 8 /\ at' = 9 /\ AlreadyUsedInputBuffer
              \/ at = 9 /\ at' \in {0, 10} /\ ReturnOneAllocInputBuffer
  <2>1. UNCHANGED <<out_file, produced, unread, outputBuffer>>
    <3>1. CASE AlreadyUsedInputBuffer
      BY <3>1 DEF AlreadyUsedInputBuffer, streams
    <3>2. CASE ReturnOneAllocInputBuffer
      BY <3>2 DEF ReturnOneAllocInputBuffer, streams, locals
    <3> QED
      BY <1>8, <3>1, <3>2
  <2>2. outputBuffer < i /\ (\/ unread = <<>> /\ Written
                             \/ /\ unread = <<i>> /\ produced = Append(Once(out_file), i)
                                /\ LastIs(Once(out_file), outputBuffer))
    BY <1>8, <1>r DEF RoundFile
  <2>3. at' \in {0, 9, 10} /\ at \in {8, 9} /\ i' = i
    BY <1>8
  <2>4. CASE unread = <<>> /\ Written
    <3>1. Written'
      BY <2>1, <2>4 DEF Written
    <3> QED
      BY <1>t, <2>1, <2>2, <2>3, <2>4, <3>1 DEF RoundFile
  <2>5. CASE /\ unread = <<i>> /\ produced = Append(Once(out_file), i)
             /\ LastIs(Once(out_file), outputBuffer)
    BY <1>t, <2>1, <2>2, <2>3, <2>5 DEF RoundFile
  <2> QED
    BY <2>2, <2>4, <2>5
<1>9. CASE at = 10 /\ at' = 11 /\ i' = i /\ GetOneBitstreamFrame
  <2>1. UNCHANGED <<out_file, produced>>
    BY <1>9 DEF GetOneBitstreamFrame
  <2>2. outputBuffer < i
    BY <1>9, <1>r DEF RoundFile
  <2>3. CASE unread = <<>> /\ Written
    <3>1. outputBuffer' = outputBuffer
      BY <1>9, <2>3 DEF GetOneBitstreamFrame
    <3>2. Written'
      BY <2>1, <2>3, <3>1 DEF Written
    <3> QED
      BY <1>9, <1>t, <2>1, <2>2, <3>1, <3>2 DEF RoundFile
  <2>4. CASE /\ unread = <<i>> /\ produced = Append(Once(out_file), i)
             /\ LastIs(Once(out_file), outputBuffer)
    <3>1. outputBuffer' = i
      BY <1>9, <2>4 DEF GetOneBitstreamFrame
    <3>2. Once(out_file) # <<>> => Last(Once(out_file)) < i
      BY <2>2, <2>4 DEF LastIs
    <3> QED
      BY <1>9, <1>t, <2>1, <2>4, <3>1, <3>2 DEF RoundFile
  <2> QED
    BY <1>9, <1>r, <2>3, <2>4 DEF RoundFile
<1>10. CASE at = 11 /\ at' \in {0, 12} /\ i' = i /\ fwrite
  <2>1. UNCHANGED <<produced, outputBuffer>> /\ outputBuffer <= i
    BY <1>10, <1>r DEF fwrite, streams, RoundFile
  <2>2. CASE at' = 0
    <3>1. out_file' = out_file \/ out_file' = Append(out_file, outputBuffer)
      BY <1>10 DEF fwrite
    <3> QED
      BY <1>10, <1>t, <2>1, <2>2 DEF RoundFile, fwrite, Goes
  <2>3. CASE at' = 12
    <3>1. out_file' = Append(out_file, outputBuffer)
      BY <1>10, <2>3 DEF fwrite, Killed
    <3>2. out_file' \in Seq(Nat) /\ Once(out_file') = WriteOnce(Once(out_file), outputBuffer)
      BY <1>t, <3>1, OnceMore, AppendProperties
    <3>3. CASE Written
      <4>1. Once(out_file') = Once(out_file)
        BY <3>2, <3>3, WriteAgain DEF Written
      <4>2. Written'
        BY <2>1, <3>3, <4>1 DEF Written
      <4> QED
        BY <1>10, <1>t, <2>1, <2>3, <3>2, <4>1, <4>2 DEF RoundFile
    <3>4. CASE /\ outputBuffer = i /\ produced = Append(Once(out_file), i)
               /\ Once(out_file) # <<>> => Last(Once(out_file)) < i
      <4>1. /\ Once(out_file') = Append(Once(out_file), i)
            /\ Once(out_file') \in Seq(Nat) /\ LastIs(Once(out_file'), i)
        <5>1. Once(out_file) = <<>> \/ Last(Once(out_file)) # i
          BY <1>t, <3>4
        <5>2. i \in Nat \ {0}
          BY <1>t
        <5> QED
          BY <1>t, <3>2, <3>4, <5>1, <5>2, WriteLater
      <4>2. Written'
        BY <2>1, <3>4, <4>1 DEF Written
      <4> QED
        BY <1>10, <1>t, <2>1, <2>3, <3>2, <4>1, <4>2 DEF RoundFile
    <3> QED
      BY <1>10, <1>r, <3>3, <3>4 DEF RoundFile
  <2> QED
    BY <1>10, <2>2, <2>3
<1>11. CASE /\ at = 12 /\ FreeOneBitStreamFrame
            /\ \/ i < testNumber /\ at' = 4 /\ i' = i + 1
               \/ i = testNumber /\ at' = 13 /\ i' = i
  <2>1. UNCHANGED <<out_file, produced, outputBuffer>>
    BY <1>11 DEF FreeOneBitStreamFrame
  <2>2. Written /\ outputBuffer <= i
    BY <1>11, <1>r DEF RoundFile
  <2>3. Written'
    BY <2>1, <2>2 DEF Written
  <2> QED
    BY <1>11, <1>t, <2>1, <2>2, <2>3 DEF RoundFile
<1> QED
  BY <1>r, <1>1, <1>2, <1>3, <1>4, <1>5, <1>6, <1>7, <1>8, <1>9, <1>10, <1>11 DEF RoundStep

\* So does every step; the other clients and the constructor do not touch the file.
LEMMA RoundFileKept == Spec => []RoundFile
<1>1. Init => RoundFile
  <2> SUFFICES ASSUME Init PROVE RoundFile
    OBVIOUS
  <2>1. Once(<<>>) = <<>> /\ <<>> \in Seq(Nat)
    BY OnceNothing, EmptySeq
  <2>2. /\ at = 1 /\ i = 1 /\ out_file = <<>> /\ produced = <<>> /\ outputBuffer = Uninitialized
    BY DEF Init
  <2>3. Written
    BY <2>1, <2>2 DEF Written, LastIs
  <2>4. out_file \in Seq(Nat) /\ Once(out_file) \in Seq(Nat)
    BY <2>1, <2>2
  <2>5. outputBuffer \in Nat
    BY <2>2 DEF Uninitialized
  <2> QED
    BY <2>2, <2>3, <2>4, <2>5 DEF RoundFile
<1>2. (ContextInv /\ PictureInv /\ ClientInv) /\ FrameInv /\ StreamInv
        /\ (RoundFrames /\ RoundPictures) /\ RoundFile /\ [Next]_vars => RoundFile'
  <2> SUFFICES ASSUME ContextInv, PictureInv, ClientInv, FrameInv, StreamInv, RoundFrames,
                      RoundFile, [Next]_vars
               PROVE  RoundFile'
    OBVIOUS
  <2>1. CASE ClientNext /\ client = "VideoTest"
    BY <2>1, RoundFileStep
  <2>2. CASE ClientNext /\ client # "VideoTest"
    <3>1. client' = client
      BY <2>2, SameClient
    <3> QED
      BY <2>2, <3>1 DEF RoundFile
  <2>3. CASE UNCHANGED <<program, context, frameList, streams, locals>>
    BY <2>3 DEF program, context, frameList, streams, locals, RoundFile, Written
  <2> QED
    BY <2>1, <2>2, <2>3 DEF Next, Stopped, vars
<1> QED
  BY <1>1, <1>2, ContextKept, FrameKept, StreamKept, RoundKept, PTL DEF Spec

\* Every stream the device has produced is in VideoTest's file after the round
\* that produced it, once and in order, but for the last one written again by
\* rounds without a stream.
THEOREM FileWritten == Spec => []FileComplete
<1>1. (ContextInv /\ PictureInv /\ ClientInv) /\ RoundFile => FileComplete
  BY VideoTestCalls DEF RoundFile, FileComplete, Written, LoopHead
<1> QED
  BY <1>1, ContextKept, RoundFileKept, PTL
=============================================================================
