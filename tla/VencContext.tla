----------------------------- MODULE VencContext -----------------------------
(***************************************************************************)
(* An encoder context (vencoder/vencoder.c) from VideoEncCreate to         *)
(* VideoEncDestroy, in the hands of one client: the loop of                *)
(* demo/VideoTest.c, the two forms of AWJpecEnc, or a client that makes    *)
(* the calls in any order ("any").                                         *)
(*                                                                         *)
(* Everything the context is built of appears by what it promises: the     *)
(* frame queues by FramePipeline, which run fbm shows FrameBufferManager   *)
(* to implement, the picture buffers by their queue (AllocatedBuffers),    *)
(* the streams by theirs (BitstreamManager), the engine and the memory     *)
(* adapter by EncAdapterInitialize's answer.  The device is external: each *)
(* of its functions may fail, and encode may yield a stream or not.        *)
(***************************************************************************)
EXTENDS VencDevice, InfoQueue, SequencesExt

CONSTANTS FRAME_BUFFER_NUM,  \* 4 in the program
          nBufferNum,        \* picture buffers the client asks for
          testNumber,        \* iterations of VideoTest's loop
          MaxFrames          \* bound: frames a client "any" submits

ASSUME ContextAssumption ==
  /\ FRAME_BUFFER_NUM \in Nat \ {0}
  /\ nBufferNum \in Nat \ {0}
  /\ testNumber \in Nat \ {0}
  /\ MaxFrames \in Nat

\* VencInputBuffer and VencOutputBuffer by the fields the program looks at; nID
\* nBufferNum stands for all that name no picture buffer, nPts 0 for no frame.
\* filled: the structure has been written by the encoder, pointers included.
IDs == 0 .. nBufferNum
Frame == [nID : IDs, nPts : 0 .. testNumber]
Uninitialized == 0

VARIABLES
  client, at, i,       \* the client's program, its next call and its round
  ctx,                 \* how far VideoEncCreate has come
  adapter,             \* EncAdapterInitialize not yet released
  pVEncDevice, bInit, pFBM,        \* VencContext
  submitted, finished, returned,   \* pFBM's inputbuffer_list
  buffer_num, allocate_buffer, allocate_queue,  \* pFBM's ABM_inputbuffer
  memory,              \* memory adapter: buffers given out
  handle, encoded,     \* the device: its state, the frames encode was given
  unread, nValidFrameNum,          \* its bitstream manager
  inputBuffer, filled, outputBuffer, got,  \* the client's own structures
  produced, out_file   \* history: streams of the device, streams written

program == <<client, at, i>>
context == <<ctx, adapter, pVEncDevice, bInit, pFBM>>
frameList == <<submitted, finished, returned>>
pictures == <<buffer_num, allocate_buffer, allocate_queue, memory>>
device == <<handle, encoded>>
streams == <<unread, nValidFrameNum, produced>>
locals == <<inputBuffer, filled, outputBuffer, got, out_file>>
vars == <<registry, program, context, frameList, pictures, device, streams, locals>>

Queues == INSTANCE FramePipeline WITH Capacity <- FRAME_BUFFER_NUM

-----------------------------------------------------------------------------
(* The clients.                                                            *)

\* Mutant: the stream is asked for before the frame is encoded.
VideoTestEarly ==
  <<"VideoEncCreate", "VideoEncInit", "AllocInputBuffer", "GetOneAllocInputBuffer",
    "fread", "AddOneInputBuffer", "GetOneBitstreamFrame", "fwrite",
    "FreeOneBitStreamFrame", "VideoEncodeOneFrame", "AlreadyUsedInputBuffer",
    "ReturnOneAllocInputBuffer">>

\* Calls that change nothing (parameters, cache, prints) are left out.
VideoTest ==
  <<"VideoEncCreate", "VideoEncInit", "AllocInputBuffer", "GetOneAllocInputBuffer",
    "fread", "AddOneInputBuffer", "VideoEncodeOneFrame", "AlreadyUsedInputBuffer",
    "ReturnOneAllocInputBuffer", "GetOneBitstreamFrame", "fwrite",
    "FreeOneBitStreamFrame">>
LoopHead == 4

\* bNoUseAddrPhy: the picture is copied; VideoEncodeOneFrame is commented out.
AWJpecEnc ==
  <<"VideoEncCreate", "VideoEncInit", "AllocInputBuffer", "GetOneAllocInputBuffer",
    "fread", "AddOneInputBuffer", "AlreadyUsedInputBuffer", "ReturnOneAllocInputBuffer",
    "GetOneBitstreamFrame", "fwrite", "FreeOneBitStreamFrame", "VideoEncDestroy">>

\* Otherwise the picture stays where the caller has it.
AWJpecEncPhy ==
  <<"VideoEncCreate", "VideoEncInit", "AddOneInputBuffer", "AlreadyUsedInputBuffer",
    "GetOneBitstreamFrame", "fwrite", "FreeOneBitStreamFrame", "VideoEncDestroy">>

Program == [VideoTest |-> VideoTest, AWJpecEnc |-> AWJpecEnc,
            AWJpecEncPhy |-> AWJpecEncPhy, any |-> <<>>]

\* The client has returned, or a wild pointer has killed it.
End == Len(Program[client]) + 1
Killed == 0

Calls(name) == client = "any" \/ (at \in 1 .. Len(Program[client]) /\ Program[client][at] = name)

\* Where a client goes that minds the error: goto err0.
AfterError(name) == IF name = "VideoEncCreate" THEN End ELSE End - 1
Minds(name) == name = "VideoEncCreate"
                 \/ (client # "VideoTest" /\ name \in {"VideoEncInit", "AllocInputBuffer"})

Goes(name, ok) ==
  /\ UNCHANGED client
  /\ IF client = "any" THEN UNCHANGED <<at, i>>
     ELSE IF ~ ok /\ Minds(name) THEN at' = AfterError(name) /\ UNCHANGED i
     ELSE IF client = "VideoTest" /\ at = End - 1 /\ i < testNumber
       THEN at' = LoopHead /\ i' = i + 1
     ELSE at' = at + 1 /\ UNCHANGED i

-----------------------------------------------------------------------------

Init ==
  /\ RegistryInit
  /\ client \in DOMAIN Program /\ at = 1 /\ i = 1
  /\ ctx = "none" /\ adapter = 0 /\ pVEncDevice = NULL
  /\ bInit = FALSE /\ pFBM = FALSE
  /\ Queues!Init
  /\ buffer_num = 0 /\ allocate_buffer = FALSE /\ allocate_queue = <<>> /\ memory = 0
  /\ handle = "closed" /\ encoded = <<>>
  /\ unread = <<>> /\ nValidFrameNum = 0 /\ produced = <<>>
  /\ inputBuffer \in {[nID |-> id, nPts |-> 0] : id \in IDs}
  /\ filled = FALSE
  /\ outputBuffer = Uninitialized /\ got = 0 /\ out_file = <<>>

\* calloc, and what has been destroyed before.
NoManager ==
  /\ submitted' = <<>> /\ finished' = 0 /\ returned' = 0
  /\ buffer_num' = 0 /\ allocate_buffer' = FALSE /\ allocate_queue' = <<>>

-----------------------------------------------------------------------------
(* VideoEncCreate, stage by stage; a client has one context at a time.     *)

CreateAdapter ==
  /\ Calls("VideoEncCreate") /\ ctx = "none"
  /\ ctx' = "adapter" /\ adapter' = adapter + 1
  /\ UNCHANGED <<registry, program, pVEncDevice, bInit, pFBM, frameList, pictures, device,
                 streams, locals>>

CreateContext(codec) ==
  /\ ctx = "adapter"
  /\ ctx' = "context" /\ bInit' = FALSE /\ pFBM' = FALSE
  /\ pVEncDevice' = VencoderDeviceCreate(codec)
  /\ UNCHANGED <<registry, program, adapter, frameList, pictures, device, streams, locals>>

CreateOpen ==
  /\ ctx = "context" /\ pVEncDevice # NULL
  /\ ctx' = "made" /\ handle' = "open"
  /\ Goes("VideoEncCreate", TRUE)
  /\ UNCHANGED <<registry, adapter, pVEncDevice, bInit, pFBM, frameList, pictures, encoded,
                 streams, locals>>

\* Mutant: a context without a device leaves the adapter initialized.
CreateFailsKeepsAdapter ==
  /\ \/ Calls("VideoEncCreate") /\ ctx = "none" /\ UNCHANGED adapter
     \/ ctx = "adapter" /\ adapter' = adapter - 1
     \/ ctx = "context" /\ UNCHANGED adapter
  /\ ctx' = "none" /\ pVEncDevice' = NULL
  /\ Goes("VideoEncCreate", FALSE)
  /\ UNCHANGED <<registry, bInit, pFBM, frameList, pictures, device, streams, locals>>

\* EncAdapterInitialize, calloc, the lookup or the device's open fails: what the
\* stages before have done is undone and NULL returned.
CreateFails ==
  /\ \/ Calls("VideoEncCreate") /\ ctx = "none" /\ UNCHANGED adapter
     \/ ctx \in {"adapter", "context"} /\ adapter' = adapter - 1
  /\ ctx' = "none" /\ pVEncDevice' = NULL
  /\ Goes("VideoEncCreate", FALSE)
  /\ UNCHANGED <<registry, bInit, pFBM, frameList, pictures, device, streams, locals>>

-----------------------------------------------------------------------------
(* VideoEncInit, VideoEncUnInit and VideoEncDestroy, which begins with     *)
(* VideoEncUnInit.                                                         *)

\* bInit is set whatever the device's init answers, and the other calls do not ask.
VideoEncInit(ok) ==
  /\ Calls("VideoEncInit") /\ ctx = "made" /\ ~ bInit
  /\ bInit' = TRUE /\ pFBM' = TRUE /\ NoManager
  /\ handle' = (IF ok THEN "initialized" ELSE "failed") /\ encoded' = <<>>
  /\ unread' = <<>> /\ nValidFrameNum' = 0 /\ produced' = <<>>
  /\ Goes("VideoEncInit", ok)
  /\ UNCHANGED <<registry, ctx, adapter, pVEncDevice, memory, locals>>

\* FrameBufferManagerCreate has no memory.
VideoEncInitFails ==
  /\ Calls("VideoEncInit") /\ ctx = "made" /\ ~ bInit
  /\ Goes("VideoEncInit", FALSE)
  /\ UNCHANGED <<registry, context, frameList, pictures, device, streams, locals>>

\* FrameBufferManagerDestroy frees the memory behind the picture buffers.
PicturesFreed == IF allocate_buffer THEN buffer_num ELSE 0

\* The device's uninit takes its streams with it.
VideoEncUnInit ==
  /\ Calls("VideoEncDestroy") /\ ctx = "made" /\ bInit
  /\ bInit' = FALSE /\ pFBM' = FALSE /\ NoManager
  /\ memory' = memory - PicturesFreed
  /\ handle' = "open" /\ encoded' = <<>>
  /\ unread' = <<>> /\ nValidFrameNum' = 0 /\ produced' = <<>>
  /\ got' = 0
  /\ UNCHANGED <<registry, program, ctx, adapter, pVEncDevice, inputBuffer, filled,
                 outputBuffer, out_file>>

\* Mutant: the context is destroyed without VideoEncUnInit.
DestroyNow == TRUE

\* VideoEncUnInit has done its part.
DestroyReady == ~ bInit

VideoEncDestroy ==
  /\ Calls("VideoEncDestroy") /\ ctx = "made"
  /\ DestroyReady
  /\ handle' = "closed" /\ ctx' = "none" /\ pVEncDevice' = NULL
  /\ adapter' = adapter - 1
  /\ Goes("VideoEncDestroy", TRUE)
  /\ UNCHANGED <<registry, bInit, pFBM, frameList, pictures, encoded, streams, locals>>

-----------------------------------------------------------------------------
(* Picture buffers.  Without a manager the calls return -1.                *)

AllocInputBuffer(ok) ==
  /\ Calls("AllocInputBuffer") /\ ctx = "made" /\ ~ allocate_buffer
  /\ \/ /\ ok /\ pFBM
        /\ buffer_num' = nBufferNum /\ allocate_buffer' = TRUE
        /\ allocate_queue' = [n \in 1 .. nBufferNum |-> n - 1]
        /\ memory' = memory + nBufferNum
     \/ /\ ~ ok
        /\ buffer_num' = IF pFBM THEN nBufferNum ELSE buffer_num
        /\ UNCHANGED <<allocate_buffer, allocate_queue, memory>>
  /\ Goes("AllocInputBuffer", ok)
  /\ UNCHANGED <<registry, context, frameList, device, streams, locals>>

GetOneAllocInputBuffer ==
  /\ Calls("GetOneAllocInputBuffer") /\ ctx = "made"
  /\ IF pFBM /\ allocate_buffer /\ allocate_queue # <<>>
       THEN /\ inputBuffer' = [nID |-> Head(allocate_queue), nPts |-> 0]
            /\ filled' = TRUE
            /\ allocate_queue' = dequeue(allocate_queue)
       ELSE UNCHANGED <<inputBuffer, filled, allocate_queue>>
  /\ Goes("GetOneAllocInputBuffer", TRUE)
  /\ UNCHANGED <<registry, context, frameList, buffer_num, allocate_buffer, memory, device,
                 streams, outputBuffer, got, out_file>>

\* A structure that Get has not filled names no array element, or one of a NULL
\* array, which kills the client.
ReturnOneAllocInputBuffer ==
  /\ Calls("ReturnOneAllocInputBuffer") /\ ctx = "made"
  /\ client = "any" => allocate_buffer /\ inputBuffer.nID \notin Range(allocate_queue)
  /\ IF pFBM /\ inputBuffer.nID < buffer_num /\ ~ allocate_buffer
       THEN at' = Killed /\ UNCHANGED <<client, i, allocate_queue>>
       ELSE /\ allocate_queue' = IF pFBM /\ inputBuffer.nID < buffer_num
                                   THEN enqueue(allocate_queue, inputBuffer.nID)
                                   ELSE allocate_queue
            /\ Goes("ReturnOneAllocInputBuffer", TRUE)
  /\ UNCHANGED <<registry, context, frameList, buffer_num, allocate_buffer, memory, device,
                 streams, locals>>

\* The client fills the picture and stamps the frame.  Through pointers that
\* nobody has set this may kill it, or the read may fail and the client go on.
fread ==
  /\ Calls("fread")
  /\ \/ /\ Goes("fread", TRUE)
        /\ inputBuffer' = [inputBuffer EXCEPT !.nPts = i]
     \/ /\ ~ filled /\ at' = Killed
        /\ UNCHANGED <<client, i, inputBuffer>>
  /\ UNCHANGED <<registry, context, frameList, pictures, device, streams, filled,
                 outputBuffer, got, out_file>>

-----------------------------------------------------------------------------
(* Frames.                                                                 *)

AddOneInputBuffer ==
  /\ Calls("AddOneInputBuffer") /\ ctx = "made"
  /\ client = "any" => Len(submitted) < MaxFrames
  /\ IF pFBM /\ Len(submitted) - returned < FRAME_BUFFER_NUM
       THEN Queues!Submit(inputBuffer) ELSE UNCHANGED frameList
  /\ Goes("AddOneInputBuffer", TRUE)
  /\ UNCHANGED <<registry, context, pictures, device, streams, locals>>

\* Mutant: the frame stays queued when the device fails.
FrameUsedOnSuccess(stream) == IF stream THEN Queues!Finish ELSE UNCHANGED frameList

\* AddUsedInputBuffer, whatever encode has answered.
FrameUsed(stream) == Queues!Finish

VideoEncodeOneFrame(stream) ==
  /\ Calls("VideoEncodeOneFrame") /\ ctx = "made"
  /\ IF pFBM /\ finished < Len(submitted)
       THEN LET frame == submitted[finished + 1]
            IN  /\ encoded' = Append(encoded, frame)
                /\ FrameUsed(stream)
                /\ IF stream
                     THEN /\ unread' = Append(unread, frame.nPts)
                          /\ produced' = Append(produced, frame.nPts)
                          /\ nValidFrameNum' = nValidFrameNum + 1
                     ELSE UNCHANGED streams
       ELSE ~ stream /\ UNCHANGED <<frameList, encoded, streams>>
  /\ Goes("VideoEncodeOneFrame", TRUE)
  /\ UNCHANGED <<registry, context, pictures, handle, locals>>

AlreadyUsedInputBuffer ==
  /\ Calls("AlreadyUsedInputBuffer") /\ ctx = "made"
  /\ IF pFBM /\ returned < finished
       THEN Queues!HandBack /\ inputBuffer' = submitted[returned + 1]
       ELSE UNCHANGED <<frameList, inputBuffer>>
  /\ Goes("AlreadyUsedInputBuffer", TRUE)
  /\ UNCHANGED <<registry, context, pictures, device, streams, filled, outputBuffer, got,
                 out_file>>

-----------------------------------------------------------------------------
(* Streams: handed through to the device.                                  *)

GetOneBitstreamFrame ==
  /\ Calls("GetOneBitstreamFrame") /\ ctx = "made"
  /\ IF unread # <<>>
       THEN outputBuffer' = Head(unread) /\ unread' = Tail(unread) /\ got' = got + 1
       ELSE UNCHANGED <<outputBuffer, unread, got>>
  /\ Goes("GetOneBitstreamFrame", TRUE)
  /\ UNCHANGED <<registry, context, frameList, pictures, device, nValidFrameNum, produced,
                 inputBuffer, filled, out_file>>

\* The client writes what outputBuffer points to, or copies it to the caller; an
\* outputBuffer that was never set may kill it.
fwrite ==
  /\ Calls("fwrite") /\ client # "any"
  /\ \/ /\ out_file' = Append(out_file, outputBuffer)
        /\ Goes("fwrite", TRUE)
     \/ /\ outputBuffer = Uninitialized
        /\ at' = Killed
        /\ UNCHANGED <<client, i, out_file>>
  /\ UNCHANGED <<registry, context, frameList, pictures, device, streams, inputBuffer,
                 filled, outputBuffer, got>>

\* Mutant: the count is taken down without a test.
OneLess(n) == n - 1

\* BitStreamReturnOneBitstream refuses when no stream is live.
OneReturned(n) == IF n = 0 THEN n ELSE n - 1

\* The demo and AWJpecEnc call it whether or not they have got a stream.
FreeOneBitStreamFrame ==
  /\ Calls("FreeOneBitStreamFrame") /\ ctx = "made"
  /\ client = "any" => got > 0
  /\ nValidFrameNum' = OneReturned(nValidFrameNum)
  /\ got' = IF got = 0 THEN 0 ELSE got - 1
  /\ Goes("FreeOneBitStreamFrame", TRUE)
  /\ UNCHANGED <<registry, context, frameList, pictures, device, unread, produced,
                 inputBuffer, filled, outputBuffer, out_file>>
-----------------------------------------------------------------------------

ClientNext ==
  \/ CreateAdapter \/ (\E codec \in CodecTypes : CreateContext(codec)) \/ CreateOpen
  \/ CreateFails
  \/ (\E ok \in BOOLEAN : VideoEncInit(ok)) \/ VideoEncInitFails
  \/ VideoEncUnInit \/ VideoEncDestroy
  \/ (\E ok \in BOOLEAN : AllocInputBuffer(ok))
  \/ GetOneAllocInputBuffer \/ ReturnOneAllocInputBuffer \/ fread
  \/ AddOneInputBuffer \/ AlreadyUsedInputBuffer
  \/ (\E stream \in BOOLEAN : VideoEncodeOneFrame(stream))
  \/ GetOneBitstreamFrame \/ fwrite \/ FreeOneBitStreamFrame

\* The client has come to its end, or has been killed.
Stopped ==
  /\ client # "any" /\ at \in {Killed, End}
  /\ UNCHANGED vars

\* The library's constructor has run before the client calls anything.
Next ==
  \/ RegistryNext /\ UNCHANGED <<program, context, frameList, pictures, device, streams, locals>>
  \/ loading = "done" /\ ClientNext
  \/ Stopped

Spec == Init /\ [][Next]_vars

-----------------------------------------------------------------------------
(* Properties.                                                             *)

\* Without a context nothing of one is left: the adapter's uses are all released,
\* the device is closed and every picture buffer freed, whichever stage of
\* VideoEncCreate failed and wherever the client stopped using the context.
\* AWJpecEnc leaves no context behind on any of its ways out.
NothingLeft ==
  /\ ctx = "none" => adapter = 0 /\ handle = "closed" /\ memory = 0 /\ ~ bInit
  /\ client \in {"AWJpecEnc", "AWJpecEncPhy"} /\ at = End => ctx = "none"

\* However the calls follow each other and whichever of them fail, the device is
\* called as EncoderDevice says: no encode before init or after uninit, after an
\* init, also a failed one, no second init and no close before its uninit, and
\* frames once and in order.
Device == INSTANCE EncoderDevice WITH offered <- submitted
DeviceSpec == Device!Spec

\* After every round of VideoTest's loop nothing of the round's frame is left
\* behind in the context, although the loop minds no error: every frame submitted
\* has come back, and all picture buffers are there for the next round.
RoundComplete ==
  client = "VideoTest" /\ at \in {LoopHead, End} =>
    /\ returned = Len(submitted)
    /\ pFBM => Len(submitted) = IF at = End THEN testNumber ELSE i - 1
    /\ allocate_buffer =>
         IsInjective(allocate_queue) /\ Range(allocate_queue) = 0 .. nBufferNum - 1

\* The device counts as live the streams that are unread or in the client's hands,
\* although FreeOneBitStreamFrame is called without a stream as well.
StreamsAccounted == nValidFrameNum = Len(unread) + got

\* What the file would be if every stream were written once.
Once(file) ==
  FoldLeft(LAMBDA once, s : IF s = Uninitialized \/ (once # <<>> /\ s = Last(once))
                              THEN once ELSE Append(once, s),
           <<>>, file)

\* Every stream the device has produced is in VideoTest's file after the round
\* that produced it, in order.  A round without one writes what outputBuffer still
\* points to, which can only be the last stream again.
FileComplete ==
  client = "VideoTest" /\ at \in {LoopHead, End} => Once(out_file) = produced
=============================================================================
