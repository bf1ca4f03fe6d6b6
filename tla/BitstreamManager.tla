-------------------------- MODULE BitstreamManager --------------------------
(***************************************************************************)
(* vencoder/BitstreamManager.c: a ring of bytes that the encoder hardware  *)
(* fills and a ring of StreamInfo records that says which part of it is    *)
(* which encoded stream.                                                   *)
(*                                                                         *)
(* Two threads use it.  The encoding one, inside the device's encode, asks *)
(* for the free size and the write offset without the mutex, lets the      *)
(* hardware write, and adds the stream.  The application's one gets a      *)
(* pointer to the oldest unread record, reads it after the unlock, and     *)
(* gives streams back in the order in which it got them (demo/VideoTest.c  *)
(* frees each before it gets the next; here it may hold several).  The     *)
(* device that calls these functions is the binary                         *)
(* libcedar_plugin_venc.so: its steps are external.                        *)
(***************************************************************************)
EXTENDS Integers, Sequences, Functions

CONSTANTS nStreamBufferSize,  \* BitStreamCreate's argument
          nMaxFrameNum,       \* BITSTREAM_FRAME_FIFO_SIZE, 256 in the program
          Lengths,            \* what the hardware may produce
          MaxStreams          \* bound: streams accepted in a behaviour

\* Both are positive, for BitStreamCreate refuses a size that is not.
ASSUME RingAssumption ==
  /\ nStreamBufferSize \in Nat \ {0}
  /\ nMaxFrameNum \in Nat \ {0}
  /\ Lengths \subseteq Nat \ {0}
  /\ MaxStreams \in Nat

ALIGN_64B(x) == ((x + 63) \div 64) * 64

Positions == 0 .. nMaxFrameNum - 1

\* StreamInfo; nPts stands for which stream it is.
StreamInfo == [nStreamOffset : Int, nStreamLength : Nat, nPts : Nat, nID : Int]
ZeroInfo == [nStreamOffset |-> 0, nStreamLength |-> 0, nPts |-> 0, nID |-> 0]

VARIABLES
  nWriteOffset, nValidDataSize,                          \* BitStreamManager
  nValidFrameNum, nUnReadFrameNum, nReadPos, nWritePos,  \* BSListQ
  pStreamInfos,
  memory,    \* pStreamBuffer: which stream last wrote each 64 byte unit of it
  encPc, room, info,  \* the encoding thread: its step, the free size it read
                      \* and the record it prepares
  appPc, pStreamInfo, \* the application: its step, the pointer it was given
  held,      \* the records it has read and not yet given back
  log        \* history: the tape position and length of every accepted stream

ring == <<nValidFrameNum, nUnReadFrameNum, nReadPos, nWritePos, pStreamInfos>>
encoder == <<encPc, room, info>>
application == <<appPc, pStreamInfo, held>>
vars == <<nWriteOffset, nValidDataSize, ring, memory, encoder, application, log>>

\* The units of the buffer that `length' bytes from `offset' on touch, the end
\* of the buffer being followed by its beginning.
Units(offset, length) ==
  {((offset + k) % nStreamBufferSize) \div 64 : k \in 0 .. length - 1}
AllUnits == 0 .. (nStreamBufferSize - 1) \div 64

\* nWritePos and nReadPos go round the ring.
NextPos(p) == IF p + 1 >= nMaxFrameNum THEN 0 ELSE p + 1

-----------------------------------------------------------------------------
(* BitStreamCreate                                                         *)

Init ==
  /\ nWriteOffset = 0
  /\ nValidDataSize = 0
  /\ nValidFrameNum = 0
  /\ nUnReadFrameNum = 0
  /\ nReadPos = 0
  /\ nWritePos = 0
  /\ pStreamInfos = [p \in Positions |-> ZeroInfo]
  /\ memory = [u \in AllUnits |-> 0]
  /\ encPc = "idle"
  /\ room = 0
  /\ info = ZeroInfo
  /\ appPc = "idle"
  /\ pStreamInfo = 0
  /\ held = <<>>
  /\ log = <<>>

-----------------------------------------------------------------------------
(* The encoding thread.                                                    *)

\* Mutant: what is stored is not taken off.
WholeBufferFree == nStreamBufferSize

\* BitStreamFreeBufferSize, without the mutex
BitStreamFreeBufferSize == nStreamBufferSize - nValidDataSize

ReadRoom ==
  /\ encPc = "idle"
  /\ encPc' = "offset"
  /\ room' = BitStreamFreeBufferSize
  /\ UNCHANGED <<nWriteOffset, nValidDataSize, ring, memory, info, application, log>>

\* BitStreamWriteOffset, without the mutex
ReadOffset ==
  /\ encPc = "offset"
  /\ encPc' = "write"
  /\ info' = [info EXCEPT !.nStreamOffset = nWriteOffset]
  /\ UNCHANGED <<nWriteOffset, nValidDataSize, ring, memory, room, application, log>>

\* The hardware writes a stream into the space it was given ...
HardwareWrite(length) ==
  /\ encPc = "write"
  /\ length <= room
  /\ Len(log) < MaxStreams
  /\ encPc' = "add"
  /\ info' = [info EXCEPT !.nStreamLength = length, !.nPts = Len(log) + 1]
  /\ memory' = [u \in AllUnits |->
                  IF u \in Units(info.nStreamOffset, length)
                    THEN Len(log) + 1 ELSE memory[u]]
  /\ UNCHANGED <<nWriteOffset, nValidDataSize, ring, room, application, log>>

\* ... or gives the frame up, because the space does not suffice or because of
\* an error.
HardwareFails ==
  /\ encPc = "write"
  /\ encPc' = "idle"
  /\ UNCHANGED <<nWriteOffset, nValidDataSize, ring, memory, room, info, application, log>>

\* Mutants: the wrong counter is compared; > for >=; nID is set after nWritePos
\* has been advanced.
ListFullOfUnread == nUnReadFrameNum >= nMaxFrameNum
ListFullLate == nValidFrameNum > nMaxFrameNum
RecordedLate == [info EXCEPT !.nID = NextPos(nWritePos)]

\* BitStreamAddOneBitstream: its two tests, and the record it stores.
ListFull == nValidFrameNum >= nMaxFrameNum
TooLong == info.nStreamLength > nStreamBufferSize - nValidDataSize
Recorded == [info EXCEPT !.nID = nWritePos]

\* History: where the tape ends, every stream taking whole 64 byte units.
TapeEnd == IF log = <<>> THEN 0
           ELSE log[Len(log)].start + ALIGN_64B(log[Len(log)].length)

BitStreamAddOneBitstream ==
  /\ encPc = "add"
  /\ ~ ListFull /\ ~ TooLong
  /\ encPc' = "idle"
  /\ pStreamInfos' = [pStreamInfos EXCEPT ![nWritePos] = Recorded]
  /\ nWritePos' = NextPos(nWritePos)
  /\ nValidFrameNum' = nValidFrameNum + 1
  /\ nUnReadFrameNum' = nUnReadFrameNum + 1
  /\ nValidDataSize' = nValidDataSize + ALIGN_64B(info.nStreamLength)
  /\ LET NewWriteOffset == nWriteOffset + ALIGN_64B(info.nStreamLength)
     IN  nWriteOffset' = IF NewWriteOffset >= nStreamBufferSize
                           THEN NewWriteOffset - nStreamBufferSize ELSE NewWriteOffset
  /\ log' = Append(log, [start |-> TapeEnd, length |-> info.nStreamLength])
  /\ UNCHANGED <<nReadPos, memory, room, info, application>>

\* It returns -1 and the stream is dropped.
AddRejected ==
  /\ encPc = "add"
  /\ ListFull \/ TooLong
  /\ encPc' = "idle"
  /\ UNCHANGED <<nWriteOffset, nValidDataSize, ring, memory, room, info, application, log>>

-----------------------------------------------------------------------------
(* The application.                                                        *)

\* Mutant: the last unread stream is kept back.
OneUnreadLeft == nUnReadFrameNum <= 1

\* BitStreamGetOneBitstream returns NULL.
NoneUnread == nUnReadFrameNum = 0

BitStreamGetOneBitstream ==
  /\ appPc = "idle"
  /\ ~ NoneUnread
  /\ appPc' = "copy"
  /\ pStreamInfo' = nReadPos
  /\ nReadPos' = NextPos(nReadPos)
  /\ nUnReadFrameNum' = nUnReadFrameNum - 1
  /\ UNCHANGED <<nWriteOffset, nValidDataSize, nValidFrameNum, nWritePos, pStreamInfos,
                 memory, encoder, held, log>>

\* The device reads the record through the pointer, without the mutex, and
\* hands its contents out.
ReadInfo ==
  /\ appPc = "copy"
  /\ appPc' = "idle"
  /\ held' = Append(held, pStreamInfos[pStreamInfo])
  /\ UNCHANGED <<nWriteOffset, nValidDataSize, ring, memory, encoder, pStreamInfo, log>>

\* Mutant: the length itself is freed, not the units it takes.
FreedUnpadded(nID) == pStreamInfos[nID].nStreamLength

\* What the return of a stream frees: its length is read again from the ring, at
\* the position that the application returns.
Freed(nID) == ALIGN_64B(pStreamInfos[nID].nStreamLength)

\* BitStreamReturnOneBitstream for the stream held longest.
BitStreamReturnOneBitstream ==
  /\ appPc = "idle"
  /\ held # <<>>
  /\ LET nID == Head(held).nID
     IN  /\ ~ (nID < 0 \/ nID > nMaxFrameNum)
         /\ nValidFrameNum # 0
         /\ nValidDataSize' = nValidDataSize - Freed(nID)
  /\ nValidFrameNum' = nValidFrameNum - 1
  /\ held' = Tail(held)
  /\ UNCHANGED <<nWriteOffset, nUnReadFrameNum, nReadPos, nWritePos, pStreamInfos,
                 memory, encoder, appPc, pStreamInfo, log>>

-----------------------------------------------------------------------------

EncoderStep ==
  \/ ReadRoom
  \/ ReadOffset
  \/ \E length \in Lengths : HardwareWrite(length)
  \/ HardwareFails
  \/ BitStreamAddOneBitstream
  \/ AddRejected
ApplicationStep ==
  BitStreamGetOneBitstream \/ ReadInfo \/ BitStreamReturnOneBitstream

Next == EncoderStep \/ ApplicationStep

Spec == Init /\ [][Next]_vars

\* The application keeps asking for streams and giving them back.
FairSpec == Spec /\ WF_vars(ApplicationStep)

-----------------------------------------------------------------------------
(* Properties.                                                             *)

\* The live records, oldest first: nValidFrameNum of them, the last
\* nUnReadFrameNum of which start at nReadPos.
OldestPos == (nReadPos - (nValidFrameNum - nUnReadFrameNum)) % nMaxFrameNum
Live == [i \in 1 .. nValidFrameNum |-> pStreamInfos[(OldestPos + i - 1) % nMaxFrameNum]]

\* The tape position up to which everything has been given back.
TapeBegin == IF nValidFrameNum = 0 THEN TapeEnd
             ELSE log[Len(log) - nValidFrameNum + 1].start

\* Positions stay in the ring, the write offset in the buffer, and the counts
\* within their capacities.
TypeOK ==
  /\ nWriteOffset \in 0 .. nStreamBufferSize - 1
  /\ nValidDataSize \in 0 .. nStreamBufferSize
  /\ nValidFrameNum \in 0 .. nMaxFrameNum
  /\ nUnReadFrameNum \in 0 .. nValidFrameNum
  /\ nReadPos \in Positions /\ nWritePos \in Positions
  /\ pStreamInfos \in [Positions -> StreamInfo]
  /\ memory \in [AllUnits -> 0 .. MaxStreams]
  /\ encPc \in {"idle", "offset", "write", "add"}
  /\ room \in 0 .. nStreamBufferSize
  /\ info \in StreamInfo
  /\ appPc \in {"idle", "copy"}
  /\ pStreamInfo \in Positions
  /\ held \in Seq(StreamInfo)
  /\ log \in Seq([start : Nat, length : Lengths])

\* The two counters account for exactly the streams that are unread, being read
\* or held, whatever was added and given back before, and the write offset is
\* where the tape ends.
Accounting ==
  /\ nValidFrameNum = nUnReadFrameNum + Len(held) + (IF appPc = "copy" THEN 1 ELSE 0)
  /\ nValidDataSize = TapeEnd - TapeBegin
  /\ nWriteOffset = TapeEnd % nStreamBufferSize

\* The live records are those of the latest streams in the order of their
\* acceptance; each knows its place in the ring and where its data begins.
LiveInOrder ==
  \A i \in 1 .. nValidFrameNum :
    LET n == Len(log) - nValidFrameNum + i
    IN  Live[i] = [nPts |-> n, nStreamLength |-> log[n].length,
                   nStreamOffset |-> log[n].start % nStreamBufferSize,
                   nID |-> (OldestPos + i - 1) % nMaxFrameNum]

\* No data of a live stream is overwritten: not by a later one, and not by the
\* one the hardware is writing into the space read without the mutex.
StreamsIntact ==
  \A i \in 1 .. nValidFrameNum :
    \A u \in Units(Live[i].nStreamOffset, Live[i].nStreamLength) : memory[u] = Live[i].nPts

\* The ring position of a stream the application holds is not recorded over:
\* BitStreamReturnOneBitstream reads the length there.
HeldInfoStable ==
  \A i \in DOMAIN held : pStreamInfos[held[i].nID] = held[i]

\* The free size and the write offset that the encoding thread read without the
\* mutex still serve when it adds the stream: room has only grown and the
\* offset is the same, so a written stream is never refused for its length.
RoomSuffices ==
  /\ encPc # "idle" => room <= BitStreamFreeBufferSize
  /\ encPc \in {"write", "add"} => info.nStreamOffset = nWriteOffset
  /\ encPc = "add" => ~ TooLong

\* The abstract tape: streams are delivered and given back in the order of their
\* acceptance, and never more of them are live than the buffer holds.
Stream(p) == [start |-> log[pStreamInfos[p % nMaxFrameNum].nPts].start,
              length |-> pStreamInfos[p % nMaxFrameNum].nStreamLength]
Fifo == INSTANCE BitstreamFifo WITH
  Length <- Lengths, Padded <- ALIGN_64B,
  Size <- nStreamBufferSize, Capacity <- nMaxFrameNum,
  unread <- [i \in 1 .. nUnReadFrameNum |-> Stream(nReadPos + i - 1)],
  held <- [i \in 1 .. nValidFrameNum - nUnReadFrameNum |-> Stream(OldestPos + i - 1)],
  head <- TapeBegin, tail <- TapeEnd
FifoSpec == Fifo!Spec

\* Every accepted stream is delivered and given back in the end.
EveryStreamGivenBack ==
  \A n \in 1 .. MaxStreams : Len(log) >= n ~> Len(log) - nValidFrameNum >= n
=============================================================================
