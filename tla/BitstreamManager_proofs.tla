----------------------- MODULE BitstreamManager_proofs -----------------------
(***************************************************************************)
(* Theorems about the bitstream manager, for a buffer of any size, a ring  *)
(* of any length and any lengths of streams.  RoomStaysEnough and          *)
(* HeldInfoStays hold for every size; the others need a buffer of whole    *)
(* 64 byte units (WholeUnits), for in another the padded length of a       *)
(* stream that fits may exceed the free size.                              *)
(***************************************************************************)
EXTENDS BitstreamManager, SequenceTheorems, TLAPS

WholeUnits == nStreamBufferSize % 64 = 0

-----------------------------------------------------------------------------
(* Division.                                                               *)

LEMMA DivMod ==
  ASSUME NEW n \in Nat \ {0}, NEW x \in Int
  PROVE  x \div n \in Int /\ x % n \in 0 .. n - 1 /\ x = n * (x \div n) + (x % n)
OBVIOUS

LEMMA TimesMore ==
  ASSUME NEW n \in Nat \ {0}, NEW a \in Int, NEW b \in Int, a > b
  PROVE  n * a >= n * b + n
<1> DEFINE d == a - b - 1
<1>1. d \in Nat /\ a = b + 1 + d
  OBVIOUS
<1> HIDE DEF d
<1>2. n * a = n * b + n + n * d
  BY <1>1
<1>3. n * d \in Nat
  BY <1>1
<1> QED
  BY <1>2, <1>3

LEMMA DivisionUnique ==
  ASSUME NEW n \in Nat \ {0}, NEW q \in Int, NEW r \in 0 .. n - 1,
         NEW s \in Int, NEW t \in 0 .. n - 1, n * q + r = n * s + t
  PROVE  q = s /\ r = t
<1>1. n * q \in Int /\ n * s \in Int
  OBVIOUS
<1>2. ~ (q > s)
  <2> SUFFICES ASSUME q > s PROVE FALSE
    OBVIOUS
  <2> QED
    BY <1>1, TimesMore
<1>3. ~ (s > q)
  <2> SUFFICES ASSUME s > q PROVE FALSE
    OBVIOUS
  <2> QED
    BY <1>1, TimesMore
<1> QED
  BY <1>1, <1>2, <1>3

\* A number that is taken apart as a division would, is divided.
LEMMA ModIs ==
  ASSUME NEW n \in Nat \ {0}, NEW x \in Int, NEW q \in Int, NEW r \in 0 .. n - 1,
         x = n * q + r
  PROVE  x % n = r /\ x \div n = q
BY DivMod, DivisionUnique

\* Steps on a ring may be counted before or after going round it.
LEMMA ModPlus ==
  ASSUME NEW n \in Nat \ {0}, NEW x \in Int, NEW y \in Int
  PROVE  ((x % n) + y) % n = (x + y) % n
<1> DEFINE z == (x % n) + y
           q == x \div n
           p == z \div n
           r == z % n
<1>1. /\ q \in Int /\ x = n * q + (x % n) /\ (x % n) \in Int
      /\ z \in Int /\ p \in Int /\ r \in 0 .. n - 1 /\ z = n * p + r
  BY DivMod
<1>2. x + y = n * q + z
  BY <1>1
<1> HIDE DEF z, q, p, r
<1>3. n * q + n * p = n * (q + p) /\ q + p \in Int
  BY <1>1
<1>4. x + y = n * (q + p) + r
  BY <1>1, <1>2, <1>3
<1>5. (x + y) % n = r
  <2>1. x + y \in Int
    OBVIOUS
  <2> QED
    BY <1>1, <1>3, <1>4, <2>1, ModIs, Zenon
<1> QED
  BY <1>5, Zenon DEF r, z

\* Places less than one round apart are different.
LEMMA ModDiffers ==
  ASSUME NEW n \in Nat \ {0}, NEW x \in Int, NEW y \in Int, x < y, y - x < n
  PROVE  x % n # y % n
<1> DEFINE q == x \div n
           p == y \div n
<1>1. /\ q \in Int /\ p \in Int /\ (x % n) \in 0 .. n - 1 /\ (y % n) \in 0 .. n - 1
      /\ x = n * q + (x % n) /\ y = n * p + (y % n)
  BY DivMod
<1> HIDE DEF q, p
<1> SUFFICES ASSUME x % n = y % n PROVE FALSE
  OBVIOUS
<1>2. n * q \in Int /\ n * p \in Int /\ n * p > n * q /\ n * p < n * q + n
  BY <1>1
<1>3. p > q => n * p >= n * q + n
  BY <1>1, TimesMore
<1>4. q > p => n * q >= n * p + n
  BY <1>1, TimesMore
<1>5. p = q => n * p = n * q
  OBVIOUS
<1> QED
  BY <1>1, <1>2, <1>3, <1>4, <1>5

\* One step, with the wrap that the code writes out.
LEMMA WrapIsMod ==
  ASSUME NEW n \in Nat \ {0}, NEW x \in Int, NEW y \in 0 .. n
  PROVE  (x + y) % n = IF (x % n) + y >= n THEN (x % n) + y - n ELSE (x % n) + y
<1> DEFINE q == x \div n
           m == x % n
<1>1. q \in Int /\ m \in 0 .. n - 1 /\ x = n * q + m
  BY DivMod
<1> HIDE DEF q, m
<1>2. CASE m + y >= n
  <2>1. n * (q + 1) = n * q + n /\ n * q \in Int
    BY <1>1
  <2>2. x + y = n * (q + 1) + (m + y - n)
    BY <1>1, <2>1
  <2>3. m + y - n \in 0 .. n - 1 /\ x + y \in Int /\ q + 1 \in Int
    BY <1>1, <1>2
  <2>4. (x + y) % n = m + y - n
    BY <2>2, <2>3, ModIs
  <2> QED
    BY <1>2, <2>4 DEF m
<1>3. CASE m + y < n
  <2>1. x + y = n * q + (m + y) /\ m + y \in 0 .. n - 1 /\ x + y \in Int
    <3>1. n * q \in Int
      BY <1>1
    <3> QED
      BY <1>1, <1>3, <3>1
  <2>2. (x + y) % n = m + y
    BY <1>1, <2>1, ModIs
  <2>3. ~ (m + y >= n)
    BY <1>1, <1>3
  <2> QED
    BY <2>2, <2>3 DEF m
<1> QED
  BY <1>1, <1>2, <1>3

-----------------------------------------------------------------------------
(* Units.                                                                  *)

\* A stream takes at least its length, in whole units, and no more than fits.
LEMMA Padding ==
  ASSUME NEW x \in Nat \ {0}
  PROVE  /\ ALIGN_64B(x) \in Nat /\ ALIGN_64B(x) >= x /\ ALIGN_64B(x) % 64 = 0
         /\ \A y \in Int : y % 64 = 0 /\ x <= y => ALIGN_64B(x) <= y
BY DEF ALIGN_64B

\* The unit a place on the tape falls into, going round the buffer.
LEMMA UnitOf ==
  ASSUME WholeUnits, NEW x \in Int
  PROVE  (x % nStreamBufferSize) \div 64 = (x \div 64) % (nStreamBufferSize \div 64)
<1> USE RingAssumption
<1> DEFINE c == nStreamBufferSize \div 64
           q == x \div nStreamBufferSize
           r == x % nStreamBufferSize
           a == r \div 64
           b == r % 64
<1>1. c \in Nat \ {0} /\ nStreamBufferSize = 64 * c
  BY DEF WholeUnits
<1>2. q \in Int /\ r \in 0 .. nStreamBufferSize - 1 /\ x = nStreamBufferSize * q + r
  BY DivMod
<1>3. a \in Int /\ b \in 0 .. 63 /\ r = 64 * a + b
  BY <1>2
<1> HIDE DEF c, q, r, a, b
<1>4. a \in 0 .. c - 1
  BY <1>1, <1>2, <1>3
<1>5. (64 * c) * q = 64 * (c * q) /\ c * q \in Int
  BY <1>1, <1>2
<1>6. x = 64 * (c * q + a) + b /\ c * q + a \in Int
  BY <1>1, <1>2, <1>3, <1>5
<1>7. x \div 64 = c * q + a
  BY <1>3, <1>6, ModIs
<1>8. (c * q + a) % c = a
  <2> DEFINE p == c * q + a
  <2>1. p \in Int /\ p = c * q + a
    BY <1>6
  <2> HIDE DEF p
  <2>2. p % c = a
    BY <1>1, <1>2, <1>4, <2>1, ModIs
  <2> QED
    BY <2>1, <2>2, Zenon
<1> QED
  BY <1>7, <1>8, Zenon DEF a, c, r

\* Streams that lie on the tape one behind the other, and together within the
\* size of the buffer, have no unit of it in common.
LEMMA UnitsApart ==
  ASSUME WholeUnits,
         NEW s \in Nat, s % 64 = 0, NEW l \in Nat \ {0},
         NEW w \in Nat, w % 64 = 0, NEW m \in Nat \ {0},
         s + ALIGN_64B(l) <= w, w + ALIGN_64B(m) <= s + nStreamBufferSize
  PROVE  \A u \in Units(s % nStreamBufferSize, l) :
           u \notin Units(w % nStreamBufferSize, m)
<1> SUFFICES ASSUME NEW j \in 0 .. l - 1, NEW k \in 0 .. m - 1,
                    (((s % nStreamBufferSize) + j) % nStreamBufferSize) \div 64
                      = (((w % nStreamBufferSize) + k) % nStreamBufferSize) \div 64
             PROVE  FALSE
  BY DEF Units
<1> DEFINE c == nStreamBufferSize \div 64
           x == (s + j) \div 64
           y == (w + k) \div 64
<1>1. nStreamBufferSize \in Nat \ {0} /\ s + j \in Int /\ w + k \in Int /\ j \in Int /\ k \in Int
      /\ s \in Int /\ w \in Int
  BY RingAssumption
<1>2. x % c = y % c
  <2>1. ((s % nStreamBufferSize) + j) % nStreamBufferSize = (s + j) % nStreamBufferSize
    BY <1>1, ModPlus, Zenon
  <2>2. ((w % nStreamBufferSize) + k) % nStreamBufferSize = (w + k) % nStreamBufferSize
    BY <1>1, ModPlus, Zenon
  <2>3. ((s + j) % nStreamBufferSize) \div 64 = x % c
    BY <1>1, UnitOf
  <2>4. ((w + k) % nStreamBufferSize) \div 64 = y % c
    BY <1>1, UnitOf
  <2> QED
    BY <2>1, <2>2, <2>3, <2>4, Zenon
<1>3. c \in Nat \ {0} /\ nStreamBufferSize = 64 * c
  BY RingAssumption DEF WholeUnits
<1>4. ALIGN_64B(l) \in Nat /\ ALIGN_64B(m) \in Nat /\ ALIGN_64B(l) >= l /\ ALIGN_64B(m) >= m
      /\ ALIGN_64B(l) % 64 = 0 /\ ALIGN_64B(m) % 64 = 0
  BY Padding
<1>5. x \in Int /\ y \in Int /\ x < y /\ y - x < c
  <2> DEFINE d == (s + j) % 64
             e == (w + k) % 64
             f == ALIGN_64B(l)
             g == ALIGN_64B(m)
  <2>1. /\ x \in Int /\ d \in 0 .. 63 /\ s + j = 64 * x + d
        /\ y \in Int /\ e \in 0 .. 63 /\ w + k = 64 * y + e
    BY <1>1
  <2>2. /\ f \in Nat /\ f % 64 = 0 /\ f >= l /\ g \in Nat /\ g % 64 = 0 /\ g >= m
        /\ s + f <= w /\ w + g <= s + 64 * c
    BY <1>3, <1>4
  <2> HIDE DEF x, y, c, d, e, f, g
  <2>3. x < y
    BY <2>1, <2>2
  <2>4. y - x < c
    BY <1>3, <2>1, <2>2
  <2> QED
    BY <2>1, <2>3, <2>4
<1> HIDE DEF x, y, c
<1> QED
  BY <1>2, <1>3, <1>5, ModDiffers

-----------------------------------------------------------------------------
(* Types, and what the encoding thread has read without the mutex.         *)

Stretch == [start : Nat, length : Lengths]

Types ==
  /\ nWriteOffset \in Int /\ nValidDataSize \in Int
  /\ nValidFrameNum \in Int /\ nUnReadFrameNum \in Int
  /\ nReadPos \in Positions /\ nWritePos \in Positions
  /\ pStreamInfos \in [Positions -> StreamInfo]
  /\ \A p \in Positions : pStreamInfos[p].nID \in Positions
  /\ memory \in [AllUnits -> Nat]
  /\ encPc \in {"idle", "offset", "write", "add"} /\ appPc \in {"idle", "copy"}
  /\ info \in StreamInfo /\ room \in Int
  /\ pStreamInfo \in Positions
  /\ held \in Seq(StreamInfo)
  /\ \A i \in 1 .. Len(held) : held[i].nID \in Positions
  /\ log \in Seq(Stretch)

Rooms ==
  /\ encPc # "idle" => room <= nStreamBufferSize - nValidDataSize
  /\ encPc \in {"write", "add"} => info.nStreamOffset = nWriteOffset
  /\ encPc = "add" =>
       /\ info.nStreamLength \in Lengths /\ info.nStreamLength <= room
       /\ info.nPts = Len(log) + 1

Basic == Types /\ Rooms

LEMMA PaddingType ==
  ASSUME NEW x \in Nat
  PROVE  ALIGN_64B(x) \in Nat
BY DEF ALIGN_64B

LEMMA TapeEndType ==
  ASSUME log \in Seq(Stretch)
  PROVE  TapeEnd \in Nat
<1>1. CASE log = <<>>
  BY <1>1 DEF TapeEnd
<1>2. CASE log # <<>>
  <2>1. Len(log) \in 1 .. Len(log)
    BY <1>2, LenProperties, EmptySeq
  <2>2. log[Len(log)] \in Stretch
    BY <2>1, ElementOfSeq
  <2>3. log[Len(log)].start \in Nat /\ log[Len(log)].length \in Nat
    BY <2>2, RingAssumption DEF Stretch
  <2>4. ALIGN_64B(log[Len(log)].length) \in Nat
    BY <2>3, PaddingType
  <2> QED
    BY <1>2, <2>3, <2>4 DEF TapeEnd
<1> QED
  BY <1>1, <1>2

LEMMA InfoRecorded ==
  ASSUME NEW r \in StreamInfo, NEW x \in Int
  PROVE  /\ [r EXCEPT !.nID = x] \in StreamInfo
         /\ [r EXCEPT !.nID = x].nID = x
         /\ [r EXCEPT !.nID = x].nPts = r.nPts
         /\ [r EXCEPT !.nID = x].nStreamOffset = r.nStreamOffset
         /\ [r EXCEPT !.nID = x].nStreamLength = r.nStreamLength
BY DEF StreamInfo

LEMMA NextPosType ==
  ASSUME NEW p \in Positions
  PROVE  NextPos(p) \in Positions
BY RingAssumption DEF NextPos, Positions

LEMMA InitBasic == Init => Basic
<1> USE RingAssumption
<1> SUFFICES ASSUME Init PROVE Basic
  OBVIOUS
<1>1. 0 \in Positions /\ ZeroInfo \in StreamInfo /\ ZeroInfo.nID = 0
  BY DEF Positions, ZeroInfo, StreamInfo
<1>2. Types
  BY <1>1 DEF Init, Types
<1>3. Rooms
  BY DEF Init, Rooms
<1> QED
  BY <1>2, <1>3 DEF Basic

LEMMA AddBasic == Basic /\ BitStreamAddOneBitstream => Basic'
<1> USE RingAssumption DEF Basic
<1> SUFFICES ASSUME Basic, BitStreamAddOneBitstream PROVE Basic'
  OBVIOUS
<1>1. /\ encPc = "add" /\ encPc' = "idle"
      /\ pStreamInfos' = [pStreamInfos EXCEPT ![nWritePos] = Recorded]
      /\ nWritePos' = NextPos(nWritePos)
      /\ nValidFrameNum' = nValidFrameNum + 1 /\ nUnReadFrameNum' = nUnReadFrameNum + 1
      /\ nValidDataSize' = nValidDataSize + ALIGN_64B(info.nStreamLength)
      /\ log' = Append(log, [start |-> TapeEnd, length |-> info.nStreamLength])
      /\ nReadPos' = nReadPos /\ memory' = memory /\ room' = room /\ info' = info
      /\ appPc' = appPc /\ pStreamInfo' = pStreamInfo /\ held' = held
  BY DEF BitStreamAddOneBitstream, application
<1>2. info.nStreamLength \in Nat /\ ALIGN_64B(info.nStreamLength) \in Nat
  BY PaddingType DEF Types, StreamInfo
<1>3. nWriteOffset' \in Int
  BY <1>2 DEF BitStreamAddOneBitstream, Types
<1>4. Recorded \in StreamInfo /\ Recorded.nID \in Positions
  <2>1. nWritePos \in Int
    BY DEF Types, Positions
  <2> QED
    BY <2>1, InfoRecorded DEF Recorded, Types
<1>5. /\ pStreamInfos' \in [Positions -> StreamInfo]
      /\ \A p \in Positions : pStreamInfos'[p].nID \in Positions
  BY <1>1, <1>4 DEF Types
<1>6. log' \in Seq(Stretch)
  <2>1. [start |-> TapeEnd, length |-> info.nStreamLength] \in Stretch
    BY <1>1, TapeEndType DEF Rooms, Types, Stretch
  <2> QED
    BY <1>1, <2>1, AppendProperties DEF Types
<1>7. nWritePos' \in Positions
  BY <1>1, NextPosType DEF Types
<1>8. Types'
  BY <1>1, <1>2, <1>3, <1>5, <1>6, <1>7 DEF Types
<1>9. Rooms'
  BY <1>1 DEF Rooms
<1> QED
  BY <1>8, <1>9

LEMMA WriteBasic ==
  ASSUME Basic, NEW length \in Lengths, HardwareWrite(length)
  PROVE  Basic'
<1> USE RingAssumption DEF Basic
<1>0. log \in Seq(Stretch) /\ Len(log) \in Nat
  BY LenProperties DEF Types
<1>1. /\ encPc = "write" /\ encPc' = "add" /\ length <= room
      /\ info' = [info EXCEPT !.nStreamLength = length, !.nPts = Len(log) + 1]
      /\ memory' = [u \in AllUnits |->
                      IF u \in Units(info.nStreamOffset, length)
                        THEN Len(log) + 1 ELSE memory[u]]
      /\ nWriteOffset' = nWriteOffset /\ nValidDataSize' = nValidDataSize
      /\ nValidFrameNum' = nValidFrameNum /\ nUnReadFrameNum' = nUnReadFrameNum
      /\ nReadPos' = nReadPos /\ nWritePos' = nWritePos /\ pStreamInfos' = pStreamInfos
      /\ room' = room /\ appPc' = appPc /\ pStreamInfo' = pStreamInfo /\ held' = held
      /\ log' = log
  BY DEF HardwareWrite, ring, application
<1>2. /\ info' \in StreamInfo /\ info'.nStreamLength = length
      /\ info'.nPts = Len(log) + 1 /\ info'.nStreamOffset = info.nStreamOffset
  <2> DEFINE n == Len(log) + 1
             r == [info EXCEPT !.nStreamLength = length, !.nPts = n]
  <2>1. length \in Nat /\ n \in Nat /\ info \in StreamInfo
    BY <1>0 DEF Types
  <2>2. info' = r
    BY <1>1
  <2> HIDE DEF n
  <2>3. /\ r \in StreamInfo /\ r.nStreamLength = length
        /\ r.nPts = n /\ r.nStreamOffset = info.nStreamOffset
    BY <2>1 DEF StreamInfo
  <2> HIDE DEF r
  <2> QED
    BY <2>2, <2>3 DEF n
<1>3. memory' \in [AllUnits -> Nat]
  BY <1>0, <1>1 DEF Types
<1>4. Types'
  BY <1>1, <1>2, <1>3 DEF Types
<1>5. Rooms'
  BY <1>1, <1>2 DEF Rooms
<1> QED
  BY <1>4, <1>5

LEMMA EncoderBasic ==
  Basic /\ (ReadRoom \/ ReadOffset \/ HardwareFails \/ AddRejected) => Basic'
<1> USE RingAssumption DEF Basic
<1>1. Basic /\ ReadRoom => Basic'
  BY DEF ReadRoom, BitStreamFreeBufferSize, ring, application, Types, Rooms
<1>2. Basic /\ ReadOffset => Basic'
  <2> SUFFICES ASSUME Basic, ReadOffset PROVE Basic'
    OBVIOUS
  <2>1. info' \in StreamInfo /\ info'.nStreamOffset = nWriteOffset
    BY DEF ReadOffset, Types, StreamInfo
  <2> QED
    BY <2>1 DEF ReadOffset, ring, application, Types, Rooms
<1>3. Basic /\ (HardwareFails \/ AddRejected) => Basic'
  BY DEF HardwareFails, AddRejected, ring, application, Types, Rooms
<1> QED
  BY <1>1, <1>2, <1>3

\* Reading leaves the encoding thread's facts alone; a return makes room.
LEMMA ApplicationBasic == Basic /\ ApplicationStep => Basic'
<1> USE RingAssumption DEF Basic
<1>1. Basic /\ BitStreamGetOneBitstream => Basic'
  <2> SUFFICES ASSUME Basic, BitStreamGetOneBitstream PROVE Basic'
    OBVIOUS
  <2>1. nReadPos' \in Positions
    BY NextPosType DEF BitStreamGetOneBitstream, Types
  <2> QED
    BY <2>1 DEF BitStreamGetOneBitstream, encoder, Types, Rooms
<1>2. Basic /\ ReadInfo => Basic'
  <2> SUFFICES ASSUME Basic, ReadInfo PROVE Basic'
    OBVIOUS
  <2>1. /\ held' = Append(held, pStreamInfos[pStreamInfo])
        /\ pStreamInfos[pStreamInfo] \in StreamInfo
        /\ pStreamInfos[pStreamInfo].nID \in Positions
    BY DEF ReadInfo, Types
  <2>2. held' \in Seq(StreamInfo) /\ \A i \in 1 .. Len(held') : held'[i].nID \in Positions
    BY <2>1, AppendProperties, LenProperties DEF Types
  <2> QED
    BY <2>2 DEF ReadInfo, ring, encoder, Types, Rooms
<1>3. Basic /\ BitStreamReturnOneBitstream => Basic'
  <2> SUFFICES ASSUME Basic, BitStreamReturnOneBitstream PROVE Basic'
    OBVIOUS
  <2>1. held \in Seq(StreamInfo) /\ held # <<>> /\ held' = Tail(held)
    BY DEF BitStreamReturnOneBitstream, Types
  <2>2. Head(held) = held[1] /\ 1 \in 1 .. Len(held)
    BY <2>1, HeadTailProperties, EmptySeq, LenProperties
  <2>3. Freed(Head(held).nID) \in Nat
    <3>1. pStreamInfos[Head(held).nID].nStreamLength \in Nat
      BY <2>2 DEF Types, StreamInfo
    <3> QED
      BY <3>1, PaddingType DEF Freed
  <2>4. /\ nValidDataSize' = nValidDataSize - Freed(Head(held).nID)
        /\ nValidFrameNum' = nValidFrameNum - 1
    BY DEF BitStreamReturnOneBitstream
  <2>5. held' \in Seq(StreamInfo) /\ \A i \in 1 .. Len(held') : held'[i].nID \in Positions
    BY <2>1, HeadTailProperties, LenProperties DEF Types
  <2>6. Types'
    BY <2>3, <2>4, <2>5 DEF BitStreamReturnOneBitstream, encoder, Types
  <2>7. Rooms'
    BY <2>3, <2>4 DEF BitStreamReturnOneBitstream, encoder, Rooms, Types
  <2> QED
    BY <2>6, <2>7
<1> QED
  BY <1>1, <1>2, <1>3 DEF ApplicationStep

LEMMA BasicHolds == Spec => []Basic
<1>1. Basic /\ [Next]_vars => Basic'
  <2> SUFFICES ASSUME Basic, [Next]_vars PROVE Basic'
    OBVIOUS
  <2>1. CASE UNCHANGED vars
    BY <2>1 DEF vars, ring, encoder, application, Basic, Types, Rooms
  <2>2. CASE EncoderStep
    BY <2>2, EncoderBasic, WriteBasic, AddBasic DEF EncoderStep
  <2> QED
    BY <2>1, <2>2, ApplicationBasic DEF Next
<1> QED
  BY <1>1, InitBasic, PTL DEF Spec

\* What the encoding thread reads without the mutex still serves when it adds
\* the stream, for whatever the buffer's size.
THEOREM RoomStaysEnough == Spec => []RoomSuffices
<1>1. Basic => RoomSuffices
  BY RingAssumption DEF Basic, Types, Rooms, RoomSuffices, BitStreamFreeBufferSize, TooLong,
     StreamInfo
<1> QED
  BY <1>1, BasicHolds, PTL

-----------------------------------------------------------------------------
(* The ring of records.  Stream n is recorded at place n - 1, counted      *)
(* round the ring; the latest nValidFrameNum streams are live.             *)

Place(n) == (n - 1) % nMaxFrameNum

Counts ==
  /\ nUnReadFrameNum \in 0 .. nValidFrameNum
  /\ nValidFrameNum \in 0 .. nMaxFrameNum
  /\ nValidFrameNum <= Len(log)
  /\ nWritePos = Place(Len(log) + 1)
  /\ nReadPos = Place(Len(log) - nUnReadFrameNum + 1)
  /\ appPc = "idle" => Len(held) = nValidFrameNum - nUnReadFrameNum
  /\ appPc = "copy" => /\ Len(held) = nValidFrameNum - nUnReadFrameNum - 1
                       /\ pStreamInfo = Place(Len(log) - nUnReadFrameNum)

IsRecordOf(r, lg, n) ==
  r.nPts = n /\ r.nStreamLength = lg[n].length /\ r.nID = Place(n)

Records ==
  /\ \A n \in Len(log) - nValidFrameNum + 1 .. Len(log) :
       IsRecordOf(pStreamInfos[Place(n)], log, n)
  /\ \A i \in 1 .. Len(held) :
       held[i] = pStreamInfos[Place(Len(log) - nValidFrameNum + i)]

\* Where stream n ends on the tape.
End(n) == log[n].start + ALIGN_64B(log[n].length)

Tape ==
  /\ \A n \in 1 .. Len(log) - 1 : log[n + 1].start = End(n)
  /\ nValidDataSize = TapeEnd - TapeBegin

Ring == Counts /\ Records /\ Tape

LEMMA PlaceType ==
  ASSUME NEW n \in Int
  PROVE  Place(n) \in Positions
<1>1. n - 1 \in Int
  OBVIOUS
<1> QED
  BY <1>1, DivMod, RingAssumption DEF Place, Positions

LEMMA NextPlace ==
  ASSUME NEW n \in Int
  PROVE  NextPos(Place(n)) = Place(n + 1)
<1> USE RingAssumption
<1> DEFINE x == n - 1
<1>1. x \in Int /\ 1 \in 0 .. nMaxFrameNum /\ x + 1 = n /\ n + 1 - 1 = n
  OBVIOUS
<1>2. (x % nMaxFrameNum) \in 0 .. nMaxFrameNum - 1
  BY <1>1, DivMod
<1> HIDE DEF x
<1>3. (x + 1) % nMaxFrameNum = IF (x % nMaxFrameNum) + 1 >= nMaxFrameNum
                                 THEN (x % nMaxFrameNum) + 1 - nMaxFrameNum
                                 ELSE (x % nMaxFrameNum) + 1
  BY <1>1, WrapIsMod
<1>4. (x + 1) % nMaxFrameNum = NextPos(x % nMaxFrameNum)
  <2> DEFINE m == x % nMaxFrameNum
  <2> HIDE DEF m
  <2>1. m \in 0 .. nMaxFrameNum - 1
    BY <1>2 DEF m
  <2>2. NextPos(m) = IF m + 1 >= nMaxFrameNum THEN m + 1 - nMaxFrameNum ELSE m + 1
    BY <2>1 DEF NextPos
  <2> QED
    BY <1>3, <2>2 DEF m
<1>5. Place(n) = x % nMaxFrameNum /\ Place(n + 1) = (x + 1) % nMaxFrameNum
  BY <1>1 DEF Place, x
<1> QED
  BY <1>4, <1>5, Zenon

\* Counting on from the place of a stream leads to the place of a later one.
LEMMA PlaceAfter ==
  ASSUME NEW k \in Int, NEW i \in Int
  PROVE  (Place(k) + i - 1) % nMaxFrameNum = Place(k + i - 1)
<1> DEFINE c == nMaxFrameNum
           x == k - 1
           y == i - 1
           m == x % c
<1>1. c \in Nat \ {0} /\ x \in Int /\ y \in Int /\ x + y = (k + i - 1) - 1
  BY RingAssumption
<1>2. m \in Int
  BY <1>1, DivMod
<1>3. Place(k) = m /\ Place(k + i - 1) = ((k + i - 1) - 1) % c
  BY DEF Place
<1> HIDE DEF c, x
<1>4. (m + y) % c = (x + y) % c
  <2> HIDE DEF y
  <2> QED
    BY <1>1, ModPlus
<1>5. m + i - 1 = m + y
  <2> HIDE DEF m
  <2> QED
    BY <1>1, <1>2
<1>6. (Place(k) + i - 1) % c = Place(k + i - 1)
  <2> HIDE DEF m, y
  <2> QED
    BY <1>1, <1>3, <1>4, <1>5
<1> QED
  BY <1>6 DEF c

\* A live stream's place is its own, also while the next one is recorded.
LEMMA PlacesDiffer ==
  ASSUME NEW m \in Int, NEW n \in Int, m < n, n - m < nMaxFrameNum
  PROVE  Place(m) # Place(n)
<1>1. /\ nMaxFrameNum \in Nat \ {0}
      /\ m - 1 \in Int /\ n - 1 \in Int /\ m - 1 < n - 1 /\ (n - 1) - (m - 1) < nMaxFrameNum
  BY RingAssumption
<1>2. (m - 1) % nMaxFrameNum # (n - 1) % nMaxFrameNum
  BY <1>1, ModDiffers, Zenon
<1> QED
  BY <1>2 DEF Place

LEMMA InitRing == Init => Ring
<1> USE RingAssumption
<1> SUFFICES ASSUME Init PROVE Ring
  OBVIOUS
<1>1. Len(log) = 0 /\ Len(held) = 0 /\ log = <<>>
  BY DEF Init
<1>2. Place(1) = 0
  <2>1. (1 - 1) % nMaxFrameNum = 0
    <3>1. 0 = nMaxFrameNum * 0 + 0 /\ 0 \in 0 .. nMaxFrameNum - 1
      OBVIOUS
    <3>2. 0 % nMaxFrameNum = 0
      BY <3>1, ModIs
    <3> QED
      BY <3>2
  <2> QED
    BY <2>1 DEF Place
<1>3. Counts /\ Records
  <2>1. Place(Len(log) + 1) = 0 /\ Place(Len(log) - nUnReadFrameNum + 1) = 0
    <3>1. Len(log) + 1 = 1 /\ Len(log) - nUnReadFrameNum + 1 = 1
      BY <1>1 DEF Init
    <3> QED
      BY <1>2, <3>1, Zenon
  <2> QED
    BY <1>1, <2>1 DEF Init, Counts, Records
<1>4. Tape
  BY <1>1 DEF Init, Tape, TapeEnd, TapeBegin
<1> QED
  BY <1>3, <1>4 DEF Ring

\* What a new stream does to the tape.
LEMMA AddToTape ==
  ASSUME Basic, Ring, BitStreamAddOneBitstream
  PROVE  /\ Len(log) \in Nat /\ Len(log') = Len(log) + 1
         /\ \A n \in 1 .. Len(log) : log'[n] = log[n]
         /\ log'[Len(log) + 1] = [start |-> TapeEnd, length |-> info.nStreamLength]
         /\ ALIGN_64B(info.nStreamLength) \in Nat /\ TapeEnd \in Nat
         /\ TapeEnd' = TapeEnd + ALIGN_64B(info.nStreamLength)
         /\ TapeBegin' = TapeBegin /\ TapeBegin \in Nat
<1> USE RingAssumption DEF Basic, Ring
<1> DEFINE new == [start |-> TapeEnd, length |-> info.nStreamLength]
           l == Len(log)
<1>1. /\ log' = Append(log, new) /\ nValidFrameNum' = nValidFrameNum + 1 /\ encPc = "add"
  BY DEF BitStreamAddOneBitstream
<1>2. /\ TapeEnd \in Nat /\ info.nStreamLength \in Nat /\ new \in Stretch
      /\ ALIGN_64B(info.nStreamLength) \in Nat
  BY <1>1, TapeEndType, PaddingType DEF Types, Rooms, Stretch, StreamInfo
<1>3. new.start = TapeEnd /\ new.length = info.nStreamLength
  OBVIOUS
<1>4. /\ l \in Nat /\ Len(log') = l + 1
      /\ \A n \in 1 .. l : log'[n] = log[n]
      /\ log'[l + 1] = new
  <2> HIDE DEF new
  <2> QED
    BY <1>1, <1>2, AppendProperties, LenProperties DEF Types
<1>5. log' # <<>>
  BY <1>4
<1> HIDE DEF new, l
<1>6. TapeEnd' = TapeEnd + ALIGN_64B(info.nStreamLength)
  <2>1. TapeEnd' = log'[Len(log')].start + ALIGN_64B(log'[Len(log')].length)
    BY <1>5 DEF TapeEnd
  <2> QED
    BY <1>3, <1>4, <2>1
<1>7. TapeBegin' = TapeBegin
  <2>1. nValidFrameNum \in Nat /\ nValidFrameNum <= l
    BY DEF Counts, l
  <2>2. TapeBegin' = log'[Len(log') - nValidFrameNum' + 1].start
    <3>1. nValidFrameNum' # 0
      BY <1>1, <2>1
    <3> QED
      BY <3>1, Zenon DEF TapeBegin
  <2>3. Len(log') - nValidFrameNum' + 1 = l - nValidFrameNum + 1
    BY <1>1, <1>4, <2>1
  <2>4. CASE nValidFrameNum = 0
    <3>1. TapeBegin = TapeEnd /\ l - nValidFrameNum + 1 = l + 1
      BY <1>4, <2>4 DEF TapeBegin
    <3> QED
      BY <1>3, <1>4, <2>2, <2>3, <3>1
  <2>5. CASE nValidFrameNum # 0
    <3>1. TapeBegin = log[l - nValidFrameNum + 1].start /\ l - nValidFrameNum + 1 \in 1 .. l
      BY <1>4, <2>1, <2>5 DEF TapeBegin, l
    <3> QED
      BY <1>4, <2>2, <2>3, <3>1
  <2> QED
    BY <2>4, <2>5
<1>8. TapeBegin \in Nat
  <2>1. nValidFrameNum \in Nat /\ nValidFrameNum <= l
    BY DEF Counts, l
  <2>2. CASE nValidFrameNum # 0
    <3>1. l - nValidFrameNum + 1 \in 1 .. l
      BY <1>4, <2>1, <2>2
    <3>2. log[l - nValidFrameNum + 1] \in Stretch
      BY <3>1, ElementOfSeq DEF Types, l
    <3> QED
      BY <2>2, <3>2 DEF TapeBegin, Stretch, l
  <2> QED
    BY <1>2, <2>2 DEF TapeBegin
<1> QED
  BY <1>2, <1>4, <1>6, <1>7, <1>8 DEF new, l

LEMMA AddRing ==
  ASSUME Basic, Ring, BitStreamAddOneBitstream
  PROVE  Ring'
<1> USE RingAssumption DEF Basic, Ring
<1> DEFINE l == Len(log)
           new == [start |-> TapeEnd, length |-> info.nStreamLength]
<1>1. /\ encPc = "add" /\ nValidFrameNum < nMaxFrameNum
      /\ pStreamInfos' = [pStreamInfos EXCEPT ![nWritePos] = Recorded]
      /\ nWritePos' = NextPos(nWritePos)
      /\ nValidFrameNum' = nValidFrameNum + 1 /\ nUnReadFrameNum' = nUnReadFrameNum + 1
      /\ nValidDataSize' = nValidDataSize + ALIGN_64B(info.nStreamLength)
      /\ nReadPos' = nReadPos /\ appPc' = appPc /\ pStreamInfo' = pStreamInfo /\ held' = held
  BY DEF BitStreamAddOneBitstream, application, ListFull, Counts
<1>2. /\ l \in Nat /\ Len(log') = l + 1
      /\ \A n \in 1 .. l : log'[n] = log[n]
      /\ log'[l + 1].start = TapeEnd /\ log'[l + 1].length = info.nStreamLength
      /\ TapeEnd' = TapeEnd + ALIGN_64B(info.nStreamLength) /\ TapeBegin' = TapeBegin
      /\ TapeEnd \in Nat /\ TapeBegin \in Nat /\ ALIGN_64B(info.nStreamLength) \in Nat
  BY AddToTape
<1>3. /\ nUnReadFrameNum \in Nat /\ nValidFrameNum \in Nat /\ nUnReadFrameNum <= nValidFrameNum
      /\ nValidFrameNum <= l /\ nWritePos = Place(l + 1)
      /\ nReadPos = Place(l - nUnReadFrameNum + 1)
      /\ Len(held) \in Nat /\ Len(held) <= nValidFrameNum - nUnReadFrameNum
  BY LenProperties DEF Counts, Types
<1>4. /\ l + 1 - nUnReadFrameNum' = l - nUnReadFrameNum
      /\ l + 1 - nValidFrameNum' = l - nValidFrameNum
  BY <1>1, <1>2, <1>3
<1> HIDE DEF l, new
<1>5. Counts'
  <2>1. nWritePos' = Place(l + 2)
    <3>1. NextPos(Place(l + 1)) = Place(l + 1 + 1) /\ l + 1 + 1 = l + 2
      BY <1>2, NextPlace
    <3> QED
      BY <1>1, <1>3, <3>1
  <2>2. nReadPos' = Place(Len(log') - nUnReadFrameNum' + 1)
    <3>1. Len(log') - nUnReadFrameNum' + 1 = l - nUnReadFrameNum + 1
      BY <1>1, <1>2, <1>3
    <3> QED
      BY <1>1, <1>3, <3>1
  <2>3. appPc' = "copy" => pStreamInfo' = Place(Len(log') - nUnReadFrameNum')
    <3>1. Len(log') - nUnReadFrameNum' = l - nUnReadFrameNum
      BY <1>1, <1>2, <1>3
    <3> QED
      BY <1>1, <3>1 DEF Counts, l
  <2>4. nWritePos' = Place(Len(log') + 1)
    <3>1. Len(log') + 1 = l + 2
      BY <1>2
    <3> QED
      BY <2>1, <3>1
  <2>5. /\ nUnReadFrameNum' \in 0 .. nValidFrameNum'
        /\ nValidFrameNum' \in 0 .. nMaxFrameNum /\ nValidFrameNum' <= Len(log')
    BY <1>1, <1>2, <1>3
  <2>6. /\ appPc' = "idle" => Len(held') = nValidFrameNum' - nUnReadFrameNum'
        /\ appPc' = "copy" => Len(held') = nValidFrameNum' - nUnReadFrameNum' - 1
    BY <1>1, <1>3 DEF Counts
  <2> QED
    BY <2>2, <2>3, <2>4, <2>5, <2>6 DEF Counts
<1>6. Records'
  <2>1. ASSUME NEW n \in l - nValidFrameNum + 1 .. l
        PROVE  Place(n) \in Positions /\ pStreamInfos'[Place(n)] = pStreamInfos[Place(n)]
    <3>1. n < l + 1 /\ l + 1 - n < nMaxFrameNum /\ n \in Int /\ l + 1 \in Int
      <4>1. l \in Nat /\ nValidFrameNum \in Nat /\ nValidFrameNum < nMaxFrameNum
        BY <1>1, <1>2, <1>3
      <4> QED
        BY <4>1
    <3>2. Place(n) \in Positions
      BY <3>1, PlaceType
    <3>3. Place(n) # Place(l + 1)
      <4> DEFINE k == l + 1
      <4>1. k \in Int /\ n < k /\ k - n < nMaxFrameNum
        BY <1>2, <1>3, <3>1
      <4> HIDE DEF k
      <4>2. Place(n) # Place(k)
        BY <3>1, <4>1, PlacesDiffer
      <4> QED
        BY <4>2 DEF k
    <3>4. Place(n) # nWritePos
      BY <1>3, <3>3
    <3>5. pStreamInfos' = [pStreamInfos EXCEPT ![nWritePos] = Recorded]
          /\ pStreamInfos \in [Positions -> StreamInfo]
      BY <1>1 DEF Types
    <3> QED
      BY <3>2, <3>4, <3>5
  <2>2. ASSUME NEW n \in l - nValidFrameNum + 1 .. l
        PROVE  IsRecordOf(pStreamInfos'[Place(n)], log', n)
    <3>1. n \in 1 .. l
      BY <1>2, <1>3
    <3> QED
      BY <1>2, <2>1, <3>1 DEF Records, IsRecordOf, l
  <2>3. IsRecordOf(pStreamInfos'[Place(l + 1)], log', l + 1)
    <3>1. Place(l + 1) \in Positions /\ Place(l + 1) \in Int
      BY <1>2, PlaceType DEF Positions
    <3>2. pStreamInfos'[Place(l + 1)] = [info EXCEPT !.nID = Place(l + 1)]
      BY <1>1, <1>3, <3>1 DEF Types, Recorded
    <3>3. info.nPts = l + 1
      BY <1>1 DEF Rooms, l
    <3>4. /\ pStreamInfos'[Place(l + 1)].nPts = l + 1
          /\ pStreamInfos'[Place(l + 1)].nStreamLength = info.nStreamLength
          /\ pStreamInfos'[Place(l + 1)].nID = Place(l + 1)
      BY <3>1, <3>2, <3>3, InfoRecorded DEF Types
    <3> QED
      BY <1>2, <3>4 DEF IsRecordOf, l
  <2>4. \A n \in Len(log') - nValidFrameNum' + 1 .. Len(log') :
          IsRecordOf(pStreamInfos'[Place(n)], log', n)
    <3>1. \A n \in Len(log') - nValidFrameNum' + 1 .. Len(log') :
            n \in l - nValidFrameNum + 1 .. l \/ n = l + 1
      BY <1>1, <1>2, <1>3
    <3> QED
      BY <2>2, <2>3, <3>1
  <2>5. \A i \in 1 .. Len(held) :
          /\ l - nValidFrameNum + i \in l - nValidFrameNum + 1 .. l
          /\ Len(log') - nValidFrameNum' + i = l - nValidFrameNum + i
    BY <1>1, <1>2, <1>3
  <2>6. \A i \in 1 .. Len(held') :
          held'[i] = pStreamInfos'[Place(Len(log') - nValidFrameNum' + i)]
    BY <1>1, <2>1, <2>5 DEF Records, l
  <2> QED
    BY <2>4, <2>6 DEF Records
<1>7. Tape'
  <2>1. ASSUME NEW n \in 1 .. Len(log') - 1
        PROVE  log'[n + 1].start = End(n)'
    <3>1. n \in 1 .. l /\ log'[n] = log[n]
      BY <1>2
    <3>2. CASE n = l
      <4>1. log # <<>>
        BY <1>2, <3>1 DEF l
      <4>2. TapeEnd = End(l)
        BY <4>1 DEF TapeEnd, End, l
      <4> QED
        BY <1>2, <3>1, <3>2, <4>2 DEF End
    <3>3. CASE n # l
      <4>1. n \in 1 .. l - 1 /\ n + 1 \in 1 .. l
        BY <1>2, <3>1, <3>3
      <4> QED
        BY <1>2, <3>1, <4>1 DEF Tape, End, l
    <3> QED
      BY <3>2, <3>3
  <2>2. nValidDataSize' = TapeEnd' - TapeBegin'
    <3>1. nValidDataSize = TapeEnd - TapeBegin
      BY DEF Tape
    <3> QED
      BY <1>1, <1>2, <3>1
  <2> QED
    BY <2>1, <2>2 DEF Tape
<1> QED
  BY <1>5, <1>6, <1>7

LEMMA OtherEncoderRing ==
  Ring /\ (\/ ReadRoom \/ ReadOffset \/ HardwareFails \/ AddRejected
           \/ \E length \in Lengths : HardwareWrite(length)) => Ring'
<1> SUFFICES ASSUME Ring,
                    \/ ReadRoom \/ ReadOffset \/ HardwareFails \/ AddRejected
                    \/ \E length \in Lengths : HardwareWrite(length)
             PROVE  Ring'
  OBVIOUS
<1>1. /\ nValidDataSize' = nValidDataSize /\ log' = log
      /\ nValidFrameNum' = nValidFrameNum /\ nUnReadFrameNum' = nUnReadFrameNum
      /\ nReadPos' = nReadPos /\ nWritePos' = nWritePos /\ pStreamInfos' = pStreamInfos
      /\ appPc' = appPc /\ pStreamInfo' = pStreamInfo /\ held' = held
  BY DEF ReadRoom, ReadOffset, HardwareFails, AddRejected, HardwareWrite, ring, application
<1>2. Counts' /\ Records'
  BY <1>1 DEF Ring, Counts, Records
<1>3. Tape'
  BY <1>1 DEF Ring, Tape, TapeEnd, TapeBegin, End
<1> QED
  BY <1>2, <1>3 DEF Ring

LEMMA GetRing ==
  ASSUME Basic, Ring, BitStreamGetOneBitstream
  PROVE  Ring'
<1> USE DEF Basic, Ring
<1> DEFINE l == Len(log)
           u == nUnReadFrameNum
<1>1. /\ appPc = "idle" /\ appPc' = "copy" /\ u # 0
      /\ pStreamInfo' = nReadPos /\ nReadPos' = NextPos(nReadPos)
      /\ nUnReadFrameNum' = u - 1
      /\ nValidDataSize' = nValidDataSize /\ nValidFrameNum' = nValidFrameNum
      /\ nWritePos' = nWritePos /\ pStreamInfos' = pStreamInfos
      /\ held' = held /\ log' = log
  BY DEF BitStreamGetOneBitstream, NoneUnread
<1>2. /\ l \in Nat /\ u \in 0 .. nValidFrameNum /\ nValidFrameNum \in Nat
      /\ nReadPos = Place(l - u + 1) /\ Len(held) = nValidFrameNum - u
  BY <1>1, LenProperties, RingAssumption DEF Types, Counts
<1> HIDE DEF l, u
<1>3. /\ u - 1 \in 0 .. nValidFrameNum /\ l - u + 1 \in Int
      /\ l - u + 1 = l - (u - 1) /\ l - u + 1 + 1 = l - (u - 1) + 1
      /\ Len(held) = nValidFrameNum - (u - 1) - 1
  BY <1>1, <1>2
<1>4. NextPos(Place(l - u + 1)) = Place(l - u + 1 + 1)
  BY <1>3, NextPlace, Zenon
<1>5. /\ nReadPos' = Place(l - (u - 1) + 1)
      /\ pStreamInfo' = Place(l - (u - 1))
  BY <1>1, <1>2, <1>3, <1>4, Zenon
<1>6. Counts'
  BY <1>1, <1>3, <1>5 DEF Counts, l
<1>7. Records'
  BY <1>1 DEF Records
<1>8. Tape'
  BY <1>1 DEF Tape, TapeEnd, TapeBegin, End
<1> QED
  BY <1>6, <1>7, <1>8

LEMMA ReadRing ==
  ASSUME Basic, Ring, ReadInfo
  PROVE  Ring'
<1> USE DEF Basic, Ring
<1> DEFINE l == Len(log)
           u == nUnReadFrameNum
           v == nValidFrameNum
           h == Len(held)
<1>1. /\ appPc = "copy" /\ appPc' = "idle"
      /\ held' = Append(held, pStreamInfos[pStreamInfo])
      /\ pStreamInfo' = pStreamInfo /\ log' = log
      /\ nReadPos' = nReadPos /\ nUnReadFrameNum' = nUnReadFrameNum
      /\ nValidDataSize' = nValidDataSize /\ nValidFrameNum' = nValidFrameNum
      /\ nWritePos' = nWritePos /\ pStreamInfos' = pStreamInfos
  BY DEF ReadInfo, ring
<1>2. /\ l \in Nat /\ u \in 0 .. v /\ v \in Nat /\ h \in Nat /\ h = v - u - 1
      /\ pStreamInfo = Place(l - u)
  BY <1>1, LenProperties, RingAssumption DEF Types, Counts
<1>3. /\ Len(held') = h + 1
      /\ \A i \in 1 .. h : held'[i] = held[i]
      /\ held'[h + 1] = pStreamInfos[pStreamInfo]
  <2>1. pStreamInfos[pStreamInfo] \in StreamInfo /\ held \in Seq(StreamInfo)
    BY DEF Types
  <2> QED
    BY <1>1, <2>1, AppendProperties
<1>4. Counts'
  BY <1>1, <1>2, <1>3 DEF Counts
<1>5. \A i \in 1 .. Len(held') : held'[i] = pStreamInfos[Place(l - v + i)]
  <2>1. \A i \in 1 .. h : held[i] = pStreamInfos[Place(l - v + i)]
    BY DEF Records
  <2> HIDE DEF l, u, v, h
  <2>2. l - v + (h + 1) = l - u
    BY <1>2
  <2>3. held'[h + 1] = pStreamInfos[Place(l - v + (h + 1))]
    BY <1>2, <1>3, <2>2, Zenon
  <2>4. \A i \in 1 .. Len(held') : i \in 1 .. h \/ i = h + 1
    BY <1>2, <1>3
  <2> QED
    BY <1>3, <2>1, <2>3, <2>4, Zenon
<1>6. Records'
  BY <1>1, <1>5 DEF Records
<1>7. Tape'
  BY <1>1 DEF Tape, TapeEnd, TapeBegin, End
<1> QED
  BY <1>4, <1>6, <1>7

\* The record of the oldest live stream is that of the stream held longest.
LEMMA OldestHeld ==
  ASSUME Basic, Ring, appPc = "idle", held # <<>>
  PROVE  LET n == Len(log) - nValidFrameNum + 1
         IN  /\ n \in 1 .. Len(log) /\ nValidFrameNum \in Nat \ {0}
             /\ Len(held) \in Nat \ {0} /\ Head(held) = held[1]
             /\ IsRecordOf(held[1], log, n)
             /\ pStreamInfos[held[1].nID] = held[1]
<1> USE DEF Basic, Ring
<1> DEFINE n == Len(log) - nValidFrameNum + 1
<1>1. /\ Len(log) \in Nat /\ nValidFrameNum \in Nat /\ nValidFrameNum <= Len(log)
      /\ Len(held) \in Nat \ {0} /\ Head(held) = held[1]
      /\ Len(held) = nValidFrameNum - nUnReadFrameNum
      /\ nUnReadFrameNum \in Nat
  BY LenProperties, EmptySeq, HeadTailProperties, RingAssumption DEF Types, Counts
<1>2. nValidFrameNum # 0 /\ n \in 1 .. Len(log) /\ 1 \in 1 .. Len(held)
      /\ n \in Len(log) - nValidFrameNum + 1 .. Len(log)
  BY <1>1
<1>3. held[1] = pStreamInfos[Place(n)]
  BY <1>2 DEF Records
<1>4. IsRecordOf(pStreamInfos[Place(n)], log, n)
  BY <1>2 DEF Records
<1>5. pStreamInfos[held[1].nID] = held[1]
  BY <1>3, <1>4, Zenon DEF IsRecordOf
<1> HIDE DEF n
<1>6. /\ n \in 1 .. Len(log) /\ nValidFrameNum \in Nat \ {0}
      /\ Len(held) \in Nat \ {0} /\ Head(held) = held[1]
      /\ IsRecordOf(held[1], log, n)
      /\ pStreamInfos[held[1].nID] = held[1]
  BY <1>1, <1>2, <1>3, <1>4, <1>5
<1> QED
  BY <1>6 DEF n

\* What a return takes off the tape: exactly the oldest live stream.
LEMMA ReturnFromTape ==
  ASSUME Basic, Ring, BitStreamReturnOneBitstream
  PROVE  LET n == Len(log) - nValidFrameNum + 1
         IN  /\ Freed(Head(held).nID) = ALIGN_64B(log[n].length)
             /\ ALIGN_64B(log[n].length) \in Nat
             /\ TapeEnd' = TapeEnd /\ TapeBegin = log[n].start
             /\ TapeBegin' = End(n)
             /\ log[n].start \in Nat /\ TapeEnd \in Nat
<1> USE DEF Basic, Ring
<1> DEFINE n == Len(log) - nValidFrameNum + 1
<1>1. /\ appPc = "idle" /\ held # <<>> /\ log' = log
      /\ nValidFrameNum' = nValidFrameNum - 1
  BY DEF BitStreamReturnOneBitstream
<1>2. /\ Len(log) \in Nat /\ n \in 1 .. Len(log) /\ nValidFrameNum \in Nat \ {0}
      /\ Head(held) = held[1] /\ IsRecordOf(held[1], log, n)
      /\ pStreamInfos[held[1].nID] = held[1]
  BY <1>1, OldestHeld, LenProperties DEF Types
<1>3. log[n] \in Stretch
  BY <1>2, ElementOfSeq DEF Types
<1>4. /\ log[n].start \in Nat /\ log[n].length \in Nat
      /\ ALIGN_64B(log[n].length) \in Nat
  BY <1>3, RingAssumption, PaddingType DEF Stretch
<1>5. Freed(Head(held).nID) = ALIGN_64B(log[n].length)
  BY <1>2, Zenon DEF Freed, IsRecordOf
<1>6. TapeEnd' = TapeEnd
  BY <1>1 DEF TapeEnd
<1>7. TapeBegin = log[n].start
  BY <1>2 DEF TapeBegin
<1>8. TapeBegin' = End(n)
  <2>1. CASE nValidFrameNum = 1
    <3>1. n = Len(log) /\ nValidFrameNum' = 0 /\ log # <<>>
      BY <1>1, <1>2, <2>1
    <3>2. TapeBegin' = TapeEnd' /\ TapeEnd = End(Len(log))
      BY <3>1 DEF TapeBegin, TapeEnd, End
    <3> QED
      BY <1>6, <3>1, <3>2
  <2>2. CASE nValidFrameNum # 1
    <3>1. /\ nValidFrameNum' # 0 /\ n \in 1 .. Len(log) - 1
          /\ Len(log') - nValidFrameNum' + 1 = n + 1
      BY <1>1, <1>2, <2>2
    <3>2. TapeBegin' = log'[Len(log') - nValidFrameNum' + 1].start
      BY <3>1, Zenon DEF TapeBegin
    <3>3. log[n + 1].start = End(n)
      BY <3>1 DEF Tape
    <3> QED
      BY <1>1, <3>1, <3>2, <3>3
  <2> QED
    BY <2>1, <2>2
<1>9. TapeEnd \in Nat
  BY TapeEndType DEF Types
<1> HIDE DEF n
<1>10. /\ Freed(Head(held).nID) = ALIGN_64B(log[n].length)
       /\ ALIGN_64B(log[n].length) \in Nat
       /\ TapeEnd' = TapeEnd /\ TapeBegin = log[n].start
       /\ TapeBegin' = End(n)
       /\ log[n].start \in Nat /\ TapeEnd \in Nat
  BY <1>4, <1>5, <1>6, <1>7, <1>8, <1>9
<1> QED
  BY <1>10 DEF n

LEMMA ReturnRing ==
  ASSUME Basic, Ring, BitStreamReturnOneBitstream
  PROVE  Ring'
<1> USE DEF Basic, Ring
<1> DEFINE l == Len(log)
           v == nValidFrameNum
           n == l - v + 1
           h == Len(held)
<1>1. /\ appPc = "idle" /\ appPc' = "idle" /\ held # <<>> /\ held' = Tail(held)
      /\ nValidDataSize' = nValidDataSize - Freed(Head(held).nID)
      /\ nValidFrameNum' = v - 1
      /\ pStreamInfo' = pStreamInfo /\ log' = log
      /\ nReadPos' = nReadPos /\ nUnReadFrameNum' = nUnReadFrameNum
      /\ nWritePos' = nWritePos /\ pStreamInfos' = pStreamInfos
  BY DEF BitStreamReturnOneBitstream
<1>2. /\ l \in Nat /\ v \in Nat \ {0} /\ h \in Nat \ {0}
      /\ v <= nMaxFrameNum /\ v <= l /\ nUnReadFrameNum \in Nat
      /\ h = v - nUnReadFrameNum /\ nMaxFrameNum \in Nat
  BY <1>1, OldestHeld, LenProperties, RingAssumption DEF Types, Counts
<1>3. Len(held') = h - 1 /\ \A i \in 1 .. h - 1 : held'[i] = held[i + 1]
  BY <1>1, <1>2, HeadTailProperties DEF Types
<1>4. Counts'
  BY <1>1, <1>2, <1>3 DEF Counts
<1>5. Records'
  <2>1. \A m \in l - (v - 1) + 1 .. l : m \in l - v + 1 .. l
    BY <1>2
  <2>2. \A i \in 1 .. h - 1 : i + 1 \in 1 .. h /\ l - (v - 1) + i = l - v + (i + 1)
    BY <1>2
  <2>3. \A i \in 1 .. h - 1 : held'[i] = pStreamInfos[Place(l - (v - 1) + i)]
    BY <1>3, <2>2 DEF Records
  <2>4. \A m \in l - (v - 1) + 1 .. l : IsRecordOf(pStreamInfos[Place(m)], log, m)
    BY <2>1 DEF Records
  <2> HIDE DEF l, v, h
  <2> QED
    BY <1>1, <1>3, <2>3, <2>4 DEF Records, l
<1>6. Tape'
  <2>1. \A m \in 1 .. Len(log') - 1 : log'[m + 1].start = End(m)'
    BY <1>1 DEF Tape, End
  <2>2. /\ Freed(Head(held).nID) = ALIGN_64B(log[n].length)
        /\ ALIGN_64B(log[n].length) \in Nat
        /\ TapeEnd' = TapeEnd /\ TapeBegin = log[n].start
        /\ TapeBegin' = log[n].start + ALIGN_64B(log[n].length)
        /\ log[n].start \in Nat /\ TapeEnd \in Nat
    BY ReturnFromTape DEF End
  <2>3. nValidDataSize = TapeEnd - TapeBegin
    BY DEF Tape
  <2> HIDE DEF n
  <2>4. nValidDataSize' = TapeEnd' - TapeBegin'
    BY <1>1, <2>2, <2>3
  <2> QED
    BY <2>1, <2>4 DEF Tape
<1> QED
  BY <1>4, <1>5, <1>6

LEMMA RingHolds == Spec => [](Basic /\ Ring)
<1>1. Basic /\ Ring /\ [Next]_vars => Ring'
  <2> SUFFICES ASSUME Basic, Ring, [Next]_vars PROVE Ring'
    OBVIOUS
  <2>1. CASE UNCHANGED vars
    BY <2>1 DEF vars, ring, encoder, application, Ring, Counts, Records, Tape, TapeEnd,
       TapeBegin, End
  <2>2. CASE EncoderStep
    BY <2>2, AddRing, OtherEncoderRing DEF EncoderStep
  <2>3. CASE ApplicationStep
    BY <2>3, GetRing, ReadRing, ReturnRing DEF ApplicationStep
  <2> QED
    BY <2>1, <2>2, <2>3 DEF Next
<1> QED
  BY <1>1, BasicHolds, InitRing, PTL DEF Spec

\* The record of a stream that the application holds is not recorded over: the
\* return reads there the length that the stream was given out with.
THEOREM HeldInfoStays == Spec => []HeldInfoStable
<1>1. Basic /\ Ring => HeldInfoStable
  <2> SUFFICES ASSUME Basic, Ring, NEW i \in 1 .. Len(held)
               PROVE  pStreamInfos[held[i].nID] = held[i]
    <3>1. DOMAIN held = 1 .. Len(held)
      BY LenProperties DEF Basic, Types
    <3> QED
      BY <3>1 DEF HeldInfoStable
  <2> DEFINE n == Len(log) - nValidFrameNum + i
  <2>1. n \in Len(log) - nValidFrameNum + 1 .. Len(log)
    BY LenProperties DEF Basic, Types, Ring, Counts
  <2>2. held[i] = pStreamInfos[Place(n)]
    BY DEF Ring, Records
  <2>3. IsRecordOf(pStreamInfos[Place(n)], log, n)
    BY <2>1 DEF Ring, Records
  <2> QED
    BY <2>2, <2>3, Zenon DEF IsRecordOf
<1> QED
  BY <1>1, RingHolds, PTL

-----------------------------------------------------------------------------
(* The bytes, in a buffer of whole units.                                  *)

LiveStreams == Len(log) - nValidFrameNum + 1 .. Len(log)

Placed ==
  /\ \A n \in 1 .. Len(log) : log[n].start % 64 = 0
  /\ \A m, n \in 1 .. Len(log) : m < n => End(m) <= log[n].start
  /\ nWriteOffset = TapeEnd % nStreamBufferSize
  /\ nValidDataSize <= nStreamBufferSize
  /\ \A n \in LiveStreams :
       pStreamInfos[Place(n)].nStreamOffset = log[n].start % nStreamBufferSize

Written ==
  /\ \A n \in LiveStreams :
       \A u \in Units(log[n].start % nStreamBufferSize, log[n].length) : memory[u] = n
  /\ encPc = "add" =>
       \A u \in Units(info.nStreamOffset, info.nStreamLength) : memory[u] = Len(log) + 1

LEMMA LogFacts ==
  ASSUME Basic, Ring, Placed
  PROVE  /\ Len(log) \in Nat /\ nValidFrameNum \in Nat /\ nValidFrameNum <= Len(log)
         /\ LiveStreams \subseteq 1 .. Len(log)
         /\ \A n \in 1 .. Len(log) :
              /\ log[n].start \in Nat /\ log[n].start % 64 = 0
              /\ log[n].length \in Nat \ {0}
              /\ End(n) \in Nat /\ End(n) % 64 = 0 /\ End(n) > log[n].start
<1> USE DEF Basic, Ring
<1>1. /\ Len(log) \in Nat /\ nValidFrameNum \in Nat /\ nValidFrameNum <= Len(log)
      /\ LiveStreams \subseteq 1 .. Len(log)
  BY LenProperties, RingAssumption DEF Types, Counts, LiveStreams
<1>2. ASSUME NEW n \in 1 .. Len(log)
      PROVE  /\ log[n].start \in Nat /\ log[n].start % 64 = 0
             /\ log[n].length \in Nat \ {0}
             /\ End(n) \in Nat /\ End(n) % 64 = 0 /\ End(n) > log[n].start
  <2>1. log[n] \in Stretch
    BY <1>2, ElementOfSeq DEF Types
  <2>2. /\ log[n].start \in Nat /\ log[n].start % 64 = 0
        /\ log[n].length \in Nat \ {0}
    BY <2>1, RingAssumption DEF Stretch, Placed
  <2> DEFINE a == ALIGN_64B(log[n].length)
  <2>3. a \in Nat /\ a % 64 = 0 /\ a > 0
    BY <2>2, Padding
  <2>4. End(n) = log[n].start + a
    BY DEF End
  <2> HIDE DEF a
  <2> QED
    BY <2>2, <2>3, <2>4
<1> QED
  BY <1>1, <1>2

\* The live part of the tape.
LEMMA TapeFacts ==
  ASSUME Basic, Ring, Placed
  PROVE  /\ TapeEnd \in Nat /\ TapeEnd % 64 = 0
         /\ TapeBegin \in Nat /\ TapeBegin % 64 = 0 /\ TapeBegin <= TapeEnd
         /\ \A n \in 1 .. Len(log) : End(n) <= TapeEnd
         /\ \A n \in LiveStreams : TapeBegin <= log[n].start
<1> USE DEF Basic, Ring
<1> DEFINE l == Len(log)
           v == nValidFrameNum
<1>1. /\ l \in Nat /\ v \in Nat /\ v <= l
      /\ \A n \in 1 .. l : /\ log[n].start \in Nat /\ log[n].start % 64 = 0
                           /\ End(n) \in Nat /\ End(n) % 64 = 0 /\ End(n) > log[n].start
  BY LogFacts
<1>2. \A m, n \in 1 .. l : m < n => End(m) <= log[n].start
  BY DEF Placed
<1>3. l = 0 => TapeEnd = 0
  BY EmptySeq DEF TapeEnd, Types
<1>4. l # 0 => TapeEnd = End(l)
  <2>1. l # 0 => log # <<>>
    OBVIOUS
  <2> QED
    BY <2>1 DEF TapeEnd, End
<1>5. v = 0 => TapeBegin = TapeEnd
  BY DEF TapeBegin
<1>6. v # 0 => TapeBegin = log[l - v + 1].start
  BY DEF TapeBegin
<1>7. LiveStreams = l - v + 1 .. l
  BY DEF LiveStreams
<1> HIDE DEF l, v
<1>8. TapeEnd \in Nat /\ TapeEnd % 64 = 0
  BY <1>1, <1>3, <1>4
<1>9. ASSUME NEW n \in 1 .. l PROVE End(n) <= TapeEnd
  <2>1. l # 0 /\ l \in 1 .. l
    BY <1>1
  <2>2. CASE n = l
    BY <1>1, <1>4, <2>1, <2>2
  <2>3. CASE n # l
    <3>1. n < l
      BY <1>1, <2>3
    <3>2. End(n) <= log[l].start /\ log[l].start < End(l)
      BY <1>1, <1>2, <2>1, <3>1
    <3>3. End(n) \in Nat /\ End(l) \in Nat /\ log[l].start \in Nat
      BY <1>1, <2>1
    <3> QED
      BY <1>4, <2>1, <3>2, <3>3
  <2> QED
    BY <2>2, <2>3
<1>10. CASE v = 0
  BY <1>1, <1>5, <1>7, <1>8, <1>9, <1>10 DEF l
<1>11. CASE v # 0
  <2> DEFINE b == l - v + 1
  <2>1. b \in 1 .. l /\ \A n \in l - v + 1 .. l : n \in 1 .. l /\ (n = b \/ b < n)
    BY <1>1, <1>11
  <2>2. TapeBegin = log[b].start
    BY <1>6, <1>11
  <2> HIDE DEF b
  <2>3. TapeBegin \in Nat /\ TapeBegin % 64 = 0 /\ TapeBegin < End(b) /\ End(b) \in Nat
    BY <1>1, <2>1, <2>2
  <2>4. TapeBegin <= TapeEnd
    <3>1. End(b) <= TapeEnd
      BY <1>9, <2>1
    <3> QED
      BY <1>8, <2>3, <3>1
  <2>5. ASSUME NEW n \in l - v + 1 .. l PROVE TapeBegin <= log[n].start
    <3>1. n \in 1 .. l /\ (n = b \/ b < n) /\ log[n].start \in Nat
      BY <1>1, <2>1
    <3>2. CASE n = b
      BY <2>2, <2>3, <3>2
    <3>3. CASE b < n
      <4>1. End(b) <= log[n].start
        BY <1>2, <2>1, <3>1, <3>3
      <4> QED
        BY <2>3, <3>1, <4>1
    <3> QED
      BY <3>1, <3>2, <3>3
  <2> QED
    BY <1>7, <1>8, <1>9, <2>3, <2>4, <2>5 DEF l
<1> QED
  BY <1>10, <1>11

\* What fits into the free bytes fits in whole units.
LEMMA PaddedFits ==
  ASSUME WholeUnits, Basic, Ring, Placed,
         NEW x \in Nat \ {0}, x <= nStreamBufferSize - nValidDataSize
  PROVE  /\ ALIGN_64B(x) \in 0 .. nStreamBufferSize
         /\ TapeEnd + ALIGN_64B(x) <= TapeBegin + nStreamBufferSize
<1>1. /\ TapeEnd \in Nat /\ TapeEnd % 64 = 0 /\ TapeBegin \in Nat /\ TapeBegin % 64 = 0
      /\ TapeBegin <= TapeEnd
  BY TapeFacts
<1>2. nValidDataSize = TapeEnd - TapeBegin
  BY DEF Ring, Tape
<1>3. nStreamBufferSize \in Nat /\ nStreamBufferSize % 64 = 0
  BY RingAssumption DEF WholeUnits
<1> DEFINE y == nStreamBufferSize - nValidDataSize
<1>4. y \in Int /\ y % 64 = 0 /\ x <= y
  BY <1>1, <1>2, <1>3
<1>5. y = nStreamBufferSize - (TapeEnd - TapeBegin)
  BY <1>2
<1> HIDE DEF y
<1>6. ALIGN_64B(x) \in Nat /\ ALIGN_64B(x) <= y
  BY <1>4, Padding
<1> QED
  BY <1>1, <1>3, <1>5, <1>6

LEMMA InitPlaced == Init => Placed /\ Written
<1> USE RingAssumption
<1> SUFFICES ASSUME Init PROVE Placed /\ Written
  OBVIOUS
<1>1. Len(log) = 0 /\ TapeEnd = 0 /\ LiveStreams = {} /\ 1 .. Len(log) = {}
  BY DEF Init, TapeEnd, LiveStreams
<1>2. 0 % nStreamBufferSize = 0
  <2>1. 0 = nStreamBufferSize * 0 + 0 /\ 0 \in 0 .. nStreamBufferSize - 1
    OBVIOUS
  <2> QED
    BY <2>1, ModIs
<1>3. Placed
  BY <1>1, <1>2 DEF Init, Placed
<1>4. Written
  BY <1>1 DEF Init, Written
<1> QED
  BY <1>3, <1>4

LEMMA AddPlaced ==
  ASSUME WholeUnits, Basic, Ring, Placed, BitStreamAddOneBitstream
  PROVE  Placed'
<1> USE RingAssumption
<1> DEFINE l == Len(log)
           a == ALIGN_64B(info.nStreamLength)
           w == nWriteOffset
           size == nStreamBufferSize
<1>1. /\ encPc = "add" /\ nValidFrameNum < nMaxFrameNum
      /\ pStreamInfos' = [pStreamInfos EXCEPT ![nWritePos] = Recorded]
      /\ nValidFrameNum' = nValidFrameNum + 1
      /\ nValidDataSize' = nValidDataSize + a
      /\ nWriteOffset' = IF w + a >= size THEN w + a - size ELSE w + a
  <2>1. nValidFrameNum < nMaxFrameNum
    <3>1. nValidFrameNum \in Int /\ ~ (nValidFrameNum >= nMaxFrameNum)
      BY DEF BitStreamAddOneBitstream, ListFull, Basic, Types
    <3> QED
      BY <3>1
  <2>2. /\ encPc = "add"
        /\ pStreamInfos' = [pStreamInfos EXCEPT ![nWritePos] = Recorded]
        /\ nValidFrameNum' = nValidFrameNum + 1
        /\ nValidDataSize' = nValidDataSize + a
    BY DEF BitStreamAddOneBitstream
  <2>3. nWriteOffset' = IF w + a >= size THEN w + a - size ELSE w + a
    <3>1. nWriteOffset \in Int /\ a \in Int
      BY AddToTape DEF Basic, Types
    <3> QED
      BY <3>1 DEF BitStreamAddOneBitstream
  <2> QED
    BY <2>1, <2>2, <2>3
<1>2. /\ l \in Nat /\ Len(log') = l + 1
      /\ \A n \in 1 .. l : log'[n] = log[n]
      /\ log'[l + 1].start = TapeEnd
      /\ TapeEnd' = TapeEnd + a /\ TapeBegin' = TapeBegin
  BY AddToTape
<1>3. /\ TapeEnd \in Nat /\ TapeEnd % 64 = 0 /\ TapeBegin \in Nat
      /\ TapeBegin <= TapeEnd /\ \A n \in 1 .. l : End(n) <= TapeEnd
  BY TapeFacts
<1>4. /\ a \in 0 .. size /\ TapeEnd + a <= TapeBegin + size
      /\ w = TapeEnd % size /\ nValidDataSize = TapeEnd - TapeBegin
  <2>1. /\ info.nStreamLength \in Nat \ {0}
        /\ info.nStreamLength <= size - nValidDataSize
    <3>1. /\ info.nStreamLength \in Lengths /\ info.nStreamLength <= room
          /\ room <= size - nValidDataSize
          /\ room \in Int /\ nValidDataSize \in Int
      BY <1>1 DEF Basic, Rooms, Types
    <3>2. info.nStreamLength \in Nat \ {0}
      BY <3>1
    <3>3. size \in Int
      OBVIOUS
    <3> HIDE DEF size
    <3> QED
      BY <3>1, <3>2, <3>3
  <2>2. a \in 0 .. size /\ TapeEnd + a <= TapeBegin + size
    BY <2>1, PaddedFits
  <2> QED
    BY <2>2 DEF Placed, Ring, Tape
<1>5. /\ nValidFrameNum \in Nat /\ nValidFrameNum <= l
      /\ nWritePos = Place(l + 1)
      /\ \A n \in 1 .. l : log[n].start % 64 = 0
      /\ \A m, n \in 1 .. l : m < n => End(m) <= log[n].start
      /\ \A n \in l - nValidFrameNum + 1 .. l :
           pStreamInfos[Place(n)].nStreamOffset = log[n].start % size
      /\ info.nStreamOffset = w
  BY <1>1 DEF Basic, Ring, Counts, Placed, LiveStreams, Rooms
<1> HIDE DEF l, a, w, size
<1>6. \A n \in 1 .. Len(log') : log'[n].start % 64 = 0
  <2>1. \A n \in 1 .. Len(log') : n \in 1 .. l \/ n = l + 1
    BY <1>2
  <2> QED
    BY <1>2, <1>3, <1>5, <2>1
<1>7. \A m, n \in 1 .. Len(log') : m < n => End(m)' <= log'[n].start
  <2> TAKE m, n \in 1 .. Len(log')
  <2> HAVE m < n
  <2>1. m \in 1 .. l /\ (n \in 1 .. l \/ n = l + 1)
    BY <1>2
  <2>2. End(m)' = End(m)
    BY <1>2, <2>1 DEF End
  <2> QED
    BY <1>2, <1>3, <1>5, <2>1, <2>2
<1>8. nWriteOffset' = TapeEnd' % size
  <2>1. size \in Nat \ {0} /\ TapeEnd \in Int
    BY <1>3 DEF size
  <2>2. (TapeEnd + a) % size = IF (TapeEnd % size) + a >= size
                                 THEN (TapeEnd % size) + a - size
                                 ELSE (TapeEnd % size) + a
    BY <1>4, <2>1, WrapIsMod
  <2> QED
    BY <1>1, <1>2, <1>4, <2>2, Zenon
<1>9. nValidDataSize' <= size
  <2>1. size \in Nat /\ a \in Nat
    BY <1>4 DEF size
  <2> QED
    BY <1>1, <1>3, <1>4, <2>1
<1>10. ASSUME NEW n \in LiveStreams'
       PROVE  pStreamInfos'[Place(n)].nStreamOffset = log'[n].start % size
  <2>1. n \in l - nValidFrameNum + 1 .. l \/ n = l + 1
    BY <1>1, <1>2, <1>5 DEF LiveStreams
  <2>2. CASE n = l + 1
    <3>1. Place(n) \in Positions /\ Place(n) \in Int /\ nWritePos = Place(n)
      BY <1>2, <1>5, <2>2, PlaceType DEF Positions
    <3>2. pStreamInfos'[Place(n)] = [info EXCEPT !.nID = Place(n)]
      BY <1>1, <3>1 DEF Basic, Types, Recorded
    <3>3. pStreamInfos'[Place(n)].nStreamOffset = info.nStreamOffset
      BY <3>1, <3>2, InfoRecorded DEF Basic, Types
    <3>4. info.nStreamOffset = TapeEnd % size /\ log'[n].start = TapeEnd
      BY <1>2, <1>4, <1>5, <2>2, Zenon
    <3> QED
      BY <3>3, <3>4, Zenon
  <2>3. CASE n \in l - nValidFrameNum + 1 .. l
    <3>1. n \in 1 .. l /\ n \in Int /\ n < l + 1 /\ l + 1 - n < nMaxFrameNum
      BY <1>1, <1>2, <1>5, <2>3
    <3>2. Place(n) \in Positions
      BY <3>1, PlaceType
    <3>3. Place(n) # nWritePos
      <4> DEFINE k == l + 1
      <4>1. k \in Int /\ n < k /\ k - n < nMaxFrameNum
        BY <1>2, <3>1
      <4> HIDE DEF k
      <4>2. Place(n) # Place(k)
        BY <3>1, <4>1, PlacesDiffer
      <4> QED
        BY <1>5, <4>2 DEF k
    <3>4. pStreamInfos'[Place(n)] = pStreamInfos[Place(n)]
      BY <1>1, <3>2, <3>3 DEF Basic, Types
    <3> QED
      BY <1>2, <1>5, <2>3, <3>1, <3>4, Zenon
  <2> QED
    BY <2>1, <2>2, <2>3
<1> QED
  BY <1>6, <1>7, <1>8, <1>9, <1>10 DEF Placed, size

\* The other steps of both threads leave the tape and the records alone, but for
\* a return, after which fewer streams are live.
LEMMA OtherPlaced ==
  ASSUME Basic, Ring, Placed, log' = log, nWriteOffset' = nWriteOffset,
         pStreamInfos' = pStreamInfos,
         \/ nValidDataSize' = nValidDataSize /\ nValidFrameNum' = nValidFrameNum
         \/ BitStreamReturnOneBitstream
  PROVE  /\ Placed'
         /\ LiveStreams' \subseteq LiveStreams
<1> USE RingAssumption
<1>1. TapeEnd' = TapeEnd /\ \A n : End(n)' = End(n)
  BY DEF TapeEnd, End
<1>2. /\ LiveStreams' \subseteq LiveStreams
      /\ nValidDataSize' <= nStreamBufferSize
  <2>1. CASE nValidDataSize' = nValidDataSize /\ nValidFrameNum' = nValidFrameNum
    BY <2>1 DEF LiveStreams, Placed
  <2>2. CASE BitStreamReturnOneBitstream
    <3> DEFINE n == Len(log) - nValidFrameNum + 1
    <3>1. /\ Freed(Head(held).nID) = ALIGN_64B(log[n].length)
          /\ ALIGN_64B(log[n].length) \in Nat
      BY <2>2, ReturnFromTape
    <3>2. /\ nValidDataSize' = nValidDataSize - Freed(Head(held).nID)
          /\ nValidFrameNum' = nValidFrameNum - 1
      BY <2>2 DEF BitStreamReturnOneBitstream
    <3>3. /\ nValidDataSize \in Int /\ nValidFrameNum \in Int /\ Len(log) \in Nat
          /\ nValidDataSize <= nStreamBufferSize
      BY LenProperties DEF Basic, Types, Placed
    <3>4. LiveStreams' \subseteq LiveStreams
      BY <3>2, <3>3 DEF LiveStreams
    <3> HIDE DEF n
    <3> QED
      BY <3>1, <3>2, <3>3, <3>4
  <2> QED
    BY <2>1, <2>2
<1>3. Placed'
  BY <1>1, <1>2 DEF Placed
<1> QED
  BY <1>2, <1>3

\* What is written goes to units that no live stream has.
LEMMA WriteWritten ==
  ASSUME WholeUnits, Basic, Ring, Placed, Written,
         NEW length \in Lengths, HardwareWrite(length)
  PROVE  Written'
<1> USE RingAssumption
<1> DEFINE l == Len(log)
           units == Units(info.nStreamOffset, length)
<1>1. /\ encPc = "write" /\ encPc' = "add" /\ length <= room
      /\ memory' = [u \in AllUnits |-> IF u \in units THEN l + 1 ELSE memory[u]]
      /\ log' = log /\ nValidFrameNum' = nValidFrameNum
  BY DEF HardwareWrite, ring
<1>2. /\ info'.nStreamOffset = info.nStreamOffset
      /\ info'.nStreamLength = length
  <2> DEFINE n == Len(log) + 1
             r == [info EXCEPT !.nStreamLength = length, !.nPts = n]
  <2>1. info' = r /\ info \in StreamInfo
    BY DEF HardwareWrite, Basic, Types
  <2> HIDE DEF n
  <2>2. r.nStreamLength = length /\ r.nStreamOffset = info.nStreamOffset
    BY <2>1 DEF StreamInfo
  <2> HIDE DEF r
  <2> QED
    BY <2>1, <2>2
<1>3. /\ length \in Nat \ {0} /\ length <= nStreamBufferSize - nValidDataSize
      /\ info.nStreamOffset = TapeEnd % nStreamBufferSize
  <2>1. /\ room <= nStreamBufferSize - nValidDataSize /\ room \in Int
        /\ nValidDataSize \in Int /\ length \in Nat \ {0}
        /\ info.nStreamOffset = nWriteOffset
    BY <1>1 DEF Basic, Rooms, Types
  <2>2. length <= nStreamBufferSize - nValidDataSize
    BY <1>1, <2>1
  <2> QED
    BY <2>1, <2>2 DEF Placed
<1>4. /\ TapeEnd \in Nat /\ TapeEnd % 64 = 0 /\ TapeBegin \in Nat
      /\ TapeEnd + ALIGN_64B(length) <= TapeBegin + nStreamBufferSize
      /\ ALIGN_64B(length) \in Nat
      /\ \A n \in LiveStreams : TapeBegin <= log[n].start
      /\ \A n \in 1 .. l : End(n) <= TapeEnd
  BY <1>3, TapeFacts, PaddedFits
<1>5. ASSUME NEW n \in LiveStreams,
             NEW u \in Units(log[n].start % nStreamBufferSize, log[n].length)
      PROVE  u \notin units
  <2>1. /\ n \in 1 .. l /\ log[n].start \in Nat /\ log[n].start % 64 = 0
        /\ log[n].length \in Nat \ {0}
    BY LogFacts
  <2>2. /\ log[n].start + ALIGN_64B(log[n].length) <= TapeEnd
        /\ TapeBegin <= log[n].start
    BY <1>4, <2>1 DEF End
  <2>3. TapeEnd + ALIGN_64B(length) <= log[n].start + nStreamBufferSize
    BY <1>4, <2>1, <2>2
  <2>4. u \notin Units(TapeEnd % nStreamBufferSize, length)
    BY <1>3, <1>4, <2>1, <2>2, <2>3, UnitsApart, Zenon
  <2> QED
    BY <1>3, <2>4, Zenon
<1>6. ASSUME NEW offset \in Int, NEW m \in Nat, NEW u \in Units(offset, m)
      PROVE  u \in AllUnits
  <2>1. PICK k \in 0 .. m - 1 : u = ((offset + k) % nStreamBufferSize) \div 64
    BY DEF Units
  <2> DEFINE r == (offset + k) % nStreamBufferSize
  <2>2. r \in 0 .. nStreamBufferSize - 1
    <3>1. offset + k \in Int
      OBVIOUS
    <3> QED
      BY <3>1, DivMod
  <2>3. u = r \div 64
    BY <2>1
  <2> HIDE DEF r
  <2> QED
    BY <2>2, <2>3 DEF AllUnits
<1>7. ASSUME NEW n \in LiveStreams',
             NEW u \in Units(log'[n].start % nStreamBufferSize, log'[n].length)
      PROVE  memory'[u] = n
  <2>1. /\ n \in LiveStreams /\ log'[n] = log[n]
        /\ u \in Units(log[n].start % nStreamBufferSize, log[n].length)
    BY <1>1 DEF LiveStreams
  <2>2. log[n].start \in Int /\ log[n].length \in Nat
    BY <2>1, LogFacts
  <2>3. (log[n].start % nStreamBufferSize) \in Int
    BY <2>2, DivMod
  <2>4. u \in AllUnits /\ u \notin units
    BY <1>5, <1>6, <2>1, <2>2, <2>3
  <2>5. memory[u] = n
    BY <2>1 DEF Written
  <2> QED
    BY <1>1, <2>4, <2>5
<1>8. ASSUME NEW u \in units
      PROVE  memory'[u] = l + 1
  <2>1. info.nStreamOffset \in Int /\ length \in Nat
    BY <1>3 DEF Basic, Types, StreamInfo
  <2>2. u \in AllUnits
    BY <1>6, <2>1
  <2> QED
    BY <1>1, <2>2
<1> QED
  BY <1>1, <1>2, <1>7, <1>8 DEF Written

LEMMA AddWritten ==
  ASSUME WholeUnits, Basic, Ring, Placed, Written, BitStreamAddOneBitstream
  PROVE  Written'
<1> USE RingAssumption
<1> DEFINE l == Len(log)
<1>1. /\ encPc = "add" /\ encPc' = "idle" /\ memory' = memory
      /\ nValidFrameNum' = nValidFrameNum + 1
  BY DEF BitStreamAddOneBitstream
<1>2. /\ l \in Nat /\ Len(log') = l + 1
      /\ \A n \in 1 .. l : log'[n] = log[n]
      /\ log'[l + 1] = [start |-> TapeEnd, length |-> info.nStreamLength]
  BY AddToTape
<1>3. /\ nValidFrameNum \in Nat /\ nValidFrameNum <= l
      /\ info.nStreamOffset = TapeEnd % nStreamBufferSize
  BY <1>1, LogFacts DEF Basic, Rooms, Placed
<1>4. \A n \in LiveStreams' : (n \in LiveStreams /\ n \in 1 .. l) \/ n = l + 1
  BY <1>1, <1>2, <1>3 DEF LiveStreams
<1>5. ASSUME NEW n \in LiveStreams,
             NEW u \in Units(log[n].start % nStreamBufferSize, log[n].length)
      PROVE  memory[u] = n
  BY DEF Written
<1>6. \A u \in Units(info.nStreamOffset, info.nStreamLength) : memory[u] = l + 1
  BY <1>1 DEF Written
<1>7. log'[l + 1].start = TapeEnd /\ log'[l + 1].length = info.nStreamLength
  BY <1>2
<1> HIDE DEF l
<1>8. ASSUME NEW n \in LiveStreams',
             NEW u \in Units(log'[n].start % nStreamBufferSize, log'[n].length)
      PROVE  memory'[u] = n
  <2>1. CASE n = l + 1
    BY <1>1, <1>3, <1>6, <1>7, <2>1, Zenon
  <2>2. CASE n \in LiveStreams /\ n \in 1 .. l
    BY <1>1, <1>2, <1>5, <2>2, Zenon
  <2> QED
    BY <1>4, <2>1, <2>2
<1> QED
  BY <1>1, <1>8 DEF Written

Inv == Basic /\ Ring /\ Placed /\ Written

LEMMA InvHolds ==
  ASSUME WholeUnits
  PROVE  Spec => []Inv
<1>1. Basic /\ Ring /\ Placed /\ Written /\ [Next]_vars => Placed' /\ Written'
  <2> SUFFICES ASSUME Basic, Ring, Placed, Written, [Next]_vars PROVE Placed' /\ Written'
    OBVIOUS
  <2>1. ASSUME log' = log, nWriteOffset' = nWriteOffset, pStreamInfos' = pStreamInfos,
               memory' = memory, info' = info,
               \/ nValidDataSize' = nValidDataSize /\ nValidFrameNum' = nValidFrameNum
               \/ BitStreamReturnOneBitstream,
               encPc' = "add" => encPc = "add"
        PROVE  Placed' /\ Written'
    <3>1. Placed' /\ LiveStreams' \subseteq LiveStreams
      BY <2>1, OtherPlaced
    <3> QED
      BY <2>1, <3>1 DEF Written
  <2>2. CASE UNCHANGED vars
    BY <2>1, <2>2 DEF vars, ring, encoder, application
  <2>3. CASE ReadRoom \/ ReadOffset \/ HardwareFails \/ AddRejected
    <3>1. /\ log' = log /\ nWriteOffset' = nWriteOffset /\ pStreamInfos' = pStreamInfos
          /\ memory' = memory /\ encPc' # "add"
          /\ nValidDataSize' = nValidDataSize /\ nValidFrameNum' = nValidFrameNum
      BY <2>3 DEF ReadRoom, ReadOffset, HardwareFails, AddRejected, ring
    <3>2. Placed' /\ LiveStreams' \subseteq LiveStreams
      BY <3>1, OtherPlaced
    <3> QED
      BY <3>1, <3>2 DEF Written
  <2>4. CASE BitStreamAddOneBitstream
    BY <2>4, AddPlaced, AddWritten
  <2>5. ASSUME NEW length \in Lengths, HardwareWrite(length) PROVE Placed' /\ Written'
    <3>1. /\ log' = log /\ nWriteOffset' = nWriteOffset /\ pStreamInfos' = pStreamInfos
          /\ nValidDataSize' = nValidDataSize /\ nValidFrameNum' = nValidFrameNum
      BY <2>5 DEF HardwareWrite, ring
    <3> QED
      BY <2>5, <3>1, OtherPlaced, WriteWritten
  <2>6. CASE ApplicationStep
    BY <2>1, <2>6 DEF ApplicationStep, BitStreamGetOneBitstream, ReadInfo,
       BitStreamReturnOneBitstream, ring, encoder
  <2> QED
    BY <2>2, <2>3, <2>4, <2>5, <2>6 DEF Next, EncoderStep
<1>2. Init => Placed /\ Written
  BY InitPlaced
<1> QED
  BY <1>1, <1>2, RingHolds, PTL DEF Spec, Inv

-----------------------------------------------------------------------------
(* Theorems.                                                               *)

\* The two counters account for exactly the streams that are unread, being read
\* or held, and the write offset is where the tape ends.
THEOREM AccountingKept ==
  ASSUME WholeUnits
  PROVE  Spec => []Accounting
<1>1. Inv => Accounting
  BY DEF Inv, Basic, Types, Ring, Counts, Tape, Placed, Accounting
<1> QED
  BY <1>1, InvHolds, PTL

\* Where the live records are, as the properties count.
LEMMA LivePlaces ==
  ASSUME Basic, Ring
  PROVE  /\ OldestPos = Place(Len(log) - nValidFrameNum + 1)
         /\ \A i \in Int :
              (OldestPos + i - 1) % nMaxFrameNum = Place(Len(log) - nValidFrameNum + i)
<1> DEFINE l == Len(log)
           u == nUnReadFrameNum
           v == nValidFrameNum
           c == nMaxFrameNum
<1>1. c \in Nat \ {0} /\ l \in Int /\ u \in Int /\ v \in Int
  BY RingAssumption, LenProperties DEF Basic, Types
<1>2. nReadPos = (l - u) % c
  <2>1. l - u + 1 - 1 = l - u
    BY <1>1
  <2> QED
    BY <2>1 DEF Ring, Counts, Place
<1>3. OldestPos = (nReadPos - (v - u)) % c
  BY DEF OldestPos
<1>4. Place(l - v + 1) = (l - v) % c
  BY <1>1 DEF Place
<1> HIDE DEF l, u, v, c
<1>5. OldestPos = (l - v) % c
  <2> DEFINE x == l - u
             y == 0 - (v - u)
             m == x % c
  <2>1. x \in Int /\ y \in Int /\ x + y = l - v /\ m \in Int
    BY <1>1, DivMod
  <2>2. (m + y) % c = (x + y) % c
    <3> HIDE DEF x, y
    <3> QED
      BY <1>1, <2>1, ModPlus
  <2>3. OldestPos = (m - (v - u)) % c
    BY <1>2, <1>3
  <2>4. m - (v - u) = m + y
    <3> HIDE DEF m
    <3> QED
      BY <1>1, <2>1
  <2> HIDE DEF x, y, m
  <2> QED
    BY <2>1, <2>2, <2>3, <2>4
<1>6. OldestPos = Place(l - v + 1)
  BY <1>4, <1>5
<1>7. ASSUME NEW i \in Int
      PROVE  (OldestPos + i - 1) % c = Place(l - v + i)
  <2>1. l - v + 1 \in Int /\ (l - v + 1) + i - 1 = l - v + i
    BY <1>1
  <2> QED
    BY <1>6, <2>1, PlaceAfter DEF c
<1> QED
  BY <1>6, <1>7, Zenon DEF l, v, c

LEMMA LiveRecords ==
  ASSUME Inv, NEW i \in 1 .. nValidFrameNum
  PROVE  LET n == Len(log) - nValidFrameNum + i
         IN  /\ Live[i] = pStreamInfos[Place(n)] /\ n \in LiveStreams
             /\ (OldestPos + i - 1) % nMaxFrameNum = Place(n)
             /\ IsRecordOf(Live[i], log, n)
             /\ Live[i].nStreamOffset = log[n].start % nStreamBufferSize
             /\ Live[i] \in StreamInfo
<1> USE DEF Inv
<1> DEFINE n == Len(log) - nValidFrameNum + i
<1>1. /\ Len(log) \in Nat /\ nValidFrameNum \in Nat /\ nValidFrameNum <= Len(log)
  BY LogFacts
<1>2. i \in Int /\ n \in Int /\ n \in LiveStreams
  BY <1>1 DEF LiveStreams
<1>3. (OldestPos + i - 1) % nMaxFrameNum = Place(n)
  BY <1>2, LivePlaces
<1>4. Live[i] = pStreamInfos[(OldestPos + i - 1) % nMaxFrameNum]
  BY DEF Live
<1>5. Live[i] = pStreamInfos[Place(n)]
  BY <1>3, <1>4
<1>6. IsRecordOf(pStreamInfos[Place(n)], log, n)
  BY <1>2 DEF Ring, Records, LiveStreams
<1>7. pStreamInfos[Place(n)].nStreamOffset = log[n].start % nStreamBufferSize
  BY <1>2 DEF Placed
<1>8. pStreamInfos[Place(n)] \in StreamInfo
  <2>1. Place(n) \in Positions
    BY <1>2, PlaceType
  <2> QED
    BY <2>1 DEF Basic, Types
<1> HIDE DEF n
<1>9. /\ Live[i] = pStreamInfos[Place(n)] /\ n \in LiveStreams
      /\ (OldestPos + i - 1) % nMaxFrameNum = Place(n)
      /\ IsRecordOf(Live[i], log, n)
      /\ Live[i].nStreamOffset = log[n].start % nStreamBufferSize
      /\ Live[i] \in StreamInfo
  BY <1>2, <1>3, <1>5, <1>6, <1>7, <1>8
<1> QED
  BY <1>9 DEF n

\* The live records are those of the latest streams, in the order of their
\* acceptance, with their places in the ring and in the buffer.
THEOREM OrderKept ==
  ASSUME WholeUnits
  PROVE  Spec => []LiveInOrder
<1>1. ASSUME Inv, NEW i \in 1 .. nValidFrameNum
      PROVE  LET n == Len(log) - nValidFrameNum + i
             IN  Live[i] = [nPts |-> n, nStreamLength |-> log[n].length,
                            nStreamOffset |-> log[n].start % nStreamBufferSize,
                            nID |-> (OldestPos + i - 1) % nMaxFrameNum]
  <2> DEFINE n == Len(log) - nValidFrameNum + i
             r == Live[i]
  <2>1. /\ r \in StreamInfo
        /\ r.nPts = n /\ r.nStreamLength = log[n].length
        /\ r.nStreamOffset = log[n].start % nStreamBufferSize
        /\ r.nID = (OldestPos + i - 1) % nMaxFrameNum
    BY <1>1, LiveRecords DEF IsRecordOf
  <2> HIDE DEF n, r
  <2>2. r = [nPts |-> n, nStreamLength |-> log[n].length,
             nStreamOffset |-> log[n].start % nStreamBufferSize,
             nID |-> (OldestPos + i - 1) % nMaxFrameNum]
    BY <2>1 DEF StreamInfo
  <2> QED
    BY <2>2 DEF n, r
<1>2. Inv => LiveInOrder
  BY <1>1 DEF LiveInOrder
<1> QED
  BY <1>2, InvHolds, PTL

\* No live stream is overwritten, neither by a stream that has been added nor
\* by what the hardware writes at the offset it read without the mutex.
THEOREM StreamsStayIntact ==
  ASSUME WholeUnits
  PROVE  Spec => []StreamsIntact
<1>1. ASSUME Inv, NEW i \in 1 .. nValidFrameNum,
             NEW u \in Units(Live[i].nStreamOffset, Live[i].nStreamLength)
      PROVE  memory[u] = Live[i].nPts
  <2> DEFINE n == Len(log) - nValidFrameNum + i
  <2>1. /\ n \in LiveStreams
        /\ Live[i].nPts = n /\ Live[i].nStreamLength = log[n].length
        /\ Live[i].nStreamOffset = log[n].start % nStreamBufferSize
    BY <1>1, LiveRecords DEF IsRecordOf
  <2> HIDE DEF n
  <2>2. u \in Units(log[n].start % nStreamBufferSize, log[n].length)
    BY <1>1, <2>1, Zenon
  <2> QED
    BY <1>1, <2>1, <2>2, Zenon DEF Inv, Written
<1>2. Inv => StreamsIntact
  BY <1>1 DEF StreamsIntact
<1> QED
  BY <1>2, InvHolds, PTL

-----------------------------------------------------------------------------
(* The bitstream manager implements the abstract tape.                     *)

\* Parts of sequences that agree as far as the parts go.
LEMMA SamePart ==
  ASSUME NEW S, NEW s \in Seq(S), NEW t \in Seq(S), NEW m \in Nat \ {0}, NEW n \in Nat,
         n <= Len(s), n <= Len(t), \A i \in 1 .. n : s[i] = t[i]
  PROVE  SubSeq(s, m, n) = SubSeq(t, m, n)
<1> DEFINE a == SubSeq(s, m, n)
           b == SubSeq(t, m, n)
<1>1. \A i \in m .. n : s[i] \in S /\ t[i] \in S
  BY ElementOfSeq, LenProperties
<1>2. /\ a \in Seq(S) /\ Len(a) = (IF m <= n THEN n - m + 1 ELSE 0)
      /\ \A i \in 1 .. n - m + 1 : a[i] = s[m + i - 1]
  BY <1>1, SubSeqProperties
<1>3. /\ b \in Seq(S) /\ Len(b) = (IF m <= n THEN n - m + 1 ELSE 0)
      /\ \A i \in 1 .. n - m + 1 : b[i] = t[m + i - 1]
  BY <1>1, SubSeqProperties
<1> HIDE DEF a, b
<1>4. \A i \in 1 .. Len(a) : i \in 1 .. n - m + 1 /\ m + i - 1 \in 1 .. n
  BY <1>2
<1>5. Len(a) = Len(b) /\ \A i \in 1 .. Len(a) : a[i] = b[i]
  BY <1>2, <1>3, <1>4
<1>6. a = b
  BY <1>2, <1>3, <1>5, SeqEqual
<1> QED
  BY <1>6 DEF a, b

\* A part that is one element longer.
LEMMA LongerPart ==
  ASSUME NEW S, NEW s \in Seq(S), NEW t \in Seq(S), NEW m \in Nat \ {0}, NEW n \in Nat,
         m <= n + 1, n <= Len(s), n + 1 <= Len(t), \A i \in 1 .. n : s[i] = t[i]
  PROVE  SubSeq(t, m, n + 1) = Append(SubSeq(s, m, n), t[n + 1])
<1> DEFINE a == SubSeq(s, m, n)
           b == SubSeq(t, m, n + 1)
           c == Append(a, t[n + 1])
<1>1. /\ \A i \in m .. n : s[i] \in S
      /\ \A i \in m .. n + 1 : t[i] \in S
      /\ t[n + 1] \in S
  BY ElementOfSeq, LenProperties
<1>2. /\ a \in Seq(S) /\ Len(a) = n - m + 1
      /\ \A i \in 1 .. n - m + 1 : a[i] = s[m + i - 1]
  BY <1>1, SubSeqProperties
<1>3. /\ b \in Seq(S) /\ Len(b) = n - m + 2
      /\ \A i \in 1 .. n - m + 2 : b[i] = t[m + i - 1]
  <2> DEFINE k == n + 1
  <2>1. k \in Int /\ m <= k /\ k - m + 1 = n - m + 2 /\ \A i \in m .. k : t[i] \in S
    BY <1>1
  <2> HIDE DEF k
  <2>2. /\ SubSeq(t, m, k) \in Seq(S) /\ Len(SubSeq(t, m, k)) = k - m + 1
        /\ \A i \in 1 .. k - m + 1 : SubSeq(t, m, k)[i] = t[m + i - 1]
    BY <2>1, SubSeqProperties
  <2> QED
    BY <2>1, <2>2 DEF k
<1> HIDE DEF a, b
<1>4. /\ c \in Seq(S) /\ Len(c) = Len(a) + 1 /\ c[Len(a) + 1] = t[n + 1]
      /\ \A i \in 1 .. Len(a) : c[i] = a[i]
  BY <1>1, <1>2, AppendProperties
<1> HIDE DEF c
<1>5. ASSUME NEW i \in 1 .. Len(b) PROVE b[i] = c[i]
  <2>1. CASE i = Len(a) + 1
    <3>1. m + i - 1 = n + 1
      BY <1>2, <2>1
    <3> QED
      BY <1>2, <1>3, <1>4, <2>1, <3>1
  <2>2. CASE i # Len(a) + 1
    <3>1. i \in 1 .. n - m + 1 /\ m + i - 1 \in 1 .. n
      BY <1>2, <1>3, <2>2
    <3> QED
      BY <1>2, <1>3, <1>4, <3>1
  <2> QED
    BY <2>1, <2>2
<1>6. Len(b) = Len(c)
  BY <1>2, <1>3, <1>4
<1>7. b = c
  BY <1>3, <1>4, <1>5, <1>6, SeqEqual
<1> QED
  BY <1>7 DEF a, b, c

\* What the mapping makes of a ring position: the stream recorded there.
LEMMA StreamAt ==
  ASSUME Inv, NEW n \in LiveStreams, NEW p, p % nMaxFrameNum = Place(n)
  PROVE  Stream(p) = log[n] /\ log[n] \in Stretch
<1>1. n \in 1 .. Len(log)
  BY LogFacts DEF Inv
<1>2. log[n] \in Stretch
  BY <1>1, ElementOfSeq DEF Inv, Basic, Types
<1>3. /\ pStreamInfos[Place(n)].nPts = n
      /\ pStreamInfos[Place(n)].nStreamLength = log[n].length
  BY DEF Inv, Ring, Records, IsRecordOf, LiveStreams
<1>4. Stream(p) = [start |-> log[n].start, length |-> log[n].length]
  BY <1>3, Zenon DEF Stream
<1> QED
  BY <1>2, <1>4 DEF Stretch

UnreadBar == [i \in 1 .. nUnReadFrameNum |-> Stream(nReadPos + i - 1)]
HeldBar == [i \in 1 .. nValidFrameNum - nUnReadFrameNum |-> Stream(OldestPos + i - 1)]

Parts ==
  /\ UnreadBar = SubSeq(log, Len(log) - nUnReadFrameNum + 1, Len(log))
  /\ HeldBar = SubSeq(log, Len(log) - nValidFrameNum + 1, Len(log) - nUnReadFrameNum)

\* The unread streams and those that are out are two consecutive parts of what
\* has been accepted.
LEMMA PartsHold == Inv => Parts
<1> SUFFICES ASSUME Inv PROVE Parts
  OBVIOUS
<1> DEFINE l == Len(log)
           u == nUnReadFrameNum
           v == nValidFrameNum
<1>1. /\ l \in Nat /\ u \in Nat /\ v \in Nat /\ u <= v /\ v <= l
      /\ nReadPos = Place(l - u + 1) /\ OldestPos = Place(l - v + 1)
      /\ \A n \in 1 .. l : log[n] \in Stretch
      /\ LiveStreams = l - v + 1 .. l
  BY RingAssumption, LenProperties, ElementOfSeq, LivePlaces
     DEF Inv, Basic, Types, Ring, Counts, LiveStreams
<1> HIDE DEF l, u, v
<1>2. ASSUME NEW f \in Nat, NEW k \in Nat, NEW p, f >= l - v, f + k <= l,
             p = Place(f + 1)
      PROVE  [i \in 1 .. k |-> Stream(p + i - 1)] = SubSeq(log, f + 1, f + k)
  <2> DEFINE a == [i \in 1 .. k |-> Stream(p + i - 1)]
             b == SubSeq(log, f + 1, f + k)
  <2>1. ASSUME NEW i \in 1 .. k
        PROVE  Stream(p + i - 1) = log[f + i] /\ log[f + i] \in Stretch
    <3>1. i \in Int /\ f + 1 \in Int /\ (f + 1) + i - 1 = f + i /\ f + i \in LiveStreams
      BY <1>1, <1>2
    <3>2. (p + i - 1) % nMaxFrameNum = Place(f + i)
      BY <1>2, <3>1, PlaceAfter
    <3> QED
      BY <3>1, <3>2, StreamAt
  <2>2. /\ a \in Seq(Stretch) /\ Len(a) = k
        /\ \A i \in 1 .. k : a[i] = log[f + i]
    <3>1. \A i \in 1 .. k : Stream(p + i - 1) \in Stretch
      BY <2>1
    <3>2. a \in Seq(Stretch)
      BY <1>2, <3>1, IsASeq
    <3> QED
      BY <2>1, <3>2
  <2>3. /\ b \in Seq(Stretch) /\ Len(b) = k
        /\ \A i \in 1 .. k : b[i] = log[f + i]
    <3> DEFINE m == f + 1
               n == f + k
    <3>1. /\ m \in Int /\ n \in Int /\ n - m + 1 = k /\ (m <= n \/ k = 0)
          /\ \A i \in m .. n : log[i] \in Stretch
          /\ \A i \in 1 .. k : m + i - 1 = f + i
      BY <1>1, <1>2
    <3> HIDE DEF m, n
    <3>2. /\ SubSeq(log, m, n) \in Seq(Stretch)
          /\ Len(SubSeq(log, m, n)) = IF m <= n THEN n - m + 1 ELSE 0
          /\ \A i \in 1 .. n - m + 1 : SubSeq(log, m, n)[i] = log[m + i - 1]
      BY <3>1, SubSeqProperties
    <3>3. Len(SubSeq(log, m, n)) = k
      BY <3>1, <3>2
    <3> QED
      BY <3>1, <3>2, <3>3 DEF m, n
  <2> HIDE DEF a, b
  <2>4. a = b
    BY <2>2, <2>3, SeqEqual
  <2> QED
    BY <2>4 DEF a, b
<1>3. UnreadBar = SubSeq(log, l - u + 1, l)
  <2> DEFINE f == l - u
  <2>1. /\ f \in Nat /\ u \in Nat /\ f >= l - v /\ f + u = l /\ f + u <= l
        /\ nReadPos = Place(f + 1)
    BY <1>1
  <2> HIDE DEF f
  <2>2. [i \in 1 .. u |-> Stream(nReadPos + i - 1)] = SubSeq(log, f + 1, f + u)
    BY <1>2, <2>1, Zenon
  <2> QED
    BY <2>1, <2>2 DEF UnreadBar, f, u
<1>4. HeldBar = SubSeq(log, l - v + 1, l - u)
  <2> DEFINE f == l - v
             k == v - u
  <2>1. /\ f \in Nat /\ k \in Nat /\ f >= l - v /\ f + k = l - u /\ f + k <= l
        /\ OldestPos = Place(f + 1)
    BY <1>1
  <2> HIDE DEF f, k
  <2>2. [i \in 1 .. k |-> Stream(OldestPos + i - 1)] = SubSeq(log, f + 1, f + k)
    BY <1>2, <2>1, Zenon
  <2> QED
    BY <2>1, <2>2 DEF HeldBar, f, k, u, v
<1> QED
  BY <1>3, <1>4 DEF Parts, l, u, v

\* What a step has to do to the two parts and the two ends of the tape.
LEMMA TapeMapping ==
  /\ ( /\ UnreadBar' = UnreadBar /\ HeldBar' = HeldBar
       /\ TapeBegin' = TapeBegin /\ TapeEnd' = TapeEnd )
       => [Fifo!Next]_(Fifo!vars)
  /\ ( \E x \in Lengths :
         /\ Len(UnreadBar) + Len(HeldBar) < nMaxFrameNum
         /\ TapeEnd + ALIGN_64B(x) - TapeBegin <= nStreamBufferSize
         /\ UnreadBar' = Append(UnreadBar, [start |-> TapeEnd, length |-> x])
         /\ TapeEnd' = TapeEnd + ALIGN_64B(x)
         /\ HeldBar' = HeldBar /\ TapeBegin' = TapeBegin )
       => [Fifo!Next]_(Fifo!vars)
  /\ ( /\ UnreadBar # <<>>
       /\ HeldBar' = Append(HeldBar, Head(UnreadBar)) /\ UnreadBar' = Tail(UnreadBar)
       /\ TapeBegin' = TapeBegin /\ TapeEnd' = TapeEnd )
       => [Fifo!Next]_(Fifo!vars)
  /\ ( /\ HeldBar # <<>>
       /\ TapeBegin' = Head(HeldBar).start + ALIGN_64B(Head(HeldBar).length)
       /\ HeldBar' = Tail(HeldBar)
       /\ UnreadBar' = UnreadBar /\ TapeEnd' = TapeEnd )
       => [Fifo!Next]_(Fifo!vars)
BY DEF Fifo!Next, Fifo!vars, Fifo!Add, Fifo!Deliver, Fifo!GiveBack, UnreadBar, HeldBar

\* The parts count as many streams as the counters say.
LEMMA PartLengths ==
  ASSUME Inv
  PROVE  /\ Len(log) \in Nat /\ nUnReadFrameNum \in Nat /\ nValidFrameNum \in Nat
         /\ nUnReadFrameNum <= nValidFrameNum /\ nValidFrameNum <= Len(log)
         /\ log \in Seq(Stretch)
         /\ Len(UnreadBar) = nUnReadFrameNum
         /\ Len(HeldBar) = nValidFrameNum - nUnReadFrameNum
<1>1. /\ Len(log) \in Nat /\ nUnReadFrameNum \in Nat /\ nValidFrameNum \in Nat
      /\ nUnReadFrameNum <= nValidFrameNum /\ nValidFrameNum <= Len(log)
      /\ log \in Seq(Stretch)
  BY RingAssumption, LenProperties DEF Inv, Basic, Types, Ring, Counts
<1> QED
  BY <1>1 DEF UnreadBar, HeldBar

LEMMA AddStep ==
  ASSUME WholeUnits, Inv, Inv', Parts, Parts', BitStreamAddOneBitstream
  PROVE  [Fifo!Next]_(Fifo!vars)
<1> DEFINE l == Len(log)
           u == nUnReadFrameNum
           v == nValidFrameNum
           x == info.nStreamLength
<1>1. /\ encPc = "add" /\ ~ ListFull /\ ~ TooLong
      /\ nValidFrameNum' = v + 1 /\ nUnReadFrameNum' = u + 1
      /\ nReadPos' = nReadPos
  BY DEF BitStreamAddOneBitstream
<1>2. /\ Len(log') = l + 1 /\ \A n \in 1 .. l : log'[n] = log[n]
      /\ log'[l + 1] = [start |-> TapeEnd, length |-> x]
      /\ TapeEnd' = TapeEnd + ALIGN_64B(x) /\ TapeBegin' = TapeBegin
      /\ TapeEnd \in Nat /\ TapeBegin \in Nat
  BY AddToTape DEF Inv
<1>3. /\ l \in Nat /\ u \in Nat /\ v \in Nat /\ u <= v /\ v <= l
      /\ log \in Seq(Stretch)
      /\ Len(UnreadBar) = u /\ Len(HeldBar) = v - u
  BY PartLengths
<1>4. log' \in Seq(Stretch)
  BY DEF Inv, Basic, Types
<1>5. x \in Lengths /\ x \in Nat \ {0} /\ v < nMaxFrameNum /\ nMaxFrameNum \in Nat
  <2>1. x \in Lengths /\ x \in Nat \ {0}
    BY <1>1, RingAssumption DEF Inv, Basic, Rooms
  <2>2. v < nMaxFrameNum /\ nMaxFrameNum \in Nat
    BY <1>1, <1>3, RingAssumption DEF ListFull
  <2> QED
    BY <2>1, <2>2
<1>6. TapeEnd + ALIGN_64B(x) - TapeBegin <= nStreamBufferSize
  <2>1. x <= nStreamBufferSize - nValidDataSize
    BY <1>1, <1>5, RingAssumption DEF TooLong, Inv, Basic, Types
  <2>2. /\ ALIGN_64B(x) \in 0 .. nStreamBufferSize
        /\ TapeEnd + ALIGN_64B(x) <= TapeBegin + nStreamBufferSize
    BY <1>5, <2>1, PaddedFits DEF Inv
  <2> QED
    BY <1>2, <2>2, RingAssumption
<1> HIDE DEF l, u, v, x
<1>7. /\ UnreadBar = SubSeq(log, l - u + 1, l)
      /\ HeldBar = SubSeq(log, l - v + 1, l - u)
      /\ UnreadBar' = SubSeq(log', l + 1 - (u + 1) + 1, l + 1)
      /\ HeldBar' = SubSeq(log', l + 1 - (v + 1) + 1, l + 1 - (u + 1))
  <2>1. /\ UnreadBar = SubSeq(log, Len(log) - nUnReadFrameNum + 1, Len(log))
        /\ HeldBar = SubSeq(log, Len(log) - nValidFrameNum + 1, Len(log) - nUnReadFrameNum)
    BY DEF Parts
  <2>2. /\ UnreadBar' = SubSeq(log', Len(log') - nUnReadFrameNum' + 1, Len(log'))
        /\ HeldBar' = SubSeq(log', Len(log') - nValidFrameNum' + 1,
                             Len(log') - nUnReadFrameNum')
    BY DEF Parts
  <2>3. Len(log') = l + 1 /\ nUnReadFrameNum' = u + 1 /\ nValidFrameNum' = v + 1
    BY <1>1, <1>2
  <2>4. /\ UnreadBar' = SubSeq(log', l + 1 - (u + 1) + 1, l + 1)
        /\ HeldBar' = SubSeq(log', l + 1 - (v + 1) + 1, l + 1 - (u + 1))
    BY <1>3, <2>2, <2>3
  <2> QED
    BY <2>1, <2>4 DEF l, u, v
<1>8. /\ l + 1 - (u + 1) + 1 = l - u + 1 /\ l - u + 1 \in Nat \ {0} /\ l - u + 1 <= l + 1
      /\ l + 1 - (v + 1) + 1 = l - v + 1 /\ l - v + 1 \in Nat \ {0}
      /\ l + 1 - (u + 1) = l - u /\ l - u \in Nat /\ l - u <= l /\ l - u <= l + 1
      /\ \A n \in 1 .. l - u : n \in 1 .. l
  BY <1>3
<1>9. UnreadBar' = Append(UnreadBar, [start |-> TapeEnd, length |-> x])
  <2>1. SubSeq(log', l - u + 1, l + 1) = Append(SubSeq(log, l - u + 1, l), log'[l + 1])
    <3> DEFINE m == l - u + 1
    <3>1. m \in Nat \ {0} /\ m <= l + 1 /\ l <= Len(log) /\ l + 1 <= Len(log')
      BY <1>2, <1>3, <1>8 DEF l
    <3> HIDE DEF m
    <3>2. \A n \in 1 .. l : log[n] = log'[n]
      BY <1>2
    <3>3. SubSeq(log', m, l + 1) = Append(SubSeq(log, m, l), log'[l + 1])
      BY <1>3, <1>4, <3>1, <3>2, LongerPart
    <3> QED
      BY <3>3 DEF m
  <2> QED
    BY <1>2, <1>7, <1>8, <2>1
<1>10. HeldBar' = HeldBar
  <2>1. SubSeq(log, l - v + 1, l - u) = SubSeq(log', l - v + 1, l - u)
    <3> DEFINE m == l - v + 1
               n == l - u
    <3>1. m \in Nat \ {0} /\ n \in Nat /\ n <= Len(log) /\ n <= Len(log')
          /\ \A i \in 1 .. n : log[i] = log'[i]
      BY <1>2, <1>8 DEF l
    <3> HIDE DEF m, n
    <3>2. SubSeq(log, m, n) = SubSeq(log', m, n)
      BY <1>3, <1>4, <3>1, SamePart
    <3> QED
      BY <3>2 DEF m, n
  <2> QED
    BY <1>7, <1>8, <2>1
<1>11. Len(UnreadBar) + Len(HeldBar) < nMaxFrameNum
  BY <1>3, <1>5
<1> QED
  BY <1>2, <1>5, <1>6, <1>9, <1>10, <1>11, TapeMapping

LEMMA GetStep ==
  ASSUME Inv, Inv', Parts, Parts', BitStreamGetOneBitstream
  PROVE  [Fifo!Next]_(Fifo!vars)
<1> DEFINE l == Len(log)
           u == nUnReadFrameNum
           v == nValidFrameNum
<1>1. /\ u # 0 /\ nUnReadFrameNum' = u - 1 /\ nValidFrameNum' = v /\ log' = log
  BY DEF BitStreamGetOneBitstream, NoneUnread
<1>2. /\ l \in Nat /\ u \in Nat /\ v \in Nat /\ u <= v /\ v <= l
      /\ log \in Seq(Stretch)
      /\ Len(UnreadBar) = u
  BY PartLengths
<1>3. TapeBegin' = TapeBegin /\ TapeEnd' = TapeEnd
  BY <1>1 DEF TapeBegin, TapeEnd
<1>4. /\ UnreadBar = SubSeq(log, l - u + 1, l)
      /\ HeldBar = SubSeq(log, l - v + 1, l - u)
      /\ UnreadBar' = SubSeq(log, l - (u - 1) + 1, l)
      /\ HeldBar' = SubSeq(log, l - v + 1, l - (u - 1))
  BY <1>1 DEF Parts
<1> DEFINE m == l - u + 1
           n == l - v + 1
           k == l - u
<1>5. /\ m \in 1 .. l /\ l \in m .. l /\ m + 1 = l - (u - 1) + 1
      /\ n \in Nat \ {0} /\ k \in Nat /\ n <= k + 1 /\ k + 1 <= l /\ k <= l
      /\ k + 1 = l - (u - 1) /\ k + 1 = m
  BY <1>1, <1>2
<1>6. l = Len(log)
  OBVIOUS
<1> HIDE DEF m, n, k, l, u, v
<1>7. /\ Head(SubSeq(log, m, l)) = log[m]
      /\ Tail(SubSeq(log, m, l)) = SubSeq(log, m + 1, l)
  BY <1>2, <1>5, <1>6, HeadTailOfSubSeq
<1>8. SubSeq(log, n, k + 1) = Append(SubSeq(log, n, k), log[k + 1])
  BY <1>2, <1>5, <1>6, LongerPart
<1>9. UnreadBar' = Tail(UnreadBar)
  BY <1>4, <1>5, <1>7 DEF m
<1>10. HeldBar' = Append(HeldBar, Head(UnreadBar))
  BY <1>4, <1>5, <1>7, <1>8 DEF m, n, k
<1>11. UnreadBar # <<>>
  BY <1>1, <1>2
<1> QED
  BY <1>3, <1>9, <1>10, <1>11, TapeMapping

LEMMA ReturnStep ==
  ASSUME Inv, Inv', Parts, Parts', BitStreamReturnOneBitstream
  PROVE  [Fifo!Next]_(Fifo!vars)
<1> DEFINE l == Len(log)
           u == nUnReadFrameNum
           v == nValidFrameNum
<1>1. /\ nUnReadFrameNum' = u /\ nValidFrameNum' = v - 1 /\ log' = log
      /\ appPc = "idle" /\ held # <<>>
  BY DEF BitStreamReturnOneBitstream
<1>2. /\ l \in Nat /\ u \in Nat /\ v \in Nat /\ u <= v /\ v <= l
      /\ log \in Seq(Stretch)
      /\ Len(HeldBar) = v - u
  BY PartLengths
<1>3. u < v
  <2>1. Len(held) = v - u /\ Len(held) \in Nat \ {0}
    BY <1>1, OldestHeld DEF Inv, Ring, Counts
  <2> QED
    BY <1>2, <2>1
<1>4. /\ UnreadBar = SubSeq(log, l - u + 1, l)
      /\ HeldBar = SubSeq(log, l - v + 1, l - u)
      /\ UnreadBar' = SubSeq(log, l - u + 1, l)
      /\ HeldBar' = SubSeq(log, l - (v - 1) + 1, l - u)
  BY <1>1 DEF Parts
<1> DEFINE n == l - v + 1
           k == l - u
<1>5. TapeEnd' = TapeEnd /\ TapeBegin' = log[n].start + ALIGN_64B(log[n].length)
  BY ReturnFromTape DEF Inv, End
<1>6. n \in 1 .. l /\ k \in n .. l /\ n + 1 = l - (v - 1) + 1
  BY <1>2, <1>3
<1>7. l = Len(log)
  OBVIOUS
<1> HIDE DEF n, k, l, u, v
<1>8. /\ Head(SubSeq(log, n, k)) = log[n]
      /\ Tail(SubSeq(log, n, k)) = SubSeq(log, n + 1, k)
  BY <1>2, <1>6, <1>7, HeadTailOfSubSeq
<1>9. HeldBar # <<>>
  BY <1>2, <1>3
<1>10. Head(HeldBar) = log[n] /\ HeldBar' = Tail(HeldBar)
  BY <1>4, <1>6, <1>8 DEF n, k
<1> QED
  BY <1>4, <1>5, <1>9, <1>10, TapeMapping

\* A step of the bitstream manager is one of the abstract tape, or none.
LEMMA FifoStep ==
  ASSUME WholeUnits, Inv, Inv', Parts, Parts', [Next]_vars
  PROVE  [Fifo!Next]_(Fifo!vars)
<1>1. ASSUME UNCHANGED <<ring, log>>
      PROVE  [Fifo!Next]_(Fifo!vars)
  <2>1. UnreadBar' = UnreadBar /\ HeldBar' = HeldBar
    BY <1>1 DEF ring, UnreadBar, HeldBar, Stream, OldestPos
  <2>2. TapeBegin' = TapeBegin /\ TapeEnd' = TapeEnd
    BY <1>1 DEF ring, TapeBegin, TapeEnd
  <2> QED
    BY <2>1, <2>2, TapeMapping
<1>2. CASE UNCHANGED vars
  BY <1>1, <1>2 DEF vars
<1>3. CASE EncoderStep
  BY <1>1, <1>3, AddStep
     DEF EncoderStep, ReadRoom, ReadOffset, HardwareWrite, HardwareFails, AddRejected
<1>4. CASE ApplicationStep
  BY <1>1, <1>4, GetStep, ReturnStep DEF ApplicationStep, ReadInfo
<1> QED
  BY <1>2, <1>3, <1>4 DEF Next

\* The bitstream manager implements BitstreamFifo: streams are delivered and
\* given back in the order of their acceptance, each once, and never more of
\* them, or more bytes, than the ring and the buffer hold are live.
THEOREM ImplementsFifo ==
  ASSUME WholeUnits
  PROVE  Spec => FifoSpec
<1>1. Init => Fifo!Init
  BY DEF Init, Fifo!Init, TapeBegin, TapeEnd
<1>2. WholeUnits /\ Inv /\ Inv' /\ Parts /\ Parts' /\ [Next]_vars => [Fifo!Next]_(Fifo!vars)
  BY FifoStep
<1> QED
  BY <1>1, <1>2, InvHolds, PartsHold, PTL DEF Spec, FifoSpec, Fifo!Spec
=============================================================================
