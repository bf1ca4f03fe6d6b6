\* Four 64 byte units and a ring of three records: both fill up and wrap round.
SPECIFICATION FairSpec
CONSTANTS
  nStreamBufferSize = 256
  nMaxFrameNum = 3
  Lengths = {1, 64, 65, 200}
  MaxStreams = 5
INVARIANTS
  Accounting
  LiveInOrder
  StreamsIntact
  HeldInfoStable
  RoomSuffices
PROPERTIES
  FifoSpec
  EveryStreamGivenBack
