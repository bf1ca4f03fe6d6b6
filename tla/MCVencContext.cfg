\* VideoTest for three rounds, AWJpecEnc in both forms, and a client that calls in
\* any order; up to two plugins with two codecs to register.
CONSTANTS
  CodecTypes = {H264, JPEG}
  Devices = {dev1, dev2}
  NULL = NULL
  MaxEntries = 2
  FRAME_BUFFER_NUM = 2
  nBufferNum = 2
  testNumber = 3
  MaxFrames = 2
SPECIFICATION Spec
INVARIANTS
  RegisteredFound
  NothingLeft
  RoundComplete
  StreamsAccounted
  FileComplete
PROPERTY DeviceSpec
