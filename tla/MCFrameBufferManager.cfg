\* One encoding thread, as in demo/VideoTest.c, with several threads that
\* submit and collect; three frames through two slots, so that slots are used
\* again.
SPECIFICATION FairSpec
CONSTANTS
  Feeders = {f1, f2}
  Encoders = {e1}
  Collectors = {c1, c2}
  NoThread = NoThread
  BufferIDs = {0, 1}
  num = 2
  MaxFrames = 3
INVARIANTS
  SlotsDisjoint
  NoSlotLost
  PointerFresh
  EncodedExactlyOnce
  HandBackIntact
  HandedBackOnce
PROPERTIES
  PipelineSpec
  EveryFrameHandedBack
