\* All lists of up to seven entries; the loops stop when they are done.
SPECIFICATION WalkSpec
CONSTANT MaxEntries = 7
CHECK_DEADLOCK FALSE
INVARIANTS
  ResultCoalesced
  TwiceOnlyOfThree
PROPERTIES
  LoopsEnd
