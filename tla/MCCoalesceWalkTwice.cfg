\* Three free entries in a row, the middle one just freed, are enough.
SPECIFICATION WalkSpec
CONSTANT MaxEntries = 3
CHECK_DEADLOCK FALSE
INVARIANTS
  FreedOnce
