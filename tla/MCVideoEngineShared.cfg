\* Two contexts: one becomes live, and the other one's creation fails.
SPECIFICATION Spec
CONSTANTS
  Contexts = {c1, c2}
  Blocks = {b1, b2}
INVARIANTS
  MemoryStaysOpen
