SPECIFICATION Spec
CONSTANTS
  Clients = {c1, c2}
  MaxNum = 3
INVARIANTS
  BuffersConserved
  NoMemoryLeft
  BuffersComplete
