\* Three contexts that come and go: what holds for any number of them.
SPECIFICATION Spec
CONSTANTS
  Contexts = {c1, c2, c3}
  Blocks = {b1, b2}
INVARIANTS
  EngineServesUsers
  NothingLeftOpen
PROPERTIES
  EngineResetAlone
