\* Four pages of a DRAM whose first page is not given: two begin below the offset of
\* the chip 0x1639, the third between the two offsets, the last beyond both.
\* Addresses for four pages, blocks of one and two pages, two handle values.
SPECIFICATION Spec
CONSTANTS
  PAGE_SIZE = 4
  MEM_OFFSET = 16
  OFFT_1639 = 10
  DramPages = {20, 24, 28, 32}
  VirtPages = {40, 44, 48, 52}
  Sizes = {3, 5}
  Handle = {1, 2}
INVARIANTS
  HeldExclusive
  NothingLeftBehind
  TranslationsInverse
