\* Five pages of 4 bytes; addresses and sizes in bytes.  Requests of less than
\* a page, of exactly a page and of more; one virtual address more than pages.
SPECIFICATION Spec
CONSTANTS
  PAGE_SIZE = 4
  PhysStart = 8
  PhysTotal = 20
  VirtPages = {64, 68, 72, 76, 80, 84}
  Sizes = {1, 4, 5, 12}
INVARIANTS
  Tiled
  NoFalseShortage
  TranslationsInverse
PROPERTIES
  PoolSpec
