\* Three threads: one in the engine lock, one that sets fields without it, one
\* that comes and goes.
SPECIFICATION Spec
CONSTANT Threads = {t1, t2, t3}
INVARIANTS
  DramTypeSet
  EncoderStaysEnabled
