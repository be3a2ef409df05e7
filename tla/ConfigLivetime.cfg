\* One entry is enough.
CONSTANTS
  U8 = 256
  U16 = 65536
  U32 = 1000000
  Numbers <- Boundaries
  Texts = {"in_memory", "postgre", "443"}
  MaxEntries = 1
SPECIFICATION Spec
CHECK_DEADLOCK FALSE
INVARIANT LivetimeArrives
