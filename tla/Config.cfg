\* Files with at most two entries; U32 stands for 2^32, which TLC has no number for.
CONSTANTS
  U8 = 256
  U16 = 65536
  U32 = 1000000
  Numbers <- Boundaries
  Texts = {"in_memory", "postgre", "443"}
  MaxEntries = 2
SPECIFICATION Spec
CHECK_DEADLOCK FALSE
INVARIANTS
  TypeOK
  ValuesArrive
