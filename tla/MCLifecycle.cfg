CONSTANTS
  Address = {a1, a2}
  NULL = NULL
  Chunks = 2
  Abi = {"same", "other"}
  FifoSize = 3
  MaxInits = 4
SPECIFICATION FairSpec
INVARIANTS LiveMemoryOnly ReadyAgrees
PROPERTY CallsReturn
