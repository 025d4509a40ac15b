SPECIFICATION FairSpec
CONSTANTS
  Size = 4
  FifoDepth = 2
  MaxBytes = 9
INVARIANTS
  TypeOK
  ReadsOldest
PROPERTIES
  RingIsQueue
  InOrder
  NoByteForgotten
