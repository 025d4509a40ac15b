SPECIFICATION Spec
CONSTANTS
  Size = 3
  Count = 5
  HeadLen = 3
  Payloads <- MCPayloads
  MaxPkgs = 4
  MaxFaults = 1
CHECK_DEADLOCK FALSE
INVARIANT TypeOK
PROPERTIES
  Channel
  LocksOn
