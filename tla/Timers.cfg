SPECIFICATION FairSpec
CONSTANTS
  OneSec = 2
  Loads = {1, 2}
  IrqUsed = {0, 1}
INVARIANTS
  TypeOK
  Accurate
  ExpiryKept
  MaskLostToHandler
PROPERTY ProgramGoesOn
