SPECIFICATION FairSpec
CONSTANTS
  Lengths = {12, 55, 56, 64, 119, 120, 128}
  Prefixes = {0, 64}
INVARIANTS
  TypeOK
  Correct
  WaitsForItsBlock
PROPERTY CallReturns
