SPECIFICATION Spec
CONSTANTS
  Jobs = {j1, j2}
  NoJob = NoJob
  Coinbase = 1
  Merkles = 0
  Headers = 1
  Miners = {m1}
  NoTask = NoTask
  RetSize = 2
  WorkWords = 23
  TxThreshold = 1
  RxResults = 1
  IDLE_TIME = 1
  Modules = 4
  ModuleId = 1
  Word = 1
  Nonce2Offset = 0
  Nonce2Range = 0
  Faults = {}
  MaxLost = 1
  MaxSessions = 2
  MaxLocalWork = 1
INVARIANTS
  OneJob
  TypeOK
  StoppedMeansDrained
  WholeJob
  ShareMatchesJob
PROPERTY MinesForHost
SYMMETRY Symmetry
