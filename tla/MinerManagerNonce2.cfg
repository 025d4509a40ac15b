SPECIFICATION Spec
CONSTANTS
  Jobs = {j1}
  NoJob = NoJob
  Coinbase = 1
  Merkles = 0
  Headers = 1
  Miners = {m1}
  NoTask = NoTask
  RetSize = 2
  WorkWords = 23
  TxThreshold = 24
  RxResults = 0
  IDLE_TIME = 1
  Modules = 4
  ModuleId = 1
  Word = 16
  Nonce2Offset = 12
  Nonce2Range = 15
  Faults = {}
  MaxLost = 0
  MaxSessions = 2
  MaxLocalWork = 1
INVARIANTS
  Nonce2Fresh
  StaleBound
  OwnPartition
