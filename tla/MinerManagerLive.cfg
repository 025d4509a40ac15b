SPECIFICATION FairSpec
CONSTANTS
  Jobs = {j1}
  NoJob = NoJob
  Coinbase = 1
  Merkles = 0
  Headers = 1
  Miners = {m1}
  NoTask = NoTask
  RetSize = 3
  WorkWords = 23
  TxThreshold = 24
  RxResults = 1
  IDLE_TIME = 2
  Modules = 4
  ModuleId = 1
  Word = 1
  Nonce2Offset = 0
  Nonce2Range = 0
  Faults = {"test", "heat", "death"}
  MaxLost = 0
  MaxSessions = 1
  MaxLocalWork = 3
PROPERTIES
  RingIsQueue
  SilenceStops
  HeatPowersOff
