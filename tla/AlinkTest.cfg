SPECIFICATION TestSpec
CONSTANTS
  PHY_NUM = 3
  RX_FIFO_DEPTH = 11
  Touts = {4, 12, 36}
  TestTout = 4
  IdleTout = 36
  Delay = 8
  Tests = 2
  MaxTasks = 10
  MaxWorks = 2
  MaxReports = 1
  MaxFlushes = 0
PROPERTIES
  GatesAll
  OnlyFirstStrays
