SPECIFICATION FairSpec
CONSTANTS
  PHY_NUM = 2
  RX_FIFO_DEPTH = 11
  Touts = {2, 10}
  MaxTasks = 3
  MaxReports = 3
  MaxFlushes = 1
INVARIANTS
  TypeOK
  Aligned
PROPERTIES
  FreedOrOvertaken
  Dispatches
