SPECIFICATION FairSpec
CONSTANTS
  CntWidth = 4
  FeedValue = 10
PROPERTY StuckIsReset
CHECK_DEADLOCK FALSE
