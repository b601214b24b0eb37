SPECIFICATION FairSpec
CONSTANTS
  MaxMessages = 1
  MaxPackets = 1
PROPERTIES
  ClosedLater
CHECK_DEADLOCK FALSE
