SPECIFICATION FairSpec
CONSTANTS
  MaxMessages = 2
  MaxPackets = 2
INVARIANTS
  WireInOrder
  GracefulDrains
PROPERTIES
  LifeSpec
  SilentClientReleased
CHECK_DEADLOCK FALSE
