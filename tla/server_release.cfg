SPECIFICATION FairSpec
CONSTANTS
  NullKey <- NobodysKey
  PhysicalButtons <- Nothing
  QueueLimit = 2
  EventLimit = 1
  ResetLimit = 2
  Peers = {p}
  ClickButton = 1
  Holds <- NoHold
  Moving <- Still
  Counts = {1}
  CommandLimit = 0
  ClickLimit = 1
  RecordLimit = 1
  PacketLimit = 2
PROPERTIES ReleaseCompletes
