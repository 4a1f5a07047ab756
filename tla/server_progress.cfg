SPECIFICATION FairSpec
CONSTANTS
  NullKey <- NobodysKey
  PhysicalButtons <- Nothing
  QueueLimit = 2
  EventLimit = 1
  ResetLimit = 1
  Peers = {p}
  ClickButton = 1
  Holds <- OneHold
  Moving <- Still
  Counts = {1}
  CommandLimit = 1
  ClickLimit = 1
  RecordLimit = 1
  PacketLimit = 1
PROPERTIES ReleaseCompletes CommandsEnd SilenceReleases
