SPECIFICATION Spec
CONSTANTS
  NullKey <- NobodysKey
  PhysicalButtons = {1}
  QueueLimit = 2
  EventLimit = 1
  ResetLimit = 1
  Peers = {p}
  ClickButton = 1
  Holds <- Nothing
  Moving <- Still
  Counts = {1, 2}
  CommandLimit = 1
  ClickLimit = 1
  RecordLimit = 1
  PacketLimit = 1
INVARIANTS ClicksHappened
