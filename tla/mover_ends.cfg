SPECIFICATION MoveFairSpec
CONSTANTS
  NullKey <- NobodysKey
  PhysicalButtons = {1}
  QueueLimit = 1
  EventLimit = 1
  ResetLimit = 1
  Peers = {p}
  ClickButton = 1
  Holds <- NoHold
  Moving = {TRUE}
  Counts <- Nothing
  CommandLimit = 1
  ClickLimit = 1
  RecordLimit = 1
  PacketLimit = 1
  Requests <- ClickOnly
INVARIANTS CompletedHappened
PROPERTIES TransactionEnds
