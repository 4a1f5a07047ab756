SPECIFICATION MoveSpec
CONSTANTS
  NullKey <- NobodysKey
  PhysicalButtons = {1}
  QueueLimit = 2
  EventLimit = 1
  ResetLimit = 1
  Peers = {p}
  ClickButton = 1
  Holds <- NoHold
  Moving <- Still
  Counts <- Nothing
  CommandLimit = 1
  ClickLimit = 1
  RecordLimit = 1
  PacketLimit = 2
  Requests <- ClickOnly
INVARIANTS CancelReleasesPress
