SPECIFICATION MoveSpec
CONSTANTS
  NullKey <- NobodysKey
  PhysicalButtons <- Nothing
  QueueLimit = 2
  EventLimit = 1
  ResetLimit = 1
  Peers = {p}
  ClickButton = 1
  Holds <- NoHold
  Moving <- Still
  Counts <- Nothing
  CommandLimit = 1
  ClickLimit = 1
  RecordLimit = 1
  PacketLimit = 2
  Requests <- Both
INVARIANTS MoveTypeOK LedgerHonest NeverOvershoots CompletedHappened PressIsReleased PendingIsUnderway GuardedIsOwned
PROPERTIES OutcomeIsFinal
