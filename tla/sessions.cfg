SPECIFICATION TrafficSpec
CONSTANTS
  Sessions = {a, b}
  Commands <- TwoCommands
  MaxActive = 1
  MaxRetired = 1
  RecordLimit = 2
  EventLimit = 3
  Controllers = {p, q, r}
  MaxPeers = 2
  Half = 3
  Delay = 3
  SnapshotLimit = 8
SYMMETRY ClientSymmetry
INVARIANTS OutcomeStands MoveStartsOnce StaleWasAccepted ReleaseFences LatestIsTaken
PROPERTIES NeverAcceptedTwice SnapshotsAdvance
CHECK_DEADLOCK FALSE
