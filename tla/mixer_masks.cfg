SPECIFICATION Spec
CONSTANTS
  Buttons = {1}
  BootButtons = {1}
  FieldMin <- MinusOne
  FieldMax = 1
  MaxParts = 3
  MaxSynthetic = 2
  MaxEvents = 1
  MaxFifo = 1
  Programs = {"proxy"}
  Commands <- HoldCommands
  PhysicalReports <- IdleReports
  MaxItems = 1
  MaxPhysical = 1
  MaxGenerations = 1
INVARIANTS MasksDescribeLastWrite
