SPECIFICATION FairSpec
CONSTANTS
  Buttons = {1}
  BootButtons = {1}
  FieldMin <- MinusOne
  FieldMax = 1
  MaxParts = 3
  MaxSynthetic = 2
  MaxEvents = 1
  MaxFifo = 1
  Programs = {"proxy"}
  Commands <- FitlessCommands
  PhysicalReports <- FitlessReports
  MaxItems = 2
  MaxPhysical = 4
  MaxGenerations = 1
INVARIANTS TypeOK OvertakenOnce
PROPERTIES QueueDrains PhysicalDrains
