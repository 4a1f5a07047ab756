SPECIFICATION Spec
CONSTANTS
  Buttons = {1, 2}
  BootButtons = {1}
  FieldMin <- MinusOne
  FieldMax = 1
  MaxParts = 3
  MaxSynthetic = 2
  MaxEvents = 1
  MaxFifo = 1
  Programs = {"proxy", "replay"}
  Commands <- RefinedCommands
  PhysicalReports <- RefinedReports
  MaxItems = 2
  MaxPhysical = 1
  MaxGenerations = 3
INVARIANTS InflightHeld AcceptedStaysEncodable StandaloneKeepsPhysical
PROPERTIES ImplementsOutput WriterLeavesNothingUndone
