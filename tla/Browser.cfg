SPECIFICATION Spec
CHECK_DEADLOCK FALSE
CONSTANTS
  Tabs <- TwoTabs
  Scenarios <- Scenes
  Lines <- EngineLines
  MaxRuns = 1
  MaxRestarts = 1
INVARIANTS UndoRestores ChecksAgree RightsAreEarned SanRoundTrip AcknowledgedStays ReviewIsWhole
