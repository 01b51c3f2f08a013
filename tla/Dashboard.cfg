SPECIFICATION Spec
CONSTANTS
  DASHBOARD_MAX_WARNINGS = 2
  WaitMs = 20
  RenderMs = 40
  LoopMs = 10
  Warnings = {"CRITICAL_BMS_FAULT", "BMS_OVERTEMP", "CHARGER_PLUGGED"}
  Nodes = {1, 2}
  Modes = {"READY"}
  OtaStates = {"HEALTHY"}
  MayClear = TRUE
INVARIANTS WorstIsDisplayed TableConsistent 
