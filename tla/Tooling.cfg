SPECIFICATION Spec
CONSTANTS
  Ids = {0, 1, 2}
  TickMs = 10
  Scenarios <- MCScenarios
  Frames <- MCFrames
  Inputs <- MCInputs
  Temps = {0, 90, 5000}
  ZephyrFeature = TRUE
  MaxFrames = 4
  MaxEvents = 4
  MaxTime = 3
  MIN_EXPECTED_RECORDS = 2
  LaneLines <- MCLaneLines
  LaneLength <- MCLaneLength
  FixedLines <- MCFixedLines
  FixedLength <- MCFixedLength
  PipeLines = 1
  TAIL_LINES = 2
  Repeats = 2
  Programs <- MCPrograms
  LineOf <- MCLineOf
  Normalized <- MCNormalized
  Directives <- MCDirectives
INVARIANTS AcceptedFramesOrdered BootsValidatedImage PlantTracksInput RunVerdictTruthful HarnessExitTruthful LaneVerdictExact SeedsSeparateFirmware
PROPERTY RunnerReturns
CHECK_DEADLOCK FALSE
