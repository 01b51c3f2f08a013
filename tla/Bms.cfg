SPECIFICATION Spec
CONSTANTS
  TickModulus = 200
  LoopMs = 10
  LimitsMs = 20
  HeartbeatMs = 40
  CalibMs = 30
  CalibFrom = 100
  CalibTo = 120
  Temps = {250, 600, 750, 899, 900}
INVARIANTS FaultFrameCurrent LimitsFollowState 
PROPERTY CalibrationCompletes
