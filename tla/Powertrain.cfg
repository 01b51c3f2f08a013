SPECIFICATION Spec
CONSTANTS
  TickModulus = 80
  LoopMs = 10
  TimerMs = 20
  HeartbeatMs = 40
  Timeout = 30
  Forced = "none"
  Throttles = {0, 60, 101}
  Limits = {0, 40, 255}
  Modes = {"DRIVE", "LIMP", "FAULT", "SERVICE"}
INVARIANTS MotorSafe WatchdogExact
