SPECIFICATION MirrorSpec
CONSTANTS
  Parts = {"faults", "heartbeats", "mode", "torque", "watchdog", "bms", "warnings"}
  Node = {2, 3}
  Code = {1, 2, 3}
  Severity <- MCSeverity
  FM_MAX_FAULTS = 4
  TickModulus = 16
  Monitored <- MCMonitored
  Period = 3
  Timeout = 7
  DASHBOARD_MAX_WARNINGS = 2
  Throttles = {0, 60, 101}
  Limits = {0, 40, 255}
  Temps <- MCTemps
  Warnings = {"CRITICAL_BMS_FAULT", "BMS_OVERTEMP", "CHARGER_PLUGGED"}
  Sources = {1, 2}
INVARIANTS TableIsLiveSet CountersExact OnlineIffRecent GatewayMirrorAgrees EcuMirrorAgrees
