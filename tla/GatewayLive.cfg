SPECIFICATION Spec
CONSTANTS
  TickModulus = 40
  FM_MAX_FAULTS = 16
  Monitored <- TwoNodes
  LoopMs = 10
  Timeout = 20
  HeartbeatMs = 40
  ModeMs = 20
  QueueLen = 2
  Scripts <- Unscripted
  ScriptTick = 10
  BmsCodes = {1}
  Services = {"START_SESSION", "END_SESSION"}
  MayReboot = FALSE
PROPERTIES CriticalLeadsToFault ReadyWhenHealthy
