SPECIFICATION Spec
VIEW WithoutOut
CONSTANTS
  TickModulus = 40
  FM_MAX_FAULTS = 16
  Monitored <- TwoNodes
  LoopMs = 10
  Timeout = 20
  HeartbeatMs = 40
  ModeMs = 20
  QueueLen = 2
  Scripts <- AllScripts
  ScriptTick = 100
  BmsCodes = {1}
  Services = {"START_SESSION", "END_SESSION", "CLEAR_DTCS"}
  MayReboot = TRUE
INVARIANTS SessionExcludesDrive DriveNeedsAllOnline
PROPERTIES CriticalIsBroadcast FaultLeftThroughService OnlyBmsCleared ChargingBlocksDrive
