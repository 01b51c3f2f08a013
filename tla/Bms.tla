-------------------------------- MODULE Bms --------------------------------
(***************************************************************************)
(* The BMS firmware, firmware/bms_ecu/src/main.c: an activation of bms_main*)
(* manages the calibration task, drains the bus and publishes; the         *)
(* calibration task runs between activations.  BMS_STATUS, the copy of the *)
(* sensor values with a sequence number, and traces are left out.          *)
(***************************************************************************)
EXTENDS BmsState, HeartbeatMonitor

CONSTANTS LoopMs, LimitsMs, HeartbeatMs,   \* 10, 50, 100
          CalibMs,                         \* three steps of 50 ms
          CalibFrom, CalibTo,              \* the restart window, 2000 to 2500
          Temps                            \* temperatures of PLANT_SENSORS frames

(* The loop period divides the duration of a calibration. *)
ASSUME BmsAssumption ==
  /\ LoopMs \in Nat \ {0} /\ LimitsMs \in Nat /\ HeartbeatMs \in Nat /\ CalibMs \in Nat
  /\ TickModulus \in Nat /\ LoopMs < TickModulus /\ Temps \subseteq Int
  /\ \E k \in 1..CalibMs : CalibMs = k * LoopMs

VARIABLES bs,          \* bms_state_t: state and fault code
          limit,       \* bms_limits_t.max_torque_percent
          published,   \* last_fault_published
          calib,       \* calibration task: ms left, or NoTask (no handle)
          calib_done,
          now,
          pc,          \* bms_main: "wait" for its tick, "drain", "done"
          faultFrame, limitsFrame,   \* payloads of the last BMS_FAULT and BMS_LIMITS
          silence,     \* real time since the last HEARTBEAT frame, capped
          steady       \* real time the state has been what it is, capped

vars == <<bs, limit, published, calib, calib_done, now, pc, faultFrame, limitsFrame,
          silence, steady>>

NoTask == -1

(* bms_init, and the static calibration requested at boot. *)
Init ==
  /\ bs = [state |-> "OK", fault_code |-> FAULT_NONE] /\ limit = 255
  /\ published = FAULT_NONE /\ calib = CalibMs /\ calib_done = FALSE
  /\ now = 0 /\ pc = "done" /\ faultFrame = FAULT_NONE /\ limitsFrame = 255
  /\ silence = 0 /\ steady = 0

SteadyCap == LimitsMs

After(age, cap) == IF age + LoopMs < cap THEN age + LoopMs ELSE cap

Tick ==
  /\ pc = "done" /\ calib # 0
  /\ now' = Plus(now, LoopMs) /\ pc' = "wait"
  /\ calib' = IF calib = NoTask THEN calib ELSE calib - LoopMs
  /\ silence' = After(silence, HeartbeatMs) /\ steady' = After(steady, SteadyCap)
  /\ UNCHANGED <<bs, limit, published, calib_done, faultFrame, limitsFrame>>

(* The last step of calibration_task, which deletes itself. *)
calibration_task ==
  /\ calib = 0 /\ pc # "drain"
  /\ calib' = NoTask /\ calib_done' = TRUE
  /\ UNCHANGED <<bs, limit, published, now, pc, faultFrame, limitsFrame, silence, steady>>

Restart == calib_done /\ calib = NoTask /\ now >= CalibFrom /\ now < CalibTo

(* Fault: a new calibration does not reset the flag of the last one. *)
start_faulty ==
  /\ pc = "wait" /\ pc' = "drain"
  /\ calib' = IF Restart THEN CalibMs ELSE calib
  /\ UNCHANGED <<bs, limit, published, calib_done, now, faultFrame, limitsFrame, silence, steady>>

(* bms_main wakes up and may call bms_request_calibration. *)
Start ==
  /\ pc = "wait" /\ pc' = "drain"
  /\ calib' = IF Restart THEN CalibMs ELSE calib
  /\ calib_done' = (calib_done /\ ~Restart)
  /\ UNCHANGED <<bs, limit, published, now, faultFrame, limitsFrame, silence, steady>>

(* Fault: a fault code is latched. *)
plant_sensors_faulty(temp) ==
  LET state == mc_bms_determine_state(temp)
  IN [state |-> state,
      fault_code |-> IF bs.fault_code = FAULT_NONE THEN bms_state_fault_code(state)
                     ELSE bs.fault_code]

(* bms_state_update and the re-assignment of OVERTEMP on a new critical state. *)
UpdatedState(temp) ==
  LET state == mc_bms_determine_state(temp)
  IN [state |-> state, fault_code |-> bms_state_fault_code(state)]

(* handle_plant_sensors on one frame of the drain; shorter frames are ignored. *)
PlantSensors(temp) ==
  /\ pc = "drain"
  /\ bs' = UpdatedState(temp) /\ limit' = bms_limits_compute(bs'.state)
  /\ steady' = IF bs'.state = bs.state THEN steady ELSE 0
  /\ UNCHANGED <<published, calib, calib_done, now, pc, faultFrame, limitsFrame, silence>>

(* Fault: the heartbeat shares the fault frame's condition. *)
publish_faulty ==
  /\ pc = "drain" /\ pc' = "done"
  /\ limitsFrame' = IF now % LimitsMs = 0 THEN limit ELSE limitsFrame
  /\ faultFrame' = IF bs.fault_code # published THEN bs.fault_code ELSE faultFrame
  /\ published' = bs.fault_code
  /\ silence' = IF now % HeartbeatMs = 0 /\ bs.fault_code # published THEN 0 ELSE silence
  /\ UNCHANGED <<bs, limit, calib, calib_done, now, steady>>

(* The bus is drained: limits, fault on change, heartbeat. *)
Publish ==
  /\ pc = "drain" /\ pc' = "done"
  /\ limitsFrame' = IF now % LimitsMs = 0 THEN limit ELSE limitsFrame
  /\ faultFrame' = IF bs.fault_code # published THEN bs.fault_code ELSE faultFrame
  /\ published' = bs.fault_code
  /\ silence' = IF now % HeartbeatMs = 0 THEN 0 ELSE silence
  /\ UNCHANGED <<bs, limit, calib, calib_done, now, steady>>

Next == Tick \/ calibration_task \/ Start \/ Publish \/ \E t \in Temps : PlantSensors(t)

Spec == Init /\ [][Next]_vars /\ WF_vars(Tick \/ calibration_task \/ Start \/ Publish)

----------------------------------------------------------------------------

(* Types; the clock stays below its modulus and a calibration ends on time. *)
TypeOK ==
  /\ bs \in [state : BmsStates, fault_code : {FAULT_NONE, FAULT_OVERTEMP}]
  /\ limit \in {0, 25, 255} /\ calib \in {NoTask} \cup 0..CalibMs /\ calib_done \in BOOLEAN
  /\ now \in 0..(TickModulus - 1) /\ steady \in 0..SteadyCap
  /\ silence \in 0..HeartbeatMs

(* When an activation ends, the last BMS_FAULT frame says OVERTEMP exactly if
   the pack is critical, although frames are sent only on a change and the
   state may flap within a drain. *)
FaultFrameCurrent ==
  pc # "drain" => (faultFrame = FAULT_OVERTEMP <=> bs.state = "CRITICAL_FAULT")

(* A pack that has been critical for a publishing period has told the
   powertrain to stop, one in limp to stay at 25%, a cool one nothing: the
   periodic BMS_LIMITS frame is at most one period behind the state. *)
LimitsFollowState ==
  pc # "drain" /\ steady >= LimitsMs =>
    /\ bs.state = "CRITICAL_FAULT" => limitsFrame = 0
    /\ bs.state = "LIMP_REQUEST" => limitsFrame = 25
    /\ bs.state \in {"OK", "WARN_HOT"} => limitsFrame = 255

(* A calibration completes, and none runs once one is done. *)
CalibrationCompletes ==
  /\ [](calib_done => calib = NoTask)
  /\ [](calib # NoTask => <>calib_done)

(* common/include/microcar_safety.h, MC_SAFETY_HEARTBEAT_INTERVAL_MS: every ECU sends
   a heartbeat every 100 ms.  bms_main sends it when now_ms % 100 = 0, which
   keeps the period only while the clock advances through multiples of 10. *)
HeartbeatKept == pc = "done" => silence < HeartbeatMs
============================================================================
