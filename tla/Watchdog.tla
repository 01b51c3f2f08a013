------------------------------ MODULE Watchdog ------------------------------
(***************************************************************************)
(* firmware/powertrain_ecu/src/watchdog_task.c: what the powertrain knows  *)
(* of the gateway's heartbeat, as operators on watchdog_task_t.            *)
(***************************************************************************)
EXTENDS HeartbeatMonitor

CONSTANT Timeout    \* MC_SAFETY_GATEWAY_TIMEOUT_MS, 250

watchdog_init == [last |-> 0, online |-> FALSE, torque_disabled |-> FALSE]

watchdog_gateway_beat(t) == [last |-> t, online |-> TRUE, torque_disabled |-> FALSE]

(* Fault: the last beat is compared with the clock, not with its age. *)
watchdog_check_faulty(w, t) ==
  IF w.online /\ t < w.last + Timeout
  THEN [last |-> w.last, online |-> TRUE, torque_disabled |-> FALSE]
  ELSE [last |-> w.last, online |-> FALSE, torque_disabled |-> TRUE]

watchdog_check(w, t) ==
  IF w.online /\ Minus(t, w.last) < Timeout
  THEN [last |-> w.last, online |-> TRUE, torque_disabled |-> FALSE]
  ELSE [last |-> w.last, online |-> FALSE, torque_disabled |-> TRUE]
============================================================================
