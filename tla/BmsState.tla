------------------------------ MODULE BmsState ------------------------------
(***************************************************************************)
(* firmware/bms_ecu/src: bms_state.c and bms_limits.c, with the shared     *)
(* mc_bms_determine_state.  Temperatures are in tenths of a degree.        *)
(***************************************************************************)
EXTENDS Integers

FAULT_NONE == 0
FAULT_OVERTEMP == 1

BmsStates == {"OK", "WARN_HOT", "LIMP_REQUEST", "CRITICAL_FAULT"}

mc_bms_determine_state(temp) ==
  CASE temp >= 900 -> "CRITICAL_FAULT"
    [] temp \in 750..899 -> "LIMP_REQUEST"
    [] temp \in 600..749 -> "WARN_HOT"
    [] OTHER -> "OK"

bms_state_fault_code(state) ==
  IF state = "CRITICAL_FAULT" THEN FAULT_OVERTEMP ELSE FAULT_NONE

(* Fault: a critical pack is only limited to the limp torque. *)
limits_faulty(state) == IF state \in {"LIMP_REQUEST", "CRITICAL_FAULT"} THEN 25 ELSE 255

bms_limits_compute(state) ==
  CASE state = "LIMP_REQUEST" -> 25
    [] state = "CRITICAL_FAULT" -> 0
    [] OTHER -> 255
============================================================================
