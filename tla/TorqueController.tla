-------------------------- MODULE TorqueController --------------------------
(***************************************************************************)
(* firmware/powertrain_ecu/src: torque_controller.c and safety_rules.c,    *)
(* and the shared mc_safety_clamp_torque.  tc is torque_controller_t;      *)
(* gear is stored by the code and never used.                              *)
(***************************************************************************)
EXTENDS Integers

MC_TORQUE_LIMP_MAX_PERCENT == 25

safety_throttle_invalid(throttle) == throttle > 100

safety_mode_blocks_torque(mode) == mode \notin {"DRIVE", "LIMP"}

safety_limp_torque_cap(mode) == IF mode = "LIMP" THEN MC_TORQUE_LIMP_MAX_PERCENT ELSE 255

Lower(a, b) == IF a < b THEN a ELSE b

NonNegative(x) == IF x < 0 THEN 0 ELSE x

safety_clamp_torque(requested, mode, brake, limit) ==
  IF brake \/ safety_mode_blocks_torque(mode) THEN 0
  ELSE Lower(NonNegative(requested),
             Lower(limit, Lower(safety_limp_torque_cap(mode), 100)))

(* The copy in common/src/microcar_protocol.c. *)
mc_safety_clamp_torque(requested, mode, brake, limit) ==
  IF brake \/ mode \notin {"DRIVE", "LIMP"} THEN 0
  ELSE LET mode_max == IF mode = "LIMP" THEN MC_TORQUE_LIMP_MAX_PERCENT ELSE 100
       IN Lower(NonNegative(requested), Lower(limit, mode_max))

torque_controller_init ==
  [throttle |-> 0, brake |-> FALSE, mode |-> "OFF", limit |-> 255,
   torque |-> 0, motor_enable |-> TRUE]

Commanded(tc, torque, enable) ==
  [throttle |-> tc.throttle, brake |-> tc.brake, mode |-> tc.mode, limit |-> tc.limit,
   torque |-> torque, motor_enable |-> enable]

(* Fault: an invalid throttle is clamped instead of refused. *)
compute_faulty(tc) ==
  Commanded(tc, safety_clamp_torque(tc.throttle, tc.mode, tc.brake, tc.limit),
            ~safety_mode_blocks_torque(tc.mode))

torque_controller_compute(tc) ==
  IF safety_throttle_invalid(tc.throttle) THEN Commanded(tc, 0, FALSE)
  ELSE IF safety_mode_blocks_torque(tc.mode)
  THEN Commanded(tc, safety_clamp_torque(tc.throttle, tc.mode, tc.brake, tc.limit), FALSE)
  ELSE Commanded(tc, safety_clamp_torque(tc.throttle, tc.mode, tc.brake, tc.limit), TRUE)
============================================================================
