----------------------------- MODULE Powertrain -----------------------------
(***************************************************************************)
(* The powertrain firmware, firmware/powertrain_ecu/src/main.c: the main   *)
(* loop and the software timer that watches the gateway's heartbeat        *)
(* (watchdog_task.c).  An activation of powertrain_main drains the bus and *)
(* then commands the motor; the timer callback runs between activations,   *)
(* before or after the one of the same tick.  The transmit semaphore always*)
(* has a free slot; the sensor, deadline and logger tasks only trace.      *)
(***************************************************************************)
EXTENDS TorqueController, Watchdog

CONSTANTS LoopMs,        \* 10
          TimerMs,       \* 50
          HeartbeatMs,   \* 100
          Forced,        \* mode the firmware variant forces, or "none"
          Throttles, Limits, Modes   \* what the frames of the bus carry

ASSUME PowertrainAssumption ==
  /\ Throttles \subseteq 0..255 /\ Limits \subseteq 0..255
  /\ LoopMs \in Nat \ {0} /\ TimerMs \in Nat \ {0} /\ Timeout \in Nat \ {0}
  /\ TickModulus \in Nat /\ TickModulus > Timeout + TimerMs + LoopMs

VARIABLES tc,      \* torque_controller_t
          wd,      \* watchdog_task_t
          now,     \* xTaskGetTickCount() * portTICK_PERIOD_MS
          pc,      \* powertrain_main: "wait" for its tick, "drain", "done"
          due,     \* the timer expires at this tick and has not run
          motor,   \* the last MOTOR_COMMAND frame
          out,     \* ids of the frames sent by the last activation
          silence, \* real time since the last gateway beat, or since boot
          heard    \* the gateway has beaten

vars == <<tc, wd, now, pc, due, motor, out, silence, heard>>

WithInput(c, throttle, brake) ==
  [throttle |-> throttle, brake |-> brake, mode |-> c.mode, limit |-> c.limit,
   torque |-> c.torque, motor_enable |-> c.motor_enable]

WithMode(c, mode) ==
  [throttle |-> c.throttle, brake |-> c.brake, mode |-> mode, limit |-> c.limit,
   torque |-> c.torque, motor_enable |-> c.motor_enable]

WithLimit(c, limit) ==
  [throttle |-> c.throttle, brake |-> c.brake, mode |-> c.mode, limit |-> limit,
   torque |-> c.torque, motor_enable |-> c.motor_enable]

(* The variants that force a mode also force 80% throttle. *)
ForcedInput(c) == IF Forced = "none" THEN c ELSE WithMode(WithInput(c, 80, FALSE), Forced)

(* The boot heartbeat carries no motor command; the motor is idle before. *)
Init ==
  /\ tc = ForcedInput(torque_controller_init) /\ wd = watchdog_init
  /\ now = 0 /\ pc = "done" /\ due = FALSE
  /\ motor = [torque |-> 0, enable |-> FALSE] /\ out = {"HEARTBEAT"}
  /\ silence = 0 /\ heard = FALSE

SilenceCap == Timeout + TimerMs

Tick ==
  /\ pc = "done" /\ ~due
  /\ now' = Plus(now, LoopMs) /\ pc' = "wait" /\ due' = (now' % TimerMs = 0)
  /\ silence' = IF silence + LoopMs < SilenceCap THEN silence + LoopMs ELSE SilenceCap
  /\ UNCHANGED <<tc, wd, motor, out, heard>>

Start == pc = "wait" /\ pc' = "drain" /\ UNCHANGED <<tc, wd, now, due, motor, out, silence, heard>>

(* dispatch_frame on one frame of the drain. *)
DriverInput(throttle, brake) ==
  /\ pc = "drain" /\ tc' = WithInput(tc, throttle, brake)
  /\ UNCHANGED <<wd, now, pc, due, motor, out, silence, heard>>

VehicleMode(mode) ==
  /\ pc = "drain" /\ tc' = WithMode(tc, mode)
  /\ UNCHANGED <<wd, now, pc, due, motor, out, silence, heard>>

BmsLimits(limit) ==
  /\ pc = "drain" /\ tc' = WithLimit(tc, limit)
  /\ UNCHANGED <<wd, now, pc, due, motor, out, silence, heard>>

GatewayBeat ==
  /\ pc = "drain" /\ wd' = watchdog_gateway_beat(now) /\ silence' = 0 /\ heard' = TRUE
  /\ UNCHANGED <<tc, now, pc, due, motor, out>>

(* The bus is drained: compute and send. *)
Command ==
  /\ pc = "drain" /\ pc' = "done"
  /\ tc' = torque_controller_compute(ForcedInput(tc))
  /\ motor' = [torque |-> tc'.torque, enable |-> tc'.motor_enable]
  /\ out' = {"MOTOR_COMMAND"} \cup (IF now % HeartbeatMs = 0 THEN {"HEARTBEAT"} ELSE {})
  /\ UNCHANGED <<wd, now, due, silence, heard>>

(* On a timeout the callback only resets motor_enable. *)
watchdog_timer_cb ==
  /\ due /\ pc # "drain" /\ due' = FALSE
  /\ wd' = watchdog_check(wd, now)
  /\ tc' = IF wd'.torque_disabled THEN Commanded(tc, tc.torque, FALSE) ELSE tc
  /\ UNCHANGED <<now, pc, motor, out, silence, heard>>

Next ==
  \/ Tick \/ Start \/ Command \/ watchdog_timer_cb \/ GatewayBeat
  \/ \E t \in Throttles, b \in BOOLEAN : DriverInput(t, b)
  \/ \E m \in Modes : VehicleMode(m)
  \/ \E l \in Limits : BmsLimits(l)

Spec == Init /\ [][Next]_vars

----------------------------------------------------------------------------

TorqueControllerType ==
  [throttle : 0..255, brake : BOOLEAN, mode : Modes \cup {"OFF", Forced}, limit : 0..255,
   torque : 0..100, motor_enable : BOOLEAN]

(* Types; the clock stays below its modulus. *)
TypeOK ==
  /\ tc \in TorqueControllerType
  /\ wd \in [last : 0..(TickModulus - 1), online : BOOLEAN, torque_disabled : BOOLEAN]
  /\ now \in 0..(TickModulus - 1) /\ silence \in 0..SilenceCap /\ heard \in BOOLEAN
  /\ pc \in {"wait", "drain", "done"} /\ due \in BOOLEAN
  /\ motor \in [torque : 0..100, enable : BOOLEAN]

(* S1, S2, S3, S6 on the bus: once an activation is over, the commanded torque
   is positive only with the motor enabled, in DRIVE or LIMP, without brake,
   and it exceeds neither the throttle, the BMS limit nor the limp cap of the
   last frames received, in whatever order they came in the drain. *)
MotorSafe ==
  pc # "drain" /\ motor.torque > 0 =>
    /\ motor.enable /\ tc.mode \in {"DRIVE", "LIMP"} /\ ~tc.brake
    /\ tc.throttle <= 100 /\ motor.torque <= tc.throttle /\ motor.torque <= tc.limit
    /\ tc.mode = "LIMP" => motor.torque <= MC_TORQUE_LIMP_MAX_PERCENT

(* The watchdog notices a silent gateway at most one timer period after the
   timeout and never accuses a gateway younger than it, across the wrap of
   the clock; before the first beat it may accuse at once. *)
WatchdogExact ==
  /\ ~wd.torque_disabled => silence < Timeout + TimerMs
  /\ wd.torque_disabled /\ heard => silence >= Timeout

(* S4, "If gateway heartbeat is lost, powertrain must disable torque": while
   the watchdog holds torque disabled, no positive torque is commanded. *)
GatewayLossStopsTorque ==
  [][Command /\ wd.torque_disabled => motor'.torque = 0 \/ ~motor'.enable]_vars
============================================================================
