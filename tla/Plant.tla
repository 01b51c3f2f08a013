-------------------------------- MODULE Plant --------------------------------
(***************************************************************************)
(* The vehicle plant (plant/src/): speed, battery and the queue of driver  *)
(* inputs.  p is [vehicle, battery, pending, cursor]; every quantity is    *)
(* the fixed-point integer of the code, with its width where a conversion  *)
(* may wrap or saturate.                                                   *)
(***************************************************************************)
EXTENDS Integers, Sequences, SequencesExt

CONSTANT TickMs              \* [plant].tick_ms

I8(x) == IF x > 127 THEN x - 256 ELSE x                       \* u8 as i8
I16(x) == ((x + 32768) % 65536) - 32768                       \* i64 as i16
Quot(a, b) == IF a >= 0 THEN a \div b ELSE -((-a) \div b)     \* Rust's /
AtLeast(low, x) == IF x < low THEN low ELSE x
AtMost(high, x) == IF x > high THEN high ELSE x

plant_new ==
  [vehicle |-> [speed |-> 0, throttle |-> 0, brake |-> FALSE, torque |-> 0],
   battery |-> [soc_milli |-> 80000, soc |-> 80, temp |-> 250, voltage |-> 48000, current |-> 0],
   pending |-> << >>, cursor |-> 0]

(* VehiclePlant::step: the brake wins over the torque; drag slows.         *)
vehicle_step(v) ==
  LET torque == IF v.brake THEN 0 ELSE v.torque
      speed == v.speed + Quot(torque * TickMs, 100) - (v.speed * TickMs) \div 10000
  IN [v EXCEPT !.speed = AtLeast(0, speed) % 65536]

calc_voltage(soc, current) == AtLeast(0, (48000 * soc) \div 100 - current \div 10)

draw(torque) == 500 * (IF torque < 0 THEN -torque ELSE torque)

(* BatteryModel::step: current from the torque's magnitude, charge in      *)
(* milli-percent, heating by I*I, cooling towards 25 C, a floor of 20 C.   *)
battery_step(b, torque) ==
  LET current == draw(torque)
      amps == current \div 1000
      milli == AtLeast(0, b.soc_milli - (current * TickMs * 1000) \div (3600 * 50000))
      soc == AtMost(100, (milli + 500) \div 1000)
      temp == b.temp + (amps * amps * TickMs) \div 25000
                     - (AtLeast(0, b.temp - 250) * TickMs) \div 100000
  IN [soc_milli |-> milli, soc |-> soc, temp |-> I16(AtLeast(200, temp)),
      voltage |-> calc_voltage(soc, current), current |-> current]

(* queue_driver_input: push, then a stable sort by time; the cursor stays. *)
Insert(queue, input) ==
  SelectSeq(queue, LAMBDA i : i.at <= input.at) \o << input >>
    \o SelectSeq(queue, LAMBDA i : i.at > input.at)

(* Fault: the queue is not sorted again after the push.                    *)
queue_driver_input_faulty(p, input) == [p EXCEPT !.pending = Append(@, input)]

queue_driver_input(p, input) == [p EXCEPT !.pending = Insert(@, input)]

(* The loop of do_step: every input from the cursor up to the first one    *)
(* that is not due is applied, so the last of them is what the vehicle     *)
(* keeps, and the throttle becomes the motor torque.                       *)
apply_inputs(p, now) ==
  LET due == {n \in p.cursor..Len(p.pending) :
                \A i \in p.cursor + 1..n : p.pending[i].at <= now}
      last == CHOOSE n \in due : \A k \in due : k <= n
      input == p.pending[last]
  IN IF last = p.cursor THEN p
     ELSE [p EXCEPT !.cursor = last,
                    !.vehicle = [@ EXCEPT !.throttle = input.throttle, !.brake = input.brake,
                                          !.torque = I8(input.throttle)]]

do_step(p, now) ==
  LET q == apply_inputs(p, now)
      v == vehicle_step(q.vehicle)
  IN [q EXCEPT !.vehicle = v, !.battery = battery_step(q.battery, v.torque)]

(* SensorReadings::from_plant, the payloads of 0x102 and 0x500; the        *)
(* current saturates to i16.                                               *)
from_plant(p) ==
  [wheel_speed |-> p.vehicle.speed, soc |-> p.battery.soc, voltage |-> p.battery.voltage,
   temp |-> p.battery.temp, current |-> AtMost(32767, p.battery.current)]

(* apply_fault: battery/force_temperature with a value; as i16 saturates.  *)
apply_fault(p, celsius) == [p EXCEPT !.battery.temp = AtMost(32767, 10 * celsius)]
=============================================================================
