----------------------------- MODULE MicrocarRun -----------------------------
(***************************************************************************)
(* One invocation of the microcar binary (src/src/main.rs): the scenario   *)
(* is loaded, validated, built into a world, simulated up to its deadline  *)
(* and its trace compared with the expectation.  Validation                *)
(* (ScenarioValidation), the firmware adapters (FirmwareTable) and the     *)
(* plant (Plant) run inside it.                                            *)
(*                                                                         *)
(* The world of the simulator is external: it loads a file or fails, and   *)
(* delivers events (a scheduler tick of a machine, a restart, a plant      *)
(* step, a driver input, a fault) at times that never decrease.  The       *)
(* scenario's frames are drawn one at a time as validation reaches them.   *)
(***************************************************************************)
EXTENDS ScenarioValidation, Plant, Functions

CONSTANTS Scenarios, Frames, Inputs, Temps,
          ZephyrFeature,     \* built with --features zephyr
          MaxFrames, MaxEvents, MaxTime

VARIABLES
  pc,          \* where main is
  scenario,    \* the parsed file
  frames,      \* [loop: the loop's memory, accepted: the frames it let through]
  fw,          \* machine index -> [image, booted] of its firmware adapter
  plant,       \* the plant, once attached
  world,       \* [now, events]
  driver,      \* [queued: inputs in order of arrival, due: the one in force]
  exit         \* exit code, NoExit while running

hostVars == << pc, scenario, frames, fw, plant, world, driver, exit >>

NoExit == 3
EXIT_PASS == 0
EXIT_RUNTIME_FAIL == 1
EXIT_SCENARIO_ERROR == 2

Idle == [throttle |-> 0, brake |-> FALSE]
NoWorld == [now |-> 0, events |-> 0]
NoFrames == [loop |-> frames_init, accepted |-> << >>]

HostInit ==
  /\ pc = "load" /\ scenario \in Scenarios /\ frames = NoFrames
  /\ fw = << >> /\ plant = plant_new /\ world = NoWorld
  /\ driver = [queued |-> << >>, due |-> Idle] /\ exit = NoExit

(* No invocation at all.                                                   *)
HostIdle ==
  /\ pc = "done" /\ scenario = (CHOOSE s \in Scenarios : TRUE) /\ frames = NoFrames
  /\ fw = << >> /\ plant = plant_new /\ world = NoWorld
  /\ driver = [queued |-> << >>, due |-> Idle] /\ exit = NoExit

Stop(c) == pc' = "done" /\ exit' = c

(* A usage error, an unreadable or structurally invalid file, a world that *)
(* cannot be built or a plant that cannot be attached.                     *)
fail_scenario ==
  /\ pc \in {"load", "build", "attach"}
  /\ Stop(EXIT_SCENARIO_ERROR)
  /\ UNCHANGED << scenario, frames, fw, plant, world, driver >>

Load ==
  /\ pc = "load" /\ pc' = "validate"
  /\ UNCHANGED << scenario, frames, fw, plant, world, driver, exit >>

ValidateScenario ==
  /\ pc = "validate"
  /\ IF validate_scenario(scenario) = "ok" THEN pc' = "frames" /\ UNCHANGED exit
     ELSE Stop(EXIT_SCENARIO_ERROR)
  /\ UNCHANGED << scenario, frames, fw, plant, world, driver >>

(* One iteration of the loop of validate_external_actor_frames.            *)
ValidateFrame(f) ==
  /\ pc = "frames" /\ Len(frames.accepted) < MaxFrames
  /\ IF frame_error(scenario, frames.loop, f) = "ok"
       THEN /\ frames' = [loop |-> frame_accept(frames.loop, f),
                          accepted |-> Append(frames.accepted, f)]
            /\ UNCHANGED << pc, exit >>
       ELSE Stop(EXIT_SCENARIO_ERROR) /\ UNCHANGED frames
  /\ UNCHANGED << scenario, fw, plant, world, driver >>

FramesDone ==
  /\ pc = "frames" /\ pc' = "build" /\ frames' = NoFrames
  /\ UNCHANGED << scenario, fw, plant, world, driver, exit >>

BuildWorld ==
  /\ pc = "build" /\ pc' = "attach"
  /\ UNCHANGED << scenario, frames, fw, plant, world, driver, exit >>

------------------------------------------------------------------------------
(* The entry point Firmware::init calls for machine m.                     *)
ZephyrDashboard == << "dashboard", "zephyr" >>
image(m) == IF m.zephyr /\ ZephyrFeature THEN ZephyrDashboard
            ELSE boot_image(ecu_type(m.firmware, m.name))

(* attach_plant_to hands the scenario's inputs to the plant in file order; *)
(* every machine with firmware gets a factory whose adapter boots when the *)
(* world starts it.                                                        *)
AttachPlantAndFirmware ==
  /\ pc = "attach" /\ pc' = "run"
  /\ plant' = IF scenario.plant THEN FoldLeft(queue_driver_input, plant, scenario.inputs)
              ELSE plant
  /\ driver' = [driver EXCEPT !.queued = IF scenario.plant THEN scenario.inputs ELSE << >>]
  /\ fw' = [i \in {j \in DOMAIN scenario.machines : scenario.machines[j].firmware # NoFirmware}
              |-> [image |-> << >>, booted |-> FALSE]]
  /\ UNCHANGED << scenario, frames, world, exit >>

(* An event of the world at time t: not past the deadline, and none once   *)
(* the deadline is reached (step_run, and run_until which it mirrors).  A  *)
(* scenario without duration has a deadline past MaxTime.                  *)
Event(t) ==
  /\ pc = "run" /\ world.events < MaxEvents
  /\ t \in world.now..MaxTime
  /\ world.now < scenario.deadline /\ t <= scenario.deadline
  /\ world' = [now |-> t, events |-> world.events + 1]
  /\ UNCHANGED << pc, scenario, frames, exit >>

(* Firmware::init on first start and, through the factory, on every        *)
(* restart of the machine.                                                 *)
FirmwareInit(i, t) ==
  /\ Event(t) /\ i \in DOMAIN fw
  /\ fw' = [fw EXCEPT ![i] = [image |-> image(scenario.machines[i]), booted |-> TRUE]]
  /\ UNCHANGED << plant, driver >>

(* A machine goes down; the factory's next adapter has not booted yet, and *)
(* Firmware::step returns early until it has.                              *)
MachineDown(i, t) ==
  /\ Event(t) /\ i \in DOMAIN fw /\ fw[i].booted
  /\ fw' = [fw EXCEPT ![i].booted = FALSE]
  /\ UNCHANGED << plant, driver >>

(* EnvironmentModel::step.                                                 *)
PlantStep(t) ==
  /\ Event(t) /\ scenario.plant
  /\ plant' = do_step(plant, t)
  /\ driver' = [driver EXCEPT !.due =
       LET q == driver.queued
           past == {i \in DOMAIN q : q[i].at <= t}
           Later(i, j) == q[i].at > q[j].at \/ (q[i].at = q[j].at /\ i >= j)
       IN IF past = {} THEN Idle
          ELSE LET k == CHOOSE i \in past : \A j \in past : Later(i, j)
               IN [throttle |-> q[k].throttle, brake |-> q[k].brake]]
  /\ UNCHANGED fw

(* EnvironmentModel::queue_driver_input while the world runs: the input    *)
(* may lie in the past.                                                    *)
DriverInput(input, t) ==
  /\ Event(t) /\ scenario.plant
  /\ plant' = queue_driver_input(plant, input)
  /\ driver' = [driver EXCEPT !.queued = Append(@, input)]
  /\ UNCHANGED fw

PlantFault(celsius, t) ==
  /\ Event(t) /\ scenario.plant
  /\ plant' = apply_fault(plant, celsius)
  /\ UNCHANGED << fw, driver >>

(* A simulation error, or the trace check: PASS only on a match.           *)
RuntimeFail ==
  /\ pc \in {"run", "check"} /\ Stop(EXIT_RUNTIME_FAIL)
  /\ UNCHANGED << scenario, frames, fw, plant, world, driver >>

(* The deadline is reached, or the world has no event left before it.      *)
RunDone ==
  /\ pc = "run" /\ pc' = "check"
  /\ UNCHANGED << scenario, frames, fw, plant, world, driver, exit >>

TraceMatch ==
  /\ pc = "check" /\ Stop(EXIT_PASS)
  /\ UNCHANGED << scenario, frames, fw, plant, world, driver >>

HostNext ==
  \/ fail_scenario \/ Load \/ ValidateScenario \/ FramesDone \/ BuildWorld
  \/ \E f \in Frames : ValidateFrame(f)
  \/ AttachPlantAndFirmware
  \/ \E t \in 0..MaxTime :
       \/ \E i \in DOMAIN fw : FirmwareInit(i, t) \/ MachineDown(i, t)
       \/ PlantStep(t)
       \/ \E input \in Inputs : DriverInput(input, t)
       \/ \E c \in Temps : PlantFault(c, t)
  \/ RunDone \/ RuntimeFail \/ TraceMatch

------------------------------------------------------------------------------
(* The reserved frames that validation lets through, read as one history:  *)
(* the chunks of a request id are numbered 0, 1, 2, ... without gap or     *)
(* repetition across repeated requests, each below the total declared last *)
(* before it; a finish names that total and finds exactly as many chunks;  *)
(* a handshake comes after a plug.  The loop keeps only two maps and a     *)
(* flag (validate.rs, validate_external_actor_frames).                     *)
AcceptedFramesOrdered ==
  LET h == frames.accepted
      Before(k, id, r) == {i \in 1..k - 1 : h[i].id = id /\ h[i].b1 = r}
      Declared(k, r) ==
        LET reqs == Before(k, "OTA_REQUEST", r)
        IN IF reqs = {} THEN NoTotal
           ELSE h[CHOOSE i \in reqs : \A j \in reqs : j <= i].b3
  IN \A k \in DOMAIN h :
       /\ h[k].id = "OTA_CHUNK" =>
            /\ h[k].b2 = Cardinality(Before(k, "OTA_CHUNK", h[k].b1))
            /\ Declared(k, h[k].b1) # NoTotal /\ h[k].b2 < Declared(k, h[k].b1)
       /\ h[k].id = "OTA_FINISH" =>
            /\ h[k].b2 = Declared(k, h[k].b1)
            /\ h[k].b2 = Cardinality(Before(k, "OTA_CHUNK", h[k].b1))
       /\ h[k].id = "EVSE_EVENT" /\ h[k].b1 = 2 =>
            Before(k, "EVSE_EVENT", 1) # {}

(* What boots is what was validated: through every restart, a machine runs *)
(* an image of the category validation found for it, and the most specific *)
(* one its path names, and nothing boots in a run that exits with the      *)
(* scenario error code.  The one exception is a machine marked rtos =      *)
(* zephyr in a build with that feature, which boots the Zephyr dashboard   *)
(* whatever its firmware is (main.rs, lib.rs).                             *)
BootsValidatedImage ==
  \A i \in DOMAIN fw :
    LET m == scenario.machines[i]
        im == fw[i].image
    IN fw[i].booted =>
         /\ exit # EXIT_SCENARIO_ERROR
         /\ \/ m.zephyr /\ ZephyrFeature /\ im = ZephyrDashboard
            \/ /\ im # << >> /\ category(im) = resolve_ecu(m)
               /\ ~ \E p \in Range(Patterns) :
                      contains(m.firmware, p) /\ IsStrictPrefix(im, p)

(* After every plant step the vehicle obeys the latest driver input that   *)
(* is due, whatever the order in which the inputs were queued: sorting     *)
(* moves inputs under the cursor, but what the cursor then repeats is      *)
(* still the latest one.  What is published of it is what was computed: no *)
(* narrowing conversion wraps, so that a forced temperature or a throttle  *)
(* byte over 127 never shows as a negative reading (plant/src/model.rs,    *)
(* do_step and queue_driver_input; battery.rs, vehicle.rs, sensors.rs).    *)
PlantTracksInput ==
  LET r == from_plant(plant)
  IN /\ plant.vehicle.throttle = driver.due.throttle
     /\ plant.vehicle.brake = driver.due.brake
     /\ plant.vehicle.torque = I8(driver.due.throttle)
     /\ r.wheel_speed \in 0..12800 /\ r.temp \in 0..32767
     /\ r.soc \in 0..80 /\ r.voltage \in 0..48000 /\ r.current \in 0..32767
=============================================================================
