------------------------------ MODULE Charging ------------------------------
(***************************************************************************)
(* common/src/microcar_charging.c: the charging state machine, a pure      *)
(* transition function, stepped by a client that stores next_state and     *)
(* applies command_current_a_x2 after every event.  Currents are in half   *)
(* amperes, temperatures in tenths of a degree.                            *)
(***************************************************************************)
EXTENDS Integers

CONSTANTS Temps, Stale,   \* pack temperatures, and no fresh BMS limit
          Offers,         \* currents the EVSE offers
          Socs, Targets   \* states of charge, and targets the EVSE requests

ASSUME ChargingAssumption ==
  Temps \subseteq Int /\ Stale \notin Int /\ Offers \subseteq 0..255
  /\ Socs \subseteq 0..100 /\ Targets \subseteq 0..255

VARIABLES cs,       \* charging state
          current,  \* commanded current
          last,     \* the event of the last step
          shook,    \* a handshake has succeeded since the plug was inserted
          delay     \* consecutive events with a critical fault outside FAULT

vars == <<cs, current, last, shook, delay>>

ChargeStates == {"DISCONNECTED", "PLUG_DETECTED", "HANDSHAKE", "ACTIVE", "LIMITED",
                 "COMPLETE", "FAULT"}
Kinds == {"NONE", "PLUG", "HANDSHAKE_OK", "UNPLUG"}

mc_charging_clamp_target_soc(target) ==
  IF target < 50 THEN 50 ELSE IF target > 100 THEN 100 ELSE target

(* Fault: the highest temperature step is missing. *)
limit_for_temp_faulty(temp) == IF temp >= 450 THEN 32 ELSE 64

mc_charging_bms_limit_for_temp(temp) ==
  IF temp >= 600 THEN 0 ELSE IF temp >= 450 THEN 32 ELSE 64

(* fresh_bms_limit of an event, 0 if stale. *)
Limit(temp) == IF temp = Stale THEN 0 ELSE mc_charging_bms_limit_for_temp(temp)

Events == [kind : Kinds, temp : Temps \cup {Stale}, soc : Socs, critical : BOOLEAN,
           target : {mc_charging_clamp_target_soc(t) : t \in Targets}, offered : Offers]

min_u8(a, b) == IF a < b THEN a ELSE b

To(state, command) == [next_state |-> state, current |-> command]

(* Fault: a critical fault is not looked at once charging is complete. *)
catch_all_faulty(state, e) ==
  IF state \notin {"DISCONNECTED", "COMPLETE"} /\ e.critical THEN To("FAULT", 0)
  ELSE IF state # "DISCONNECTED" /\ e.kind = "UNPLUG" THEN To("DISCONNECTED", 0)
  ELSE To(state, 0)

(* The transitions all plugged states share; a rejected event commands 0. *)
CatchAll(state, e) ==
  IF state # "DISCONNECTED" /\ e.critical THEN To("FAULT", 0)
  ELSE IF state # "DISCONNECTED" /\ e.kind = "UNPLUG" THEN To("DISCONNECTED", 0)
  ELSE To(state, 0)

Reduced(e) == Limit(e.temp) > 0 /\ Limit(e.temp) < e.offered

(* Fault: a fresh limit starts charging from PLUG_DETECTED too. *)
charging_step_faulty(state, e) ==
  IF state = "DISCONNECTED" /\ e.kind = "PLUG" THEN To("PLUG_DETECTED", 0)
  ELSE IF state = "PLUG_DETECTED" /\ e.kind = "HANDSHAKE_OK" THEN To("HANDSHAKE", 0)
  ELSE IF state \in {"PLUG_DETECTED", "HANDSHAKE"} /\ Limit(e.temp) > 0
    THEN To("ACTIVE", min_u8(e.offered, Limit(e.temp)))
  ELSE CatchAll(state, e)

(* Fault: plugging in again restarts a faulted session. *)
charging_step_restart(state, e) ==
  IF state \in {"DISCONNECTED", "FAULT"} /\ e.kind = "PLUG" THEN To("PLUG_DETECTED", 0)
  ELSE CatchAll(state, e)

mc_charging_step(state, e) ==
  IF state = "DISCONNECTED" /\ e.kind = "PLUG" THEN To("PLUG_DETECTED", 0)
  ELSE IF state = "PLUG_DETECTED" /\ e.kind = "HANDSHAKE_OK" THEN To("HANDSHAKE", 0)
  ELSE IF state = "HANDSHAKE" /\ Limit(e.temp) > 0
    THEN To("ACTIVE", min_u8(e.offered, Limit(e.temp)))
  ELSE IF state = "ACTIVE" /\ Reduced(e) THEN To("LIMITED", Limit(e.temp))
  ELSE IF state \in {"ACTIVE", "LIMITED"} /\ e.soc >= e.target THEN To("COMPLETE", 0)
  ELSE CatchAll(state, e)

NoEvent == [kind |-> "NONE", temp |-> Stale, soc |-> 0, critical |-> FALSE,
            target |-> 50, offered |-> 0]

Init == cs = "DISCONNECTED" /\ current = 0 /\ last = NoEvent /\ shook = FALSE /\ delay = 0

DelayCap == 9

Step(e) ==
  LET out == mc_charging_step(cs, e)
  IN /\ cs' = out.next_state /\ current' = out.current /\ last' = e
     /\ shook' = (cs # "DISCONNECTED" /\ (shook \/ (cs = "PLUG_DETECTED" /\ e.kind = "HANDSHAKE_OK")))
     /\ delay' = IF e.critical /\ cs # "DISCONNECTED" /\ out.next_state # "FAULT"
                 THEN min_u8(delay + 1, DelayCap) ELSE 0

Next == \E e \in Events : Step(e)

Spec == Init /\ [][Next]_vars

----------------------------------------------------------------------------

(* Current is commanded only in ACTIVE and LIMITED, never above the EVSE's
   offer or the limit of the event it answers, and so never with a stale limit
   or at 60 degrees or more. *)
CurrentWithinLimits ==
  current > 0 => /\ cs \in {"ACTIVE", "LIMITED"}
                 /\ current <= last.offered
                 /\ last.temp # Stale /\ last.temp < 600
                 /\ last.temp >= 450 => current <= 32

(* No order of events reaches a charging or a charged state without a
   handshake since the plug went in. *)
ChargedAfterHandshake == cs \in {"HANDSHAKE", "ACTIVE", "LIMITED", "COMPLETE"} => shook

(* FAULT is left only by an UNPLUG that comes without a critical fault. *)
FaultIsLatched ==
  [][cs = "FAULT" /\ cs' # "FAULT" =>
       cs' = "DISCONNECTED" /\ last'.kind = "UNPLUG" /\ ~last'.critical]_vars

(* A critical fault does not override every transition, but it is not postponed
   for ever either: five consecutive plugged events with it reach FAULT. *)
FaultDelayBounded == delay <= 4

(* common/src/microcar_charging.c:96: a critical fault overrides any plugged
   state and leads to FAULT. *)
CriticalOverrides ==
  [][cs # "DISCONNECTED" /\ last'.critical => cs' = "FAULT"]_vars
============================================================================
