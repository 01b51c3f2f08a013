--------------------------- MODULE ChargingProofs ---------------------------
(***************************************************************************)
(* Proofs about the charging state machine of common/src/microcar_charging.c*)
(* for all temperatures, offers, states of charge and targets.  The        *)
(* inductive invariant bounds the postponement of a fault by the number of *)
(* states passed on the way from PLUG_DETECTED to COMPLETE.                *)
(***************************************************************************)
EXTENDS Charging, TLAPS

Rank(state) == IF state = "HANDSHAKE" THEN 1 ELSE IF state = "ACTIVE" THEN 2
               ELSE IF state = "LIMITED" THEN 3 ELSE IF state = "COMPLETE" THEN 4 ELSE 0

IInv ==
  /\ cs \in ChargeStates /\ current \in Nat /\ delay \in Nat
  /\ CurrentWithinLimits /\ ChargedAfterHandshake /\ delay <= Rank(cs)

(* What the components of an event of the state machine can be. *)
LEMMA EventTypes ==
  ASSUME NEW e \in Events
  PROVE  /\ e.offered \in Nat /\ e.temp \in Int \cup {Stale} /\ e.critical \in BOOLEAN
         /\ Limit(e.temp) \in Nat
         /\ Limit(e.temp) > 0 => e.temp # Stale /\ e.temp < 600
         /\ Limit(e.temp) > 0 /\ e.temp >= 450 => Limit(e.temp) <= 32
<1>1. e.offered \in Offers /\ e.temp \in Temps \cup {Stale} /\ e.critical \in BOOLEAN
  BY Zenon DEF Events
<1>2. e.offered \in Nat
  <2>1. \A o \in Offers : o \in Nat
    BY ChargingAssumption
  <2> QED BY <1>1, <2>1
<1>3. e.temp \in Int \cup {Stale} /\ Stale \notin Int
  BY <1>1, ChargingAssumption
<1>4. CASE e.temp = Stale
  BY <1>1, <1>2, <1>4 DEF Limit
<1>5. CASE e.temp # Stale
  BY <1>1, <1>2, <1>3, <1>5 DEF Limit, mc_charging_bms_limit_for_temp
<1> QED BY <1>4, <1>5

(* One step of mc_charging_step from a state of the invariant. *)
LEMMA StepKeeps ==
  ASSUME IInv, NEW e \in Events, Step(e)
  PROVE  IInv'
<1> DEFINE out == mc_charging_step(cs, e)
<1>1. /\ e.offered \in Nat /\ e.critical \in BOOLEAN /\ Limit(e.temp) \in Nat
      /\ Limit(e.temp) > 0 => e.temp # Stale /\ e.temp < 600
      /\ Limit(e.temp) > 0 /\ e.temp >= 450 => Limit(e.temp) <= 32
  BY EventTypes
<1>2. /\ cs' = out.next_state /\ current' = out.current /\ last' = e
  BY DEF Step
<1>3. /\ out.next_state \in ChargeStates /\ out.current \in Nat
      /\ out.current > 0 => /\ out.next_state \in {"ACTIVE", "LIMITED"}
                            /\ out.current <= e.offered /\ out.current <= Limit(e.temp)
                            /\ Limit(e.temp) > 0
  BY <1>1 DEF IInv, ChargeStates, mc_charging_step, To, min_u8, Reduced, CatchAll
<1>4. CurrentWithinLimits'
  <2> SUFFICES ASSUME out.current > 0
               PROVE  /\ out.next_state \in {"ACTIVE", "LIMITED"} /\ out.current <= e.offered
                      /\ e.temp # Stale /\ e.temp < 600
                      /\ e.temp >= 450 => out.current <= 32
    BY <1>2 DEF CurrentWithinLimits
  <2> HIDE DEF out
  <2> QED BY <1>1, <1>3
<1>5. ChargedAfterHandshake'
  BY DEF IInv, ChargeStates, ChargedAfterHandshake, Step, mc_charging_step, To, CatchAll
<1>6. delay' \in Nat /\ delay' <= Rank(cs')
  <2>1. CASE e.critical /\ cs # "DISCONNECTED" /\ out.next_state # "FAULT"
    <3>1. Rank(out.next_state) >= Rank(cs) + 1
      BY <2>1 DEF IInv, ChargeStates, Rank, mc_charging_step, To, CatchAll
    <3>2. delay' = min_u8(delay + 1, DelayCap)
      BY <2>1 DEF Step
    <3>3. Rank(cs) \in Nat /\ Rank(out.next_state) \in Nat
      BY DEF Rank
    <3> HIDE DEF out
    <3> QED BY <1>2, <3>1, <3>2, <3>3 DEF min_u8, DelayCap, IInv
  <2>2. CASE ~(e.critical /\ cs # "DISCONNECTED" /\ out.next_state # "FAULT")
    <3>1. delay' = 0
      BY <2>2 DEF Step
    <3>2. Rank(cs') \in Nat
      BY DEF Rank
    <3> QED BY <3>1, <3>2
  <2> QED BY <2>1, <2>2
<1> QED BY <1>2, <1>3, <1>4, <1>5, <1>6 DEF IInv

LEMMA Inductive == Spec => []IInv
<1>1. Init => IInv
  BY DEF Init, IInv, ChargeStates, CurrentWithinLimits, ChargedAfterHandshake, Rank
<1>2. IInv /\ [Next]_vars => IInv'
  <2> SUFFICES ASSUME IInv, [Next]_vars PROVE IInv'
    OBVIOUS
  <2>1. CASE Next
    BY <2>1, StepKeeps DEF Next
  <2>2. CASE UNCHANGED vars
    BY <2>2 DEF IInv, vars, CurrentWithinLimits, ChargedAfterHandshake
  <2> QED BY <2>1, <2>2
<1> QED BY <1>1, <1>2, PTL DEF Spec

(* For every pack temperature and offer, mc_charging_step commands current only
   within the offer and the temperature's limit. *)
THEOREM CurrentIsLimited == Spec => []CurrentWithinLimits
<1>1. IInv => CurrentWithinLimits
  BY DEF IInv
<1> QED BY <1>1, Inductive, PTL

(* No sequence of events charges without a handshake. *)
THEOREM HandshakeFirst == Spec => []ChargedAfterHandshake
<1>1. IInv => ChargedAfterHandshake
  BY DEF IInv
<1> QED BY <1>1, Inductive, PTL

(* A critical fault is postponed by at most four events. *)
THEOREM FaultIsPrompt == Spec => []FaultDelayBounded
<1>1. IInv => FaultDelayBounded
  BY DEF IInv, FaultDelayBounded, Rank
<1> QED BY <1>1, Inductive, PTL

(* FAULT is left only through a clean UNPLUG. *)
THEOREM FaultLatch == Spec => FaultIsLatched
<1>1. [Next]_vars =>
        [cs = "FAULT" /\ cs' # "FAULT" =>
           cs' = "DISCONNECTED" /\ last'.kind = "UNPLUG" /\ ~last'.critical]_vars
  <2> SUFFICES ASSUME NEW e \in Events, Step(e), cs = "FAULT", cs' # "FAULT"
               PROVE  cs' = "DISCONNECTED" /\ last'.kind = "UNPLUG" /\ ~last'.critical
    BY DEF Next
  <2>1. cs' = CatchAll(cs, e).next_state /\ last' = e
    BY DEF Step, mc_charging_step
  <2> QED BY <2>1 DEF CatchAll, To
<1> QED BY <1>1, PTL DEF Spec, FaultIsLatched
============================================================================
