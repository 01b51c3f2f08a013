-------------------------- MODULE HeartbeatMonitor --------------------------
(***************************************************************************)
(* firmware/gateway_ecu/src/heartbeat_monitor.c: operators on the array of *)
(* monitored nodes, in the order they were registered.  Times are uint32_t *)
(* milliseconds; TickModulus stands for 2^32.                              *)
(***************************************************************************)
EXTENDS Integers, Sequences

CONSTANT TickModulus

(* Unsigned addition and subtraction of numbers below the modulus. *)
Plus(a, b) == IF a + b < TickModulus THEN a + b ELSE a + b - TickModulus
Minus(a, b) == IF b <= a THEN a - b ELSE a - b + TickModulus

(* The array after init and one register call per node of the sequence; the
   firmware registers three, HM_MAX_NODES is 8. *)
heartbeat_monitor_register(nodes, timeout) ==
  [i \in DOMAIN nodes |-> [node_id |-> nodes[i], online |-> FALSE,
                           last_beat_ms |-> 0, timeout_ms |-> timeout]]

Beaten(e, now) == [node_id |-> e.node_id, online |-> TRUE,
                   last_beat_ms |-> now, timeout_ms |-> e.timeout_ms]

(* One heartbeat_monitor_beat call for each of the nodes B, all at time now. *)
heartbeat_monitor_beat(hm, B, now) ==
  [i \in DOMAIN hm |-> IF hm[i].node_id \in B THEN Beaten(hm[i], now) ELSE hm[i]]

(* Fault: the time of the last beat is compared, not the time since. *)
expired_faulty(e, now) == e.online /\ now >= e.last_beat_ms + e.timeout_ms

Expired(e, now) == e.online /\ Minus(now, e.last_beat_ms) >= e.timeout_ms

heartbeat_monitor_check(hm, now) ==
  [i \in DOMAIN hm |->
     IF Expired(hm[i], now) THEN [hm[i] EXCEPT !.online = FALSE] ELSE hm[i]]

(* The return value of the check: whether some node went offline. *)
transitions(hm, now) == \E i \in DOMAIN hm : Expired(hm[i], now)

heartbeat_monitor_all_online(hm) == hm # <<>> /\ \A i \in DOMAIN hm : hm[i].online

(* Despite its name, the first offline node in registration order; 0 if none. *)
heartbeat_monitor_last_transition_node(hm) ==
  LET offline == {i \in DOMAIN hm : ~hm[i].online}
  IN IF offline = {} THEN 0
     ELSE hm[CHOOSE i \in offline : \A j \in offline : i <= j].node_id
============================================================================
