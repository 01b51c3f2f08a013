--------------------------- MODULE HeartbeatLoop ---------------------------
(***************************************************************************)
(* The monitor inside the gateway's periodic loop: every Period ms the     *)
(* loop records the beats that were queued and checks for timeouts.  age   *)
(* is the real time since a node's last recorded beat, which the 32-bit    *)
(* millisecond clock of the code only knows modulo TickModulus.            *)
(***************************************************************************)
EXTENDS HeartbeatMonitor

CONSTANTS Monitored,   \* node ids in registration order
          Period,      \* of the main loop, 10 ms
          Timeout      \* MC_SAFETY_BMS_HEARTBEAT_TIMEOUT_MS, 300 ms

ASSUME LoopAssumption ==
  /\ Period \in Nat \ {0} /\ Timeout \in Nat \ {0}
  /\ TickModulus \in Nat /\ TickModulus > Timeout + Period

VARIABLES now,    \* xTaskGetTickCount() * portTICK_PERIOD_MS
          hm,     \* heartbeat_monitor_t
          age     \* age[i]: time since the last beat of entry i, at most Timeout

loopVars == <<now, hm, age>>

(* gateway_init registers the nodes one by one. *)
LoopInit ==
  /\ now = 0
  /\ hm = heartbeat_monitor_register(Monitored, Timeout)
  /\ age = [i \in DOMAIN Monitored |-> Timeout]

Older(a) == IF a + Period < Timeout THEN a + Period ELSE Timeout

(* One iteration: dequeue the beats of the nodes B, then check. *)
Loop(B) ==
  /\ now' = Plus(now, Period)
  /\ hm' = heartbeat_monitor_check(heartbeat_monitor_beat(hm, B, now'), now')
  /\ age' = [i \in DOMAIN hm |-> IF hm[i].node_id \in B THEN 0 ELSE Older(age[i])]

Nodes == {Monitored[i] : i \in DOMAIN Monitored}

LoopNext == \E B \in SUBSET Nodes : Loop(B)

LoopSpec == LoopInit /\ [][LoopNext]_loopVars

----------------------------------------------------------------------------

HmNode == [node_id : Nodes, online : BOOLEAN,
           last_beat_ms : 0..(TickModulus - 1), timeout_ms : {Timeout}]

(* Times stay below the modulus; an entry keeps its node and its timeout. *)
LoopTypeOK ==
  /\ now \in 0..(TickModulus - 1)
  /\ hm \in [DOMAIN Monitored -> HmNode]
  /\ age \in [DOMAIN Monitored -> 0..Timeout]
  /\ \A i \in DOMAIN Monitored : hm[i].node_id = Monitored[i]

(* A node is online exactly while its last beat is less than the timeout old,
   for ever: the wrap of the millisecond clock neither drops a node that
   beats nor keeps alive one that went silent, even one silent for a whole
   period of the clock (heartbeat_monitor_check's unsigned subtraction). *)
OnlineIffRecent == \A i \in DOMAIN hm : hm[i].online <=> age[i] < Timeout
============================================================================
