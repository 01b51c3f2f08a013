------------------------ MODULE HeartbeatLoopProofs ------------------------
(***************************************************************************)
(* The monitor is exact for any set of nodes and any clock width whose     *)
(* modulus exceeds the timeout by more than one loop period, so for the    *)
(* 32-bit millisecond clock.  The strengthening ties the code's unsigned   *)
(* difference to the real age while a node is online.                      *)
(***************************************************************************)
EXTENDS HeartbeatLoop, TLAPS

(* Entry i, at time t, with real age a. *)
EntryOK(e, t, a) ==
  /\ e.last_beat_ms \in 0..(TickModulus - 1)
  /\ e.online => a < Timeout /\ Minus(t, e.last_beat_ms) = a
  /\ ~e.online => a = Timeout

(* The inductive invariant. *)
IInv == LoopTypeOK /\ \A i \in DOMAIN Monitored : EntryOK(hm[i], now, age[i])

(* Advancing the clock advances the unsigned difference, across a wrap too. *)
LEMMA ClockAdvance ==
  ASSUME NEW t \in 0..(TickModulus - 1), NEW l \in 0..(TickModulus - 1),
         Minus(t, l) < Timeout
  PROVE  /\ Plus(t, Period) \in 0..(TickModulus - 1)
         /\ Minus(Plus(t, Period), l) = Minus(t, l) + Period
  BY LoopAssumption DEF Plus, Minus

LEMMA ClockRange ==
  ASSUME NEW t \in 0..(TickModulus - 1)
  PROVE  Plus(t, Period) \in 0..(TickModulus - 1) /\ Minus(t, t) = 0
  BY LoopAssumption DEF Plus, Minus

LEMMA InitIInv == LoopInit => IInv
<1> SUFFICES ASSUME LoopInit PROVE IInv
  OBVIOUS
<1>1. 0 \in 0..(TickModulus - 1) /\ Timeout \in 0..Timeout
  BY LoopAssumption
<1>2. \A i \in DOMAIN Monitored :
        /\ hm[i] = [node_id |-> Monitored[i], online |-> FALSE,
                    last_beat_ms |-> 0, timeout_ms |-> Timeout]
        /\ age[i] = Timeout /\ Monitored[i] \in Nodes
  BY DEF LoopInit, heartbeat_monitor_register, Nodes
<1>3. LoopTypeOK
  BY <1>1, <1>2 DEF LoopInit, heartbeat_monitor_register, LoopTypeOK, HmNode
<1>4. ASSUME NEW i \in DOMAIN Monitored PROVE EntryOK(hm[i], now, age[i])
  <2> DEFINE fresh == [node_id |-> Monitored[i], online |-> FALSE,
                       last_beat_ms |-> 0, timeout_ms |-> Timeout]
  <2>1. hm[i] = fresh /\ age[i] = Timeout
    BY <1>2
  <2>2. fresh.online = FALSE /\ fresh.last_beat_ms = 0
    BY Zenon
  <2> HIDE DEF fresh
  <2> QED BY <1>1, <2>1, <2>2, Zenon DEF EntryOK
<1> QED BY <1>3, <1>4 DEF IInv

(* An entry after one iteration at time t that dequeued the beats of B. *)
Looped(e, t, B) ==
  LET b == IF e.node_id \in B THEN Beaten(e, t) ELSE e
  IN IF Expired(b, t) THEN [b EXCEPT !.online = FALSE] ELSE b

(* One iteration keeps an entry exact, whether or not its node beat. *)
LEMMA LoopEntry ==
  ASSUME NEW e \in HmNode, NEW t \in 0..(TickModulus - 1), NEW a \in 0..Timeout,
         EntryOK(e, t, a), NEW B
  PROVE  /\ Looped(e, Plus(t, Period), B) \in HmNode
         /\ Looped(e, Plus(t, Period), B).node_id = e.node_id
         /\ EntryOK(Looped(e, Plus(t, Period), B), Plus(t, Period),
                    IF e.node_id \in B THEN 0 ELSE Older(a))
<1> DEFINE t2 == Plus(t, Period)
           b == IF e.node_id \in B THEN Beaten(e, t2) ELSE e
           r == Looped(e, t2, B)
<1>0. r = IF Expired(b, t2) THEN [b EXCEPT !.online = FALSE] ELSE b
  BY DEF Looped
<1> SUFFICES /\ r \in HmNode /\ r.node_id = e.node_id
             /\ EntryOK(r, t2, IF e.node_id \in B THEN 0 ELSE Older(a))
  OBVIOUS
<1> HIDE DEF r
<1>1. t2 \in 0..(TickModulus - 1) /\ Minus(t2, t2) = 0
  BY ClockRange
<1>2. CASE e.node_id \in B
  <2>1. /\ b \in HmNode /\ b.node_id = e.node_id
        /\ b.last_beat_ms = t2 /\ b.online /\ b.timeout_ms = Timeout
    BY <1>1, <1>2 DEF HmNode, Beaten
  <2>2. r = b
    BY <1>0, <1>1, <2>1, LoopAssumption DEF Expired
  <2>3. 0 < Timeout
    BY LoopAssumption
  <2>4. EntryOK(r, t2, 0)
    BY <1>1, <2>1, <2>2, <2>3, Zenon DEF EntryOK
  <2> QED BY <1>2, <2>1, <2>2, <2>4
<1>3. CASE e.node_id \notin B /\ ~e.online
  <2>1. r = e
    BY <1>0, <1>3 DEF Expired
  <2>2. Older(a) = Timeout
    BY <1>3, LoopAssumption DEF EntryOK, Older
  <2> QED BY <1>3, <2>1, <2>2 DEF EntryOK
<1>4. CASE e.node_id \notin B /\ e.online
  <2>1. b = e /\ e.timeout_ms = Timeout /\ e.last_beat_ms \in 0..(TickModulus - 1)
    BY <1>4 DEF HmNode
  <2>2. a < Timeout /\ Minus(t, e.last_beat_ms) = a
    BY <1>4 DEF EntryOK
  <2>3. Minus(t2, e.last_beat_ms) = a + Period
    BY <2>1, <2>2, ClockAdvance
  <2>4. CASE a + Period < Timeout
    <3>1. r = e
      BY <1>0, <2>1, <2>3, <2>4, LoopAssumption DEF Expired
    <3>2. Older(a) = a + Period
      BY <2>4 DEF Older
    <3> QED BY <1>4, <2>1, <2>3, <2>4, <3>1, <3>2 DEF EntryOK
  <2>5. CASE ~(a + Period < Timeout)
    <3>1. r = [e EXCEPT !.online = FALSE]
      BY <1>0, <1>4, <2>1, <2>3, <2>5, LoopAssumption DEF Expired
    <3>2. Older(a) = Timeout
      BY <2>5 DEF Older
    <3>3. r \in HmNode /\ r.node_id = e.node_id /\ ~r.online
          /\ r.last_beat_ms = e.last_beat_ms
      BY <3>1 DEF HmNode
    <3> QED BY <1>4, <2>1, <3>2, <3>3 DEF EntryOK
  <2> QED BY <2>4, <2>5
<1> QED BY <1>2, <1>3, <1>4

LEMMA NextIInv == IInv /\ [LoopNext]_loopVars => IInv'
<1> SUFFICES ASSUME IInv, [LoopNext]_loopVars PROVE IInv'
  OBVIOUS
<1>1. CASE UNCHANGED loopVars
  BY <1>1 DEF IInv, LoopTypeOK, EntryOK, loopVars
<1>2. ASSUME NEW B \in SUBSET Nodes, Loop(B) PROVE IInv'
  <2>1. now' = Plus(now, Period) /\ now' \in 0..(TickModulus - 1)
    BY <1>2, ClockRange DEF Loop, IInv, LoopTypeOK
  <2>2. DOMAIN hm = DOMAIN Monitored
    BY DEF IInv, LoopTypeOK
  <2>3. hm' = [i \in DOMAIN Monitored |-> Looped(hm[i], now', B)]
    BY <1>2, <2>1, <2>2 DEF Loop, heartbeat_monitor_check, heartbeat_monitor_beat, Looped
  <2>4. age' = [i \in DOMAIN Monitored |-> IF hm[i].node_id \in B THEN 0 ELSE Older(age[i])]
    BY <1>2, <2>2 DEF Loop
  <2>5. ASSUME NEW i \in DOMAIN Monitored
        PROVE  /\ hm'[i] \in HmNode /\ hm'[i].node_id = Monitored[i]
               /\ age'[i] \in 0..Timeout
               /\ EntryOK(hm'[i], now', age'[i])
    <3>1. /\ hm[i] \in HmNode /\ now \in 0..(TickModulus - 1) /\ age[i] \in 0..Timeout
          /\ EntryOK(hm[i], now, age[i]) /\ hm[i].node_id = Monitored[i]
      BY DEF IInv, LoopTypeOK
    <3>2. hm'[i] = Looped(hm[i], now', B)
      BY <2>3
    <3>3. age'[i] = IF hm[i].node_id \in B THEN 0 ELSE Older(age[i])
      BY <2>4
    <3>4. age'[i] \in 0..Timeout
      BY <3>1, <3>3, LoopAssumption DEF Older
    <3> DEFINE t2 == Plus(now, Period)
    <3>5. /\ Looped(hm[i], t2, B) \in HmNode
          /\ Looped(hm[i], t2, B).node_id = hm[i].node_id
          /\ EntryOK(Looped(hm[i], t2, B), t2,
                     IF hm[i].node_id \in B THEN 0 ELSE Older(age[i]))
      BY <3>1, LoopEntry, Zenon
    <3>6. /\ hm'[i] \in HmNode /\ hm'[i].node_id = hm[i].node_id
          /\ EntryOK(hm'[i], now', IF hm[i].node_id \in B THEN 0 ELSE Older(age[i]))
      BY <2>1, <3>2, <3>5, Zenon
    <3> QED BY <3>1, <3>3, <3>4, <3>6, Zenon
  <2>6. hm' \in [DOMAIN Monitored -> HmNode] /\ age' \in [DOMAIN Monitored -> 0..Timeout]
    BY <2>3, <2>4, <2>5
  <2> QED BY <2>1, <2>5, <2>6 DEF IInv, LoopTypeOK
<1> QED BY <1>1, <1>2 DEF LoopNext

(* The monitor's state keeps its types and its times stay below the modulus. *)
THEOREM TypeCorrect == LoopSpec => []LoopTypeOK
<1>1. IInv => LoopTypeOK
  BY DEF IInv
<1> QED BY <1>1, InitIInv, NextIInv, PTL DEF LoopSpec

(* A node is online exactly while its last recorded beat is younger than the
   timeout, whatever the width of the millisecond clock
   (heartbeat_monitor_beat, heartbeat_monitor_check). *)
THEOREM MonitorIsExact == LoopSpec => []OnlineIffRecent
<1>1. IInv => OnlineIffRecent
  BY LoopAssumption DEF IInv, LoopTypeOK, HmNode, EntryOK, OnlineIffRecent
<1> QED BY <1>1, InitIInv, NextIInv, PTL DEF LoopSpec
============================================================================
