----------------------------- MODULE MCMirrors -----------------------------
(* Two nodes with three fault codes of all severities; powertrain, BMS and
   dashboard monitored on a clock that wraps every fifth loop. *)
EXTENDS Mirrors

MCSeverity == [n \in Node |-> [c \in Code |-> c % 3]]
MCMonitored == <<2, 3, 4>>
MCTemps == {-15, 599, 600, 609, 610, 750, 899, 900, 909, 910}
============================================================================
