----------------------------- MODULE MCGateway -----------------------------
(* Values for the gateway's constants; time is scaled to a timeout of two
   loops and a broadcast every second loop. *)
EXTENDS GatewayEcu

(* Every activation starts with no frames sent, so the frames of the last one
   do not distinguish states. *)
WithoutOut == <<[g EXCEPT !.out = <<>>], now, wire, stale>>

TwoNodes == <<POWERTRAIN, BMS>>
Unscripted == {<<>>}
AllScripts == {DiagScript, StartDriveScript, ChargingScript}
============================================================================
