----------------------------- MODULE OtaMirror -----------------------------
(***************************************************************************)
(* The update of OtaUpdate, seen by the C metadata functions and by their  *)
(* Rust copies side by side.  Both keep the same fields, so one state      *)
(* stands for both as long as every function agrees on it.                 *)
(***************************************************************************)
EXTENDS OtaUpdate

Rust == INSTANCE RustOtaSlot

(* state_tests/src/ota_slot.rs, "Mirrors the C model exactly": in every state
   an update can reach, through any calls, torn saves and resets, each Rust
   function has the result of the C function, so that the unit tests of the
   copy speak of the firmware. *)
OtaMirrorAgrees ==
  /\ Rust!OtaSlotModel_new = mc_ota_init
  /\ Rust!begin_download(ota) = mc_ota_begin_download(ota)
  /\ \A ok \in BOOLEAN :
       /\ Rust!finish_download(ota, ok) = mc_ota_finish_download(ota, ok)
       /\ Rust!verify(ota, ok) = mc_ota_verify(ota, ok)
       /\ Rust!health_check(ota, ok) = mc_ota_health_check(ota, ok)
  /\ Rust!commit(ota) = mc_ota_commit(ota)
  /\ Rust!reboot(ota) = mc_ota_reboot(ota)
  /\ Rust!rollback(ota) = mc_ota_rollback(ota)
  /\ \A reason \in Reasons : Rust!abort(ota, reason) = mc_ota_abort(ota, reason)
  /\ Rust!boot_slot(ota) = mc_ota_boot_slot(ota)
  /\ Rust!select_record(page[0], page[1]) = Selected
  /\ \A p \in Pages : Rust!recover_after_reset(page[p]) = mc_ota_recover_after_reset(page[p])
============================================================================
