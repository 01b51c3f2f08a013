------------------------------ MODULE OtaSlot ------------------------------
(***************************************************************************)
(* The A/B-slot update metadata of common/src/microcar_ota_slot.c.  Every  *)
(* C function that mutates mc_ota_slot_state_t is an operator from the old *)
(* record to the new one; a call that returns early is the identity.       *)
(* Flash pages carry the fields of mc_ota_meta_record_t that some function *)
(* reads; magic, format version and record CRC are one Boolean, intact.    *)
(***************************************************************************)
EXTENDS Integers

MC_OTA_SLOT_A == 0
MC_OTA_SLOT_B == 1
Slots == {MC_OTA_SLOT_A, MC_OTA_SLOT_B}

MC_OTA_IDLE           == 0
MC_OTA_DOWNLOADING    == 1
MC_OTA_VERIFYING      == 2
MC_OTA_COMMIT_PENDING == 3
MC_OTA_REBOOTING      == 4
MC_OTA_HEALTHY        == 5
MC_OTA_ROLLED_BACK    == 6

Stages == {MC_OTA_IDLE, MC_OTA_DOWNLOADING, MC_OTA_VERIFYING,
           MC_OTA_COMMIT_PENDING, MC_OTA_REBOOTING, MC_OTA_HEALTHY,
           MC_OTA_ROLLED_BACK}

(* mc_ota_slot_state_t, with `uint8_t' flags as Booleans. *)
SlotState(Reasons) ==
  [active_slot : Slots, target_slot : Slots, state : Stages,
   image_written : BOOLEAN, crc_ok : BOOLEAN, committed : BOOLEAN,
   boot_healthy : BOOLEAN, rolled_back : BOOLEAN, abort_reason : Reasons]

other_slot(slot) == IF slot = MC_OTA_SLOT_A THEN MC_OTA_SLOT_B ELSE MC_OTA_SLOT_A

mc_ota_init ==
  [active_slot |-> MC_OTA_SLOT_A, target_slot |-> MC_OTA_SLOT_A,
   state |-> MC_OTA_IDLE, image_written |-> FALSE, crc_ok |-> FALSE,
   committed |-> FALSE, boot_healthy |-> FALSE, rolled_back |-> FALSE,
   abort_reason |-> 0]

----------------------------------------------------------------------------

(* Operators named ..._faulty are deliberate mistakes, one per property of
   OtaUpdate: the form of the operator after them that the property excludes. *)

(* Fault: a HEALTHY update can be undone. *)
rollback_faulty(s) ==
  [s EXCEPT !.target_slot = s.active_slot, !.image_written = FALSE,
            !.committed = FALSE, !.boot_healthy = FALSE,
            !.rolled_back = TRUE, !.state = MC_OTA_ROLLED_BACK]

mc_ota_rollback(s) ==
  IF s.state = MC_OTA_HEALTHY THEN s
  ELSE [s EXCEPT !.target_slot = s.active_slot, !.image_written = FALSE,
                 !.committed = FALSE, !.boot_healthy = FALSE,
                 !.rolled_back = TRUE, !.state = MC_OTA_ROLLED_BACK]

(* Fault: the download goes to the running slot. *)
begin_download_faulty(s) ==
  IF s.state # MC_OTA_IDLE THEN s
  ELSE [s EXCEPT !.target_slot = s.active_slot,
                 !.image_written = FALSE, !.crc_ok = FALSE,
                 !.committed = FALSE, !.state = MC_OTA_DOWNLOADING]

mc_ota_begin_download(s) ==
  IF s.state # MC_OTA_IDLE THEN s
  ELSE [s EXCEPT !.target_slot = other_slot(s.active_slot),
                 !.image_written = FALSE, !.crc_ok = FALSE,
                 !.committed = FALSE, !.state = MC_OTA_DOWNLOADING]

mc_ota_finish_download(s, complete) ==
  IF s.state # MC_OTA_DOWNLOADING THEN s
  ELSE IF complete THEN [s EXCEPT !.image_written = TRUE]
  ELSE mc_ota_rollback(s)

(* Fault: the CRC result is ignored. *)
verify_faulty(s, crc_ok) ==
  IF s.state # MC_OTA_DOWNLOADING THEN s
  ELSE [s EXCEPT !.state = MC_OTA_VERIFYING, !.crc_ok = TRUE]

mc_ota_verify(s, crc_ok) ==
  LET checked == [s EXCEPT !.state = MC_OTA_VERIFYING, !.crc_ok = crc_ok]
  IN IF s.state # MC_OTA_DOWNLOADING THEN s
     ELSE IF crc_ok THEN checked
     ELSE mc_ota_rollback(checked)

mc_ota_commit(s) ==
  IF s.state # MC_OTA_VERIFYING THEN s
  ELSE IF s.image_written /\ s.crc_ok
  THEN [s EXCEPT !.committed = TRUE, !.state = MC_OTA_COMMIT_PENDING]
  ELSE mc_ota_rollback(s)

mc_ota_reboot(s) ==
  IF s.state # MC_OTA_COMMIT_PENDING THEN s
  ELSE [s EXCEPT !.state = MC_OTA_REBOOTING]

mc_ota_health_check(s, healthy) ==
  IF s.state # MC_OTA_REBOOTING THEN s
  ELSE IF healthy /\ s.committed
  THEN [s EXCEPT !.boot_healthy = TRUE, !.active_slot = s.target_slot,
                 !.state = MC_OTA_HEALTHY]
  ELSE mc_ota_rollback([s EXCEPT !.boot_healthy = FALSE])

mc_ota_abort(s, reason) ==
  IF s.state = MC_OTA_HEALTHY THEN s
  ELSE [mc_ota_rollback(s) EXCEPT !.abort_reason = reason]

(* Fault: a written image is booted before it is verified and committed. *)
boot_slot_faulty(s) == IF s.image_written THEN s.target_slot ELSE s.active_slot

mc_ota_boot_slot(s) ==
  IF s.state = MC_OTA_HEALTHY /\ s.committed THEN s.target_slot ELSE s.active_slot

----------------------------------------------------------------------------
(* The persistent record, in two flash pages. *)

MetaRecord(Reasons) ==
  [intact : BOOLEAN, active_slot : Slots, target_slot : Slots, state : Stages,
   committed : BOOLEAN, healthy : BOOLEAN, abort_reason : Reasons,
   generation : Nat]

mc_ota_record_valid(r) == r.intact

(* Fault: the older of two valid records wins. *)
select_record_faulty(a, b) ==
  IF mc_ota_record_valid(a) /\ mc_ota_record_valid(b)
  THEN {IF a.generation <= b.generation THEN a ELSE b}
  ELSE {r \in {a, b} : mc_ota_record_valid(r)}

(* The C function returns a pointer to a or b, or NULL; here the set that
   holds the chosen record, empty for NULL. *)
mc_ota_select_record(a, b) ==
  IF mc_ota_record_valid(a) /\ mc_ota_record_valid(b)
  THEN {IF a.generation >= b.generation THEN a ELSE b}
  ELSE {r \in {a, b} : mc_ota_record_valid(r)}

mc_ota_recover_after_reset(r) ==
  [active_slot |-> r.active_slot, target_slot |-> r.target_slot,
   state |-> r.state, committed |-> r.committed, boot_healthy |-> r.healthy,
   abort_reason |-> r.abort_reason,
   image_written |-> r.state >= MC_OTA_COMMIT_PENDING,
   crc_ok |-> r.state >= MC_OTA_COMMIT_PENDING,
   rolled_back |-> r.state = MC_OTA_ROLLED_BACK]
============================================================================
