-------------------------- MODULE OtaUpdateProofs --------------------------
(***************************************************************************)
(* The A/B update is safe for every set of abort reasons and any number of *)
(* saves.  The safety invariants are not inductive alone: slot A must stay *)
(* good because a boot path that finds no valid record falls back to it,   *)
(* and a valid flash record must never be ahead of RAM, because a download *)
(* overwrites the slot such a record would arm.                            *)
(***************************************************************************)
EXTENDS OtaMirror, TLAPS

(* What a stage of the update implies, for RAM and for a valid record. *)
StageOK(state, active, target, committed) ==
  /\ state # MC_OTA_HEALTHY => active = MC_OTA_SLOT_A
  /\ state \in {MC_OTA_DOWNLOADING, MC_OTA_VERIFYING} => target = MC_OTA_SLOT_B
  /\ state \in MC_OTA_COMMIT_PENDING..MC_OTA_HEALTHY =>
       committed /\ image[target] = "good"
  /\ state = MC_OTA_HEALTHY => active = target

RamOK ==
  /\ StageOK(ota.state, ota.active_slot, ota.target_slot, ota.committed)
  /\ ota.state = MC_OTA_VERIFYING /\ ota.crc_ok => image[ota.target_slot] = "good"
  /\ ota.state \in MC_OTA_COMMIT_PENDING..MC_OTA_HEALTHY =>
       ota.image_written /\ ota.crc_ok

PageOK(r) == r.intact => StageOK(r.state, r.active_slot, r.target_slot, r.committed)

(* The inductive invariant. *)
IInv ==
  /\ TypeOK
  /\ image[MC_OTA_SLOT_A] = "good"
  /\ RamOK
  /\ \A p \in Pages : PageOK(page[p])
  /\ FlashBehindRam

USE DEF MC_OTA_SLOT_A, MC_OTA_SLOT_B, Slots, MC_OTA_IDLE, MC_OTA_DOWNLOADING,
        MC_OTA_VERIFYING, MC_OTA_COMMIT_PENDING, MC_OTA_REBOOTING,
        MC_OTA_HEALTHY, MC_OTA_ROLLED_BACK, Stages, Pages, Image

(* The record the boot path selects is one of the pages, and valid. *)
LEMMA SelectedValid ==
  ASSUME NEW r \in Selected PROVE r.intact /\ \E p \in Pages : r = page[p]
  BY DEF Selected, mc_ota_select_record, mc_ota_record_valid

(* IInv gives the invariants that are checked on the small instance. *)
LEMMA IInvImplies ==
  IInv => TypeOK /\ BootSlotGood /\ ArmedSlotGood /\ FlashBehindRam
  BY DEF IInv, TypeOK, SlotState, RamOK, StageOK, BootSlotGood, ArmedSlotGood,
         mc_ota_boot_slot

LEMMA InitIInv == Init => IInv
  BY OtaAssumption DEF Init, IInv, TypeOK, RamOK, StageOK, PageOK, FlashBehindRam, Blank,
     mc_ota_init, SlotState, MetaRecord

(* A rollback either leaves a HEALTHY update alone or ends in ROLLED_BACK on
   the active slot. *)
LEMMA RollbackStage ==
  ASSUME NEW s \in SlotState(Reasons)
  PROVE  LET r == mc_ota_rollback(s)
         IN /\ r \in SlotState(Reasons)
            /\ r.active_slot = s.active_slot
            /\ s.state = MC_OTA_HEALTHY => r = s
            /\ s.state # MC_OTA_HEALTHY => r.state = MC_OTA_ROLLED_BACK
  BY DEF mc_ota_rollback, SlotState

(* What a call must establish about RAM: it moves forward and is OK. *)
Forward == ota.state <= ota'.state /\ ota' \in SlotState(Reasons) /\ RamOK'

(* Rolling back, from any record with the active slot of RAM, goes forward. *)
LEMMA RollbackForward ==
  ASSUME IInv, UNCHANGED image, ota.state # MC_OTA_HEALTHY,
         NEW s \in SlotState(Reasons), s.state # MC_OTA_HEALTHY,
         s.active_slot = ota.active_slot, ota' = mc_ota_rollback(s)
  PROVE  Forward
<1>1. /\ ota' \in SlotState(Reasons)
      /\ ota'.active_slot = MC_OTA_SLOT_A
      /\ ota'.state = MC_OTA_ROLLED_BACK
  BY RollbackStage DEF IInv, RamOK, StageOK
<1>2. ota.state \in Stages
  BY DEF IInv, TypeOK, SlotState
<1> QED BY <1>1, <1>2 DEF Forward, RamOK, StageOK

(* The calls that leave the images and flash alone preserve IInv. *)
LEMMA CallIInv ==
  ASSUME IInv, UNCHANGED <<image, page>>,
         \/ Verify \/ Commit \/ Reboot \/ Rollback
         \/ \E healthy \in BOOLEAN : HealthCheck(healthy)
         \/ \E reason \in Reasons : Abort(reason)
  PROVE  IInv'
<1>0. ota \in SlotState(Reasons) /\ image \in [Slots -> Image] /\ RamOK
  BY DEF IInv, TypeOK
<1> SUFFICES Forward
  <2> SUFFICES ASSUME Forward PROVE IInv'
    OBVIOUS
  <2>1. FlashBehindRam'
    BY DEF Forward, IInv, TypeOK, FlashBehindRam, Selected, MetaRecord, SlotState
  <2>2. \A p \in Pages : PageOK(page[p])'
    BY DEF IInv, PageOK, StageOK
  <2> QED BY <2>1, <2>2 DEF IInv, TypeOK, Forward
<1>1. ASSUME ota' = ota PROVE Forward
  BY <1>0, <1>1 DEF Forward, SlotState, RamOK, StageOK
<1>2. CASE Verify
  <2> DEFINE crc == image[ota.target_slot] = "good"
             checked == [ota EXCEPT !.state = MC_OTA_VERIFYING, !.crc_ok = crc]
  <2>1. CASE ota.state # MC_OTA_DOWNLOADING
    BY <1>1, <1>2, <2>1 DEF Verify, mc_ota_verify
  <2>2. CASE ota.state = MC_OTA_DOWNLOADING /\ crc
    <3>1. ota' = [ota EXCEPT !.state = MC_OTA_VERIFYING, !.crc_ok = TRUE]
      BY <1>2, <2>2 DEF Verify, mc_ota_verify
    <3>2. /\ ota' \in SlotState(Reasons) /\ ota'.state = MC_OTA_VERIFYING
          /\ ota'.active_slot = ota.active_slot /\ ota'.target_slot = ota.target_slot
      BY <1>0, <3>1 DEF SlotState
    <3> QED BY <1>0, <2>2, <3>2 DEF Forward, RamOK, StageOK
  <2>3. CASE ota.state = MC_OTA_DOWNLOADING /\ ~crc
    <3>1. ota' = mc_ota_rollback(checked)
      BY <1>2, <2>3 DEF Verify, mc_ota_verify
    <3>2. checked = [ota EXCEPT !.state = MC_OTA_VERIFYING, !.crc_ok = FALSE]
      BY <2>3
    <3> HIDE DEF checked
    <3>3. checked \in SlotState(Reasons)
      BY <1>0, <3>2 DEF SlotState
    <3>4. checked.state # MC_OTA_HEALTHY /\ checked.active_slot = ota.active_slot
      BY <1>0, <3>2 DEF SlotState
    <3> QED BY <2>3, <3>1, <3>3, <3>4, RollbackForward
  <2> QED BY <2>1, <2>2, <2>3
<1>3. CASE Commit
  <2>1. CASE ota' = mc_ota_rollback(ota) /\ ota.state = MC_OTA_VERIFYING
    BY <1>0, <2>1, RollbackForward
  <2>2. CASE /\ ota' = [ota EXCEPT !.committed = TRUE, !.state = MC_OTA_COMMIT_PENDING]
             /\ ota.state = MC_OTA_VERIFYING /\ ota.image_written /\ ota.crc_ok
    <3>1. /\ ota' \in SlotState(Reasons) /\ ota'.state = MC_OTA_COMMIT_PENDING
          /\ ota'.active_slot = ota.active_slot /\ ota'.target_slot = ota.target_slot
          /\ ota'.committed /\ ota'.image_written /\ ota'.crc_ok
      BY <1>0, <2>2 DEF SlotState
    <3> QED BY <1>0, <2>2, <3>1 DEF Forward, RamOK, StageOK
  <2> QED BY <1>1, <1>3, <2>1, <2>2 DEF Commit, mc_ota_commit
<1>4. CASE Reboot
  BY <1>0, <1>4 DEF Reboot, mc_ota_reboot, Forward, SlotState, RamOK, StageOK
<1>5. CASE Rollback
  <2>1. CASE ota.state = MC_OTA_HEALTHY
    BY <1>1, <1>5, <2>1 DEF Rollback, mc_ota_rollback
  <2>2. CASE ota.state # MC_OTA_HEALTHY
    BY <1>0, <1>5, <2>2, RollbackForward DEF Rollback
  <2> QED BY <2>1, <2>2
<1>6. ASSUME NEW healthy \in BOOLEAN, HealthCheck(healthy) PROVE Forward
  <2> DEFINE failed == [ota EXCEPT !.boot_healthy = FALSE]
  <2>1. CASE ota.state # MC_OTA_REBOOTING
    BY <1>1, <1>6, <2>1 DEF HealthCheck, mc_ota_health_check
  <2>2. CASE ota.state = MC_OTA_REBOOTING /\ healthy /\ ota.committed
    <3>1. /\ ota' \in SlotState(Reasons) /\ ota'.state = MC_OTA_HEALTHY
          /\ ota'.active_slot = ota.target_slot /\ ota'.target_slot = ota.target_slot
          /\ ota'.committed /\ ota'.image_written = ota.image_written
          /\ ota'.crc_ok = ota.crc_ok
      BY <1>0, <1>6, <2>2 DEF HealthCheck, mc_ota_health_check, SlotState
    <3> QED BY <1>0, <2>2, <3>1 DEF Forward, RamOK, StageOK
  <2>3. CASE ota.state = MC_OTA_REBOOTING /\ ~(healthy /\ ota.committed)
    <3>1. ota' = mc_ota_rollback(failed)
      BY <1>6, <2>3 DEF HealthCheck, mc_ota_health_check
    <3>2. /\ failed \in SlotState(Reasons) /\ failed.state = ota.state
          /\ failed.active_slot = ota.active_slot
      BY <1>0 DEF SlotState
    <3> HIDE DEF failed
    <3> QED BY <2>3, <3>1, <3>2, RollbackForward
  <2> QED BY <2>1, <2>2, <2>3
<1>7. ASSUME NEW reason \in Reasons, Abort(reason) PROVE Forward
  <2>1. CASE ota.state = MC_OTA_HEALTHY
    BY <1>1, <1>7, <2>1 DEF Abort, mc_ota_abort
  <2>2. CASE ota.state # MC_OTA_HEALTHY
    <3>1. /\ ota' \in SlotState(Reasons)
          /\ ota'.active_slot = MC_OTA_SLOT_A
          /\ ota'.state = MC_OTA_ROLLED_BACK
      BY <1>0, <1>7, <2>2, RollbackStage
         DEF Abort, mc_ota_abort, RamOK, StageOK, SlotState
    <3> QED BY <1>0, <3>1 DEF Forward, RamOK, StageOK, SlotState
  <2> QED BY <2>1, <2>2
<1> QED BY <1>2, <1>3, <1>4, <1>5, <1>6, <1>7

(* Downloads write slot B only, and while RAM is IDLE or DOWNLOADING no valid
   record depends on what slot B holds. *)
LEMMA DownloadIInv ==
  ASSUME IInv, UNCHANGED page,
         \/ BeginDownload
         \/ \E complete \in BOOLEAN, received \in {"good", "bad"} :
              FinishDownload(complete, received)
  PROVE  IInv'
<1>0. /\ ota \in SlotState(Reasons) /\ image \in [Slots -> Image] /\ RamOK
      /\ page \in [Pages -> MetaRecord(Reasons)]
      /\ image[MC_OTA_SLOT_A] = "good" /\ FlashBehindRam
  BY DEF IInv, TypeOK
<1>1. ASSUME ota.state \in {MC_OTA_IDLE, MC_OTA_DOWNLOADING},
             ota' \in SlotState(Reasons), ota.state <= ota'.state,
             ota'.active_slot = MC_OTA_SLOT_A,
             \/ ota'.state = MC_OTA_DOWNLOADING /\ ota'.target_slot = MC_OTA_SLOT_B
             \/ ota'.state = MC_OTA_ROLLED_BACK,
             NEW i \in Image, image' = [image EXCEPT ![MC_OTA_SLOT_B] = i]
      PROVE  IInv'
  <2>1. image' \in [Slots -> Image] /\ image'[MC_OTA_SLOT_A] = "good"
    BY <1>0, <1>1
  <2>2. RamOK'
    BY <1>1 DEF RamOK, StageOK
  <2>3. \A p \in Pages : PageOK(page[p])'
    <3> SUFFICES ASSUME NEW p \in Pages, page[p].intact PROVE PageOK(page[p])'
      BY DEF PageOK
    <3>1. page[p].state \in {MC_OTA_IDLE, MC_OTA_DOWNLOADING}
      BY <1>0, <1>1 DEF FlashBehindRam, MetaRecord
    <3> QED BY <1>0, <3>1 DEF IInv, PageOK, StageOK
  <2>4. FlashBehindRam'
    BY <1>0, <1>1 DEF FlashBehindRam, Selected, MetaRecord, SlotState
  <2> QED BY <1>0, <1>1, <2>1, <2>2, <2>3, <2>4 DEF IInv, TypeOK
<1>2. ASSUME UNCHANGED <<ota, image>> PROVE IInv'
  BY <1>2 DEF IInv, TypeOK, RamOK, StageOK, PageOK, FlashBehindRam, Selected
<1>3. CASE BeginDownload
  <2>1. CASE ota.state # MC_OTA_IDLE
    BY <1>2, <1>3, <2>1 DEF BeginDownload, mc_ota_begin_download
  <2>2. CASE ota.state = MC_OTA_IDLE
    <3>1. ota.active_slot = MC_OTA_SLOT_A
      BY <1>0, <2>2 DEF RamOK, StageOK
    <3>2. /\ ota' \in SlotState(Reasons) /\ ota'.active_slot = MC_OTA_SLOT_A
          /\ ota'.state = MC_OTA_DOWNLOADING /\ ota'.target_slot = MC_OTA_SLOT_B
      BY <1>0, <1>3, <2>2, <3>1
         DEF BeginDownload, mc_ota_begin_download, other_slot, SlotState
    <3>3. image' = [image EXCEPT ![MC_OTA_SLOT_B] = "partial"]
      BY <1>3, <2>2, <3>2 DEF BeginDownload
    <3> QED BY <1>1, <2>2, <3>2, <3>3
  <2> QED BY <2>1, <2>2
<1>4. ASSUME NEW complete \in BOOLEAN, NEW received \in {"good", "bad"},
             FinishDownload(complete, received)
      PROVE  IInv'
  <2>1. CASE ota.state # MC_OTA_DOWNLOADING
    BY <1>2, <1>4, <2>1 DEF FinishDownload, mc_ota_finish_download
  <2>2. CASE ota.state = MC_OTA_DOWNLOADING /\ complete
    <3>1. ota.active_slot = MC_OTA_SLOT_A /\ ota.target_slot = MC_OTA_SLOT_B
      BY <1>0, <2>2 DEF RamOK, StageOK
    <3>2. /\ ota' \in SlotState(Reasons) /\ ota'.active_slot = MC_OTA_SLOT_A
          /\ ota'.state = MC_OTA_DOWNLOADING /\ ota'.target_slot = MC_OTA_SLOT_B
      BY <1>0, <1>4, <2>2, <3>1 DEF FinishDownload, mc_ota_finish_download, SlotState
    <3>3. image' = [image EXCEPT ![MC_OTA_SLOT_B] = received]
      BY <1>4, <2>2, <3>1 DEF FinishDownload
    <3>4. received \in Image /\ ota.state = MC_OTA_DOWNLOADING
      BY <2>2
    <3>5. ota.state <= ota'.state
      BY <3>2, <3>4
    <3> QED BY <1>1, <3>2, <3>3, <3>4, <3>5, Zenon
  <2>3. CASE ota.state = MC_OTA_DOWNLOADING /\ ~complete
    <3>1. ota' = mc_ota_rollback(ota) /\ image' = image
      BY <1>4, <2>3 DEF FinishDownload, mc_ota_finish_download
    <3>2. Rollback
      BY <3>1 DEF Rollback
    <3> QED BY <3>1, <3>2, CallIInv
  <2> QED BY <2>1, <2>2, <2>3
<1> QED BY <1>3, <1>4

(* A save replaces the page that is not selected.  An intact one becomes the
   selected record, since its generation exceeds the other page's. *)
LEMMA SaveIInv ==
  ASSUME IInv, NEW p \in Pages, NEW intact \in BOOLEAN, Save(p, intact)
  PROVE  IInv'
<1>0. /\ ota \in SlotState(Reasons) /\ image \in [Slots -> Image] /\ RamOK
      /\ page \in [Pages -> MetaRecord(Reasons)]
      /\ FlashBehindRam /\ ota' = ota /\ image' = image
  BY DEF IInv, TypeOK, Save
<1> DEFINE q == 1 - p
<1>1. q \in Pages /\ q # p /\ Pages = {p, q}
  OBVIOUS
<1>2. NextGeneration \in Nat /\ (page[q].intact => page[q].generation < NextGeneration)
  <2>1. CASE Selected = {}
    BY <1>0, <1>1, <2>1
       DEF NextGeneration, Selected, mc_ota_select_record, mc_ota_record_valid
  <2>2. CASE Selected # {}
    <3>1. Selected = {page[q]}
      BY <2>2 DEF Save
    <3>2. (CHOOSE r \in Selected : TRUE) = page[q]
      BY <3>1
    <3>3. NextGeneration = 1 + page[q].generation
      BY <2>2, <3>2 DEF NextGeneration
    <3>4. page[q].generation \in Nat
      BY <1>0, <1>1 DEF MetaRecord
    <3> QED BY <3>3, <3>4
  <2> QED BY <2>1, <2>2
<1>3. /\ page' \in [Pages -> MetaRecord(Reasons)]
      /\ page'[q] = page[q]
      /\ page'[p].intact = intact /\ page'[p].state = ota.state
      /\ page'[p].active_slot = ota.active_slot
      /\ page'[p].target_slot = ota.target_slot
      /\ page'[p].committed = ota.committed
      /\ page'[p].generation = NextGeneration
  BY <1>0, <1>1, <1>2 DEF Save, SlotState, MetaRecord
<1>4. \A x \in Pages : PageOK(page[x])'
  <2>1. PageOK(page[q])'
    BY <1>0, <1>1, <1>3 DEF IInv, PageOK, StageOK
  <2>2. PageOK(page[p])'
    BY <1>0, <1>3 DEF RamOK, PageOK, StageOK
  <2> QED BY <1>1, <2>1, <2>2
<1>5. FlashBehindRam'
  <2>1. page[q].intact => page[q].state <= ota.state
    BY <1>0, <1>1 DEF FlashBehindRam
  <2>2. \A r \in Selected' : r.state = ota.state \/ (~intact /\ r = page[q])
    BY <1>0, <1>1, <1>2, <1>3
       DEF Selected, mc_ota_select_record, mc_ota_record_valid, MetaRecord
  <2>3. ota.state \in Stages
    BY <1>0 DEF SlotState
  <2>4. page[q].state \in Stages
    BY <1>0, <1>1 DEF MetaRecord
  <2> QED BY <1>0, <1>1, <1>3, <2>1, <2>2, <2>3, <2>4 DEF FlashBehindRam
<1> QED BY <1>0, <1>3, <1>4, <1>5 DEF IInv, TypeOK, RamOK, StageOK

(* A reset rebuilds RAM from the selected record, or from scratch. *)
LEMMA ResetIInv == ASSUME IInv, Reset PROVE IInv'
<1>0. /\ image \in [Slots -> Image] /\ image[MC_OTA_SLOT_A] = "good"
      /\ page \in [Pages -> MetaRecord(Reasons)]
      /\ FlashBehindRam /\ image' = image /\ page' = page
  BY DEF IInv, TypeOK, Reset
<1>1. (\A p \in Pages : PageOK(page[p])') /\ Selected' = Selected
  BY <1>0 DEF IInv, PageOK, StageOK, Selected
<1>2. CASE Selected = {} /\ ota' = mc_ota_init
  <2>1. \A p \in Pages : ~page[p].intact
    BY <1>0, <1>2 DEF Selected, mc_ota_select_record, mc_ota_record_valid
  <2>2. ota' \in SlotState(Reasons) /\ RamOK'
    BY <1>0, <1>2, OtaAssumption DEF mc_ota_init, SlotState, RamOK, StageOK
  <2> QED BY <1>0, <1>1, <2>1, <2>2 DEF IInv, TypeOK, FlashBehindRam
<1>3. ASSUME NEW r \in Selected, ota' = mc_ota_recover_after_reset(r) PROVE IInv'
  <2>1. r \in MetaRecord(Reasons) /\ PageOK(r) /\ r.intact
    BY <1>0, SelectedValid DEF IInv
  <2>2. /\ ota'.state = r.state /\ ota'.committed = r.committed
        /\ ota'.active_slot = r.active_slot /\ ota'.target_slot = r.target_slot
    BY <1>3 DEF mc_ota_recover_after_reset
  <2>3. /\ ota'.image_written = (r.state >= MC_OTA_COMMIT_PENDING)
        /\ ota'.crc_ok = (r.state >= MC_OTA_COMMIT_PENDING)
    BY <1>3, Zenon DEF mc_ota_recover_after_reset
  <2>4. ota' \in SlotState(Reasons)
    <3> DEFINE w == r.state >= MC_OTA_COMMIT_PENDING
               b == r.state = MC_OTA_ROLLED_BACK
    <3>1. w \in BOOLEAN /\ b \in BOOLEAN
      OBVIOUS
    <3>2. ota' = [active_slot |-> r.active_slot, target_slot |-> r.target_slot,
                  state |-> r.state, committed |-> r.committed,
                  boot_healthy |-> r.healthy, abort_reason |-> r.abort_reason,
                  image_written |-> w, crc_ok |-> w, rolled_back |-> b]
      BY <1>3, Zenon DEF mc_ota_recover_after_reset
    <3> HIDE DEF w, b
    <3> QED BY <2>1, <3>1, <3>2 DEF SlotState, MetaRecord
  <2>5. RamOK'
    <3>1. /\ r.state >= MC_OTA_COMMIT_PENDING => ota'.image_written /\ ota'.crc_ok
          /\ ~(r.state >= MC_OTA_COMMIT_PENDING) => ~ota'.crc_ok
      BY <2>3, Zenon
    <3>2. /\ r.state \in MC_OTA_COMMIT_PENDING..MC_OTA_HEALTHY =>
               ota'.image_written /\ ota'.crc_ok
          /\ r.state = MC_OTA_VERIFYING => ~ota'.crc_ok
      BY <3>1
    <3> QED BY <1>0, <2>1, <2>2, <3>2 DEF PageOK, RamOK, StageOK
  <2>6. FlashBehindRam'
    BY <1>0, <1>1, <2>2 DEF FlashBehindRam
  <2> QED BY <1>0, <1>1, <2>4, <2>5, <2>6 DEF IInv, TypeOK
<1> QED BY <1>2, <1>3 DEF Reset

LEMMA NextIInv == IInv /\ [Next]_vars => IInv'
<1> SUFFICES ASSUME IInv, [Next]_vars PROVE IInv'
  OBVIOUS
<1>1. CASE UNCHANGED vars
  BY <1>1 DEF vars, IInv, TypeOK, RamOK, StageOK, PageOK, FlashBehindRam, Selected
<1>2. CASE Next
  <2>1. CASE \E p \in Pages, intact \in BOOLEAN : Save(p, intact)
    BY <2>1, SaveIInv
  <2>2. CASE Reset
    BY <2>2, ResetIInv
  <2>3. CASE \/ BeginDownload
             \/ \E complete \in BOOLEAN, received \in {"good", "bad"} :
                  FinishDownload(complete, received)
    BY <2>3, DownloadIInv DEF BeginDownload, FinishDownload
  <2>4. CASE \/ Verify \/ Commit \/ Reboot \/ Rollback
             \/ \E healthy \in BOOLEAN : HealthCheck(healthy)
             \/ \E reason \in Reasons : Abort(reason)
    BY <2>4, CallIInv DEF Verify, Commit, Reboot, Rollback, HealthCheck, Abort
  <2> QED BY <1>2, <2>1, <2>2, <2>3, <2>4 DEF Next
<1> QED BY <1>1, <1>2

(* IInv holds throughout, for all constants. *)
LEMMA AlwaysIInv == Spec => []IInv
  BY InitIInv, NextIInv, PTL DEF Spec

(* The metadata and the records keep their C types. *)
THEOREM TypeCorrect == Spec => []TypeOK
  BY AlwaysIInv, IInvImplies, PTL

(* Whatever the client calls and wherever resets and torn saves fall, the
   bootloader runs a complete, valid image (mc_ota_boot_slot). *)
THEOREM BootIsSafe == Spec => []BootSlotGood
  BY AlwaysIInv, IInvImplies, PTL

(* Only a written, verified image is ever armed (mc_ota_commit), also after
   recovery from flash. *)
THEOREM ArmedIsVerified == Spec => []ArmedSlotGood
  BY AlwaysIInv, IInvImplies, PTL

(* No valid flash record is ahead of RAM or of the selected record: a reset
   can only take the update back (mc_ota_select_record). *)
THEOREM FlashIsBehind == Spec => []FlashBehindRam
  BY AlwaysIInv, IInvImplies, PTL

(* No call undoes a HEALTHY update, and only the health check switches slots
   (mc_ota_rollback, mc_ota_abort, mc_ota_health_check). *)
THEOREM HealthyStays == Spec => HealthyIsFinal
<1> DEFINE Kept == ~Reset =>
             /\ ota.state = MC_OTA_HEALTHY => ota' = ota
             /\ ota'.active_slot # ota.active_slot =>
                  ota.state = MC_OTA_REBOOTING /\ ota'.state = MC_OTA_HEALTHY
<1>1. ASSUME IInv, [Next]_vars PROVE [Kept]_vars
  <2> SUFFICES ASSUME Next, ~Reset PROVE Kept
    BY <1>1
  <2>0. ota \in SlotState(Reasons)
    BY <1>1 DEF IInv, TypeOK
  <2>1. \A s \in SlotState(Reasons) :
          /\ mc_ota_rollback(s).active_slot = s.active_slot
          /\ s.state = MC_OTA_HEALTHY => mc_ota_rollback(s) = s
    BY RollbackStage
  <2>2. CASE BeginDownload
    BY <2>0, <2>2 DEF BeginDownload, mc_ota_begin_download, SlotState
  <2>3. ASSUME NEW complete \in BOOLEAN, NEW received \in {"good", "bad"},
               FinishDownload(complete, received)
        PROVE  Kept
    BY <2>0, <2>1, <2>3 DEF FinishDownload, mc_ota_finish_download, SlotState
  <2>4. CASE Verify
    BY <2>0, <2>4 DEF Verify, mc_ota_verify, mc_ota_rollback, SlotState
  <2>5. CASE Commit
    BY <2>0, <2>1, <2>5 DEF Commit, mc_ota_commit, SlotState
  <2>6. CASE Reboot
    BY <2>0, <2>6 DEF Reboot, mc_ota_reboot, SlotState
  <2>7. ASSUME NEW healthy \in BOOLEAN, HealthCheck(healthy) PROVE Kept
    BY <2>0, <2>7 DEF HealthCheck, mc_ota_health_check, mc_ota_rollback, SlotState
  <2>8. CASE Rollback
    BY <2>0, <2>1, <2>8 DEF Rollback
  <2>9. ASSUME NEW reason \in Reasons, Abort(reason) PROVE Kept
    BY <2>0, <2>9 DEF Abort, mc_ota_abort, mc_ota_rollback, SlotState
  <2>10. ASSUME NEW p \in Pages, NEW intact \in BOOLEAN, Save(p, intact) PROVE Kept
    BY <2>10 DEF Save
  <2> QED BY <2>2, <2>3, <2>4, <2>5, <2>6, <2>7, <2>8, <2>9, <2>10 DEF Next
<1> QED BY <1>1, AlwaysIInv, PTL DEF Spec, HealthyIsFinal

(* Every behaviour of the metadata is one of SafeBoot: an update rewrites only
   the slot that is not booted and the boot slot moves only to a good image. *)
THEOREM RefinesSafeBoot == Spec => ImplementsSafeBoot
<1> DEFINE boot == mc_ota_boot_slot(ota)
           good == {s \in Slots : image[s] = "good"}
<1>1. ASSUME Init PROVE SB!Init
  BY <1>1 DEF Init, mc_ota_init, mc_ota_boot_slot, SB!Init
<1>2. ASSUME IInv, IInv', [Next]_vars PROVE [SB!Next]_(SB!bootVars)
  <2>1. boot' \in Slots /\ boot' \in good'
    <3>1. ota' \in SlotState(Reasons) /\ image'[boot'] = "good"
      <4>1. BootSlotGood'
        BY <1>2, IInvImplies, PTL
      <4> QED BY <1>2, <4>1 DEF BootSlotGood, IInv, TypeOK
    <3>2. boot' \in Slots
      BY <3>1 DEF SlotState, mc_ota_boot_slot
    <3> QED BY <3>1, <3>2
  <2>2. CASE image' = image
    <3>1. good' = good
      BY <2>2
    <3>2. SB!Switch(boot')
      BY <2>1, <3>1 DEF SB!Switch
    <3> QED BY <2>1, <3>2 DEF SB!Next
  <2>3. CASE image' # image
    <3>1. /\ ota.state # MC_OTA_HEALTHY /\ ota'.state # MC_OTA_HEALTHY
          /\ image'[MC_OTA_SLOT_A] = image[MC_OTA_SLOT_A]
      <4>1. CASE BeginDownload
        BY <1>2, <2>3, <4>1 DEF BeginDownload, mc_ota_begin_download, other_slot, IInv,
           TypeOK, SlotState, RamOK, StageOK
      <4>2. ASSUME NEW complete \in BOOLEAN, NEW received \in {"good", "bad"},
                   FinishDownload(complete, received)
            PROVE  /\ ota.state # MC_OTA_HEALTHY /\ ota'.state # MC_OTA_HEALTHY
                   /\ image'[MC_OTA_SLOT_A] = image[MC_OTA_SLOT_A]
        BY <1>2, <2>3, <4>2 DEF FinishDownload, mc_ota_finish_download, IInv,
           TypeOK, SlotState, RamOK, StageOK
      <4> QED BY <1>2, <2>3, <4>1, <4>2 DEF Next, Verify, Commit, Reboot, HealthCheck,
                 Rollback, Abort, Save, Reset, vars
    <3>2. boot = MC_OTA_SLOT_A /\ boot' = MC_OTA_SLOT_A
      BY <1>2, <3>1 DEF mc_ota_boot_slot, IInv, RamOK, StageOK
    <3>3. good' \in {good \cup {MC_OTA_SLOT_B}, good \ {MC_OTA_SLOT_B}}
      BY <3>1
    <3>4. SB!Rewrite(MC_OTA_SLOT_B)
      BY <3>2, <3>3 DEF SB!Rewrite
    <3> QED BY <3>4 DEF SB!Next
  <2> QED BY <2>2, <2>3
<1> QED BY <1>1, <1>2, AlwaysIInv, PTL DEF Spec, ImplementsSafeBoot, SB!Spec
(* The Rust copy computes what the C function computes, on any metadata and
   any record of their types. *)
LEMMA MirrorOfState ==
  ASSUME NEW s \in SlotState(Reasons)
  PROVE  /\ Rust!rollback(s) = mc_ota_rollback(s)
         /\ Rust!begin_download(s) = mc_ota_begin_download(s)
         /\ \A ok \in BOOLEAN :
              /\ Rust!finish_download(s, ok) = mc_ota_finish_download(s, ok)
              /\ Rust!verify(s, ok) = mc_ota_verify(s, ok)
              /\ Rust!health_check(s, ok) = mc_ota_health_check(s, ok)
         /\ Rust!commit(s) = mc_ota_commit(s)
         /\ Rust!reboot(s) = mc_ota_reboot(s)
         /\ \A reason \in Reasons : Rust!abort(s, reason) = mc_ota_abort(s, reason)
         /\ Rust!boot_slot(s) = mc_ota_boot_slot(s)
<1>0. s.active_slot \in Slots /\ s.state \in Stages
  BY DEF SlotState
<1>1. /\ Rust!OtaState.Idle = MC_OTA_IDLE
      /\ Rust!OtaState.Downloading = MC_OTA_DOWNLOADING
      /\ Rust!OtaState.Verifying = MC_OTA_VERIFYING
      /\ Rust!OtaState.CommitPending = MC_OTA_COMMIT_PENDING
      /\ Rust!OtaState.Rebooting = MC_OTA_REBOOTING
      /\ Rust!OtaState.Healthy = MC_OTA_HEALTHY
      /\ Rust!OtaState.RolledBack = MC_OTA_ROLLED_BACK
  BY DEF Rust!OtaState
<1>2. \A x : Rust!rollback(x) = mc_ota_rollback(x)
  BY <1>1 DEF Rust!rollback, mc_ota_rollback
<1>3. Rust!other_slot(s.active_slot) = other_slot(s.active_slot)
  BY <1>0 DEF Rust!other_slot, other_slot
<1>4. Rust!begin_download(s) = mc_ota_begin_download(s)
  BY <1>1, <1>3 DEF Rust!begin_download, mc_ota_begin_download
<1>5. ASSUME NEW ok \in BOOLEAN
      PROVE  /\ Rust!finish_download(s, ok) = mc_ota_finish_download(s, ok)
             /\ Rust!verify(s, ok) = mc_ota_verify(s, ok)
             /\ Rust!health_check(s, ok) = mc_ota_health_check(s, ok)
  <2>1. Rust!finish_download(s, ok) = mc_ota_finish_download(s, ok)
    BY <1>1, <1>2 DEF Rust!finish_download, mc_ota_finish_download
  <2>2. Rust!verify(s, ok) = mc_ota_verify(s, ok)
    BY <1>1, <1>2 DEF Rust!verify, mc_ota_verify
  <2>3. Rust!health_check(s, ok) = mc_ota_health_check(s, ok)
    BY <1>1, <1>2 DEF Rust!health_check, mc_ota_health_check
  <2> QED BY <2>1, <2>2, <2>3
<1>6. Rust!commit(s) = mc_ota_commit(s)
  BY <1>1, <1>2 DEF Rust!commit, mc_ota_commit
<1>7. Rust!reboot(s) = mc_ota_reboot(s)
  BY <1>1 DEF Rust!reboot, mc_ota_reboot
<1>8. \A reason \in Reasons : Rust!abort(s, reason) = mc_ota_abort(s, reason)
  BY <1>1, <1>2 DEF Rust!abort, mc_ota_abort
<1>9. Rust!boot_slot(s) = mc_ota_boot_slot(s)
  BY <1>1 DEF Rust!boot_slot, mc_ota_boot_slot
<1> QED BY <1>2, <1>4, <1>5, <1>6, <1>7, <1>8, <1>9

LEMMA MirrorOfRecord ==
  ASSUME NEW r \in MetaRecord(Reasons)
  PROVE  Rust!recover_after_reset(r) = mc_ota_recover_after_reset(r)
<1>1. r.state \in Stages
  BY DEF MetaRecord
<1>2. /\ Rust!OtaState.CommitPending = MC_OTA_COMMIT_PENDING
      /\ Rust!OtaState.RolledBack = MC_OTA_ROLLED_BACK
  BY DEF Rust!OtaState
<1>3. Rust!from_u8(r.state) = r.state
  BY <1>1, <1>2 DEF Rust!from_u8
<1> QED BY <1>2, <1>3, Zenon DEF Rust!recover_after_reset, mc_ota_recover_after_reset

LEMMA MirrorOfSelection ==
  ASSUME NEW a \in MetaRecord(Reasons), NEW b \in MetaRecord(Reasons)
  PROVE  Rust!select_record(a, b) = mc_ota_select_record(a, b)
<1>1. a.intact \in BOOLEAN /\ b.intact \in BOOLEAN
  BY DEF MetaRecord
<1>2. CASE a.intact /\ b.intact
  BY <1>2 DEF Rust!select_record, Rust!is_valid, mc_ota_select_record, mc_ota_record_valid
<1>3. CASE ~a.intact \/ ~b.intact
  BY <1>1, <1>3 DEF Rust!select_record, Rust!is_valid, mc_ota_select_record, mc_ota_record_valid
<1> QED BY <1>2, <1>3

(* The unit tests of state_tests/src/ota_slot.rs speak of the firmware: in
   every state of every update the Rust copy and the C functions agree. *)
THEOREM MirrorIsExact == Spec => []OtaMirrorAgrees
<1>1. TypeOK => OtaMirrorAgrees
  <2> SUFFICES ASSUME TypeOK PROVE OtaMirrorAgrees
    OBVIOUS
  <2>1. ota \in SlotState(Reasons) /\ \A p \in Pages : page[p] \in MetaRecord(Reasons)
    BY DEF TypeOK
  <2>2. Rust!OtaSlotModel_new = mc_ota_init
    BY DEF Rust!OtaSlotModel_new, Rust!OtaState, mc_ota_init
  <2>3. Rust!select_record(page[0], page[1]) = Selected
    BY <2>1, MirrorOfSelection DEF Selected
  <2>4. \A p \in Pages : Rust!recover_after_reset(page[p]) = mc_ota_recover_after_reset(page[p])
    BY <2>1, MirrorOfRecord
  <2> QED BY <2>1, <2>2, <2>3, <2>4, MirrorOfState DEF OtaMirrorAgrees
<1> QED BY <1>1, TypeCorrect, PTL
============================================================================
