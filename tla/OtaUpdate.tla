------------------------------- MODULE OtaUpdate -------------------------------
(***************************************************************************)
(* Firmware updates: ota_service.c and the upload handler of api_server.c. *)
(*                                                                         *)
(* An image is a record of what its header says and of how it behaves when *)
(* it runs ("good"; "early", which does not survive the confirmation       *)
(* delay; "modem", which crashes after it unless the modem stack is off).  *)
(* An upload has three stages: before its header is complete, while the    *)
(* rest is written, and written.  The one server task handles one upload   *)
(* at a time.  The slots and the selection are flash (esp_ota).          *)
(***************************************************************************)
EXTENDS OtaVersionPolicy

CONSTANTS Images     \* what may be uploaded

VARIABLES
    slots,       \* flash: the two application slots
    selected,    \* flash: the slot selected for the next boot
    upload       \* the session, [stage |-> "none"] when there is none

otaVars == <<slots, selected, upload>>

Slots == {"ota_0", "ota_1"}
Other(s) == IF s = "ota_0" THEN "ota_1" ELSE "ota_0"
SlotStates == {"undefined", "new", "pending", "valid", "aborted"}

Slot(image, whole, state) == [image |-> image, whole |-> whole, state |-> state]

NoUpload == [stage |-> "none"]
Decisions == {"none", "accept", "project", "secure_version", "format", "reinstall", "downgrade"}

OtaInit(factory) ==
    /\ slots = [s \in Slots |-> Slot(factory, s = "ota_0", "undefined")]
    /\ selected = "ota_0"
    /\ upload = NoUpload

-----------------------------------------------------------------------------
gateway_ota_begin_WhilePending(running, image, hashOk, reinstall, downgrade) ==
    /\ upload = NoUpload
    /\ upload' = [stage |-> "header", image |-> image, hashOk |-> hashOk,
                  reinstall |-> reinstall, downgrade |-> downgrade,
                  decision |-> "none"]
    /\ UNCHANGED <<slots, selected>>

(* gateway_ota_begin: no update before the running image is confirmed. *)
gateway_ota_begin(running, image, hashOk, reinstall, downgrade) ==
    /\ upload = NoUpload
    /\ slots[running].state # "pending"
    /\ upload' = [stage |-> "header", image |-> image, hashOk |-> hashOk,
                  reinstall |-> reinstall, downgrade |-> downgrade,
                  decision |-> "none"]
    /\ UNCHANGED <<slots, selected>>

(* gateway_ota_write completes the header: validate_prefix_and_start.      *)
(* esp_ota_begin erases the slot that does not run.                        *)
validate_prefix_and_start(running) ==
    LET decision == ota_version_policy_decide(slots[running].image, upload.image,
                                              upload.reinstall, upload.downgrade)
    IN  /\ upload.stage = "header"
        /\ upload' = [upload EXCEPT !.decision = decision,
                        !.stage = IF decision = "accept" THEN "writing" ELSE "failed"]
        /\ slots' = IF decision = "accept"
                    THEN [slots EXCEPT ![Other(running)].whole = FALSE] ELSE slots
        /\ UNCHANGED selected

(* gateway_ota_write: the rest has come. *)
gateway_ota_write ==
    /\ upload.stage = "writing"
    /\ upload' = [upload EXCEPT !.stage = "written"]
    /\ UNCHANGED <<slots, selected>>

(* The connection, the buffer or a write fails. *)
upload_fails ==
    /\ upload.stage \in {"header", "writing"}
    /\ upload' = [upload EXCEPT !.stage = "failed"]
    /\ UNCHANGED <<slots, selected>>

(* gateway_ota_abort *)
gateway_ota_abort ==
    /\ upload.stage = "failed"
    /\ upload' = NoUpload
    /\ UNCHANGED <<slots, selected>>

(* gateway_ota_finish: esp_ota_end has checked the image before it is      *)
(* selected (esp_ota_set_boot_partition).                                  *)
gateway_ota_finish(running) ==
    /\ upload.stage = "written"
    /\ upload.hashOk
    /\ slots' = [slots EXCEPT ![Other(running)] = Slot(upload.image, TRUE, "new")]
    /\ selected' = Other(running)
    /\ upload' = NoUpload

gateway_ota_finish_mismatch ==
    /\ upload.stage = "written"
    /\ ~upload.hashOk
    /\ upload' = NoUpload
    /\ UNCHANGED <<slots, selected>>

(* ota_confirm_task, when the delay is over. *)
ota_confirm(running) ==
    /\ slots' = IF slots[running].state = "pending"
                THEN [slots EXCEPT ![running].state = "valid"] ELSE slots
    /\ UNCHANGED <<selected, upload>>

-----------------------------------------------------------------------------
(* External: which slot the bootloader starts, and what it notes of it.  A *)
(* pending image did not confirm itself; it and a broken one are given up. *)

Acceptable(s) == slots[s].whole /\ slots[s].state \in {"undefined", "new", "valid"}

Bootable == Acceptable(selected) \/ Acceptable(Other(selected))

Started == IF Acceptable(selected) THEN selected ELSE Other(selected)

Boots ==
    /\ selected' = Started
    /\ slots' = [s \in Slots |->
                   IF s = Started
                   THEN [slots[s] EXCEPT !.state = IF @ = "new" THEN "pending" ELSE @]
                   ELSE IF s = selected THEN [slots[s] EXCEPT !.state = "aborted"]
                   ELSE slots[s]]
    /\ upload' = NoUpload

OtaTypeOK ==
    /\ slots \in [Slots -> [image : Images, whole : BOOLEAN, state : SlotStates]]
    /\ selected \in Slots
    /\ upload \in {NoUpload} \cup
         [stage : {"header", "writing", "written", "failed"}, image : Images,
          hashOk : BOOLEAN, reinstall : BOOLEAN, downgrade : BOOLEAN, decision : Decisions]
=============================================================================
