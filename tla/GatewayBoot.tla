------------------------------ MODULE GatewayBoot ------------------------------
(***************************************************************************)
(* A boot of the gateway and what survives it: app_main.c, gateway_diag.c  *)
(* (crash counter, safe mode, what is told of the last reset), and the     *)
(* update of the firmware (OtaUpdate).  Resets come at any moment.         *)
(*                                                                         *)
(* The reasons of a reset stand for their kinds: panic leaves a core dump, *)
(* brownout is every other abnormal one.                                   *)
(***************************************************************************)
EXTENDS OtaUpdate

CONSTANTS
    Factory,          \* the image flashed at first
    SafeAfter,        \* DIAG_SAFE_MODE_CRASHES
    DeepAfter,        \* DIAG_SAFE_MODE_DEEP_CRASHES
    MaxDisturbances   \* bound: faults, uploads and requests

VARIABLES
    app,       \* this boot
    rtc,       \* s_rtc_crashes, counted up to DeepAfter
    crumbs,    \* flash: what a boot leaves for the next one to tell
    left,      \* disturbances left
    seen       \* history: [streak, why, ended] of the resets so far

vars == <<slots, selected, upload, app, rtc, crumbs, left, seen>>

ASSUME BootAssumption ==
    /\ SafeAfter \in Nat /\ DeepAfter \in Nat /\ 0 < SafeAfter /\ SafeAfter < DeepAfter
    /\ MaxDisturbances \in Nat
    /\ Factory \in Images
    /\ Factory.kind = "good" /\ Factory.version # Malformed
    /\ \A image \in Images : /\ image.secure \in Nat
                            /\ image.version \in {Malformed} \cup Versions

Abnormal(reason) == reason \in {"panic", "brownout"}

Counted(n) == IF n + 1 > DeepAfter THEN DeepAfter ELSE n + 1

(* gateway_safe_mode_t: 0 off, 1 no modem, 2 no modem and no display *)
ModeAfter(crashes) ==
    IF crashes >= DeepAfter THEN 2 ELSE IF crashes >= SafeAfter THEN 1 ELSE 0

NoCrumbs == [cause |-> "none", fatal |-> FALSE, dump |-> FALSE, text |-> "none"]

CrumbType ==
    [cause : {"none", "requested", "update"}, fatal : BOOLEAN, dump : BOOLEAN,
     text : {"none", "step", "panic", "brownout"}]

AppType ==
    [slot : Slots, ready : BOOLEAN, stable : BOOLEAN, confirm : BOOLEAN, mode : 0..2,
     cause : {"none", "not_recorded", "requested", "update"}, fresh : BOOLEAN,
     restart : {"none", "requested", "update"}]

Boot(slot, mode, cause, fresh) ==
    [slot |-> slot, ready |-> FALSE, stable |-> FALSE, confirm |-> FALSE,
     mode |-> mode, cause |-> cause, fresh |-> fresh, restart |-> "none"]

Init ==
    /\ OtaInit(Factory)
    /\ app = Boot("ota_0", 0, "none", FALSE)
    /\ rtc = 0
    /\ crumbs = NoCrumbs
    /\ left = MaxDisturbances
    /\ seen = [streak |-> 0, why |-> "none", ended |-> "poweron"]

Disturb == left > 0 /\ left' = left - 1

-----------------------------------------------------------------------------
(* gateway_diag_init *)

Crashes_NotCleared(reason, lost) ==
    IF Abnormal(reason) THEN Counted(IF lost THEN 0 ELSE rtc)
    ELSE IF lost THEN 0 ELSE rtc

Crashes(reason, lost) == IF Abnormal(reason) THEN Counted(IF lost THEN 0 ELSE rtc) ELSE 0

RestartCause(reason, left_by) ==
    IF reason # "sw" THEN "none"
    ELSE IF left_by.cause = "none" THEN "not_recorded" ELSE left_by.cause

Fresh(reason, left_by) ==
    left_by.fatal \/ (left_by.dump /\ Abnormal(reason)) \/ reason = "brownout"

CrashText(reason, left_by) ==
    IF left_by.fatal THEN "step"
    ELSE IF left_by.dump THEN "panic"
    ELSE IF reason = "brownout" THEN "brownout" ELSE left_by.text

TakenCrumbs_KeepCause(reason, left_by) ==
    [NoCrumbs EXCEPT !.text = CrashText(reason, left_by), !.cause = left_by.cause]

(* take_string erases what it reads; a core dump is erased as well. *)
TakenCrumbs(reason, left_by) == [NoCrumbs EXCEPT !.text = CrashText(reason, left_by)]

(* A reset: the bootloader, then app_main up to gateway_diag_init.         *)
(* left_by: the crumbs it finds; lost: RTC memory did not survive;         *)
(* why, ended: what happened really, for the history.                      *)
Reset(reason, lost, left_by, why, ended) ==
    /\ Bootable
    /\ Boots
    /\ rtc' = Crashes(reason, lost)
    /\ app' = Boot(Started, ModeAfter(rtc'), RestartCause(reason, left_by),
                   Fresh(reason, left_by))
    /\ crumbs' = TakenCrumbs(reason, left_by)
    /\ seen' = [streak |-> IF ~Abnormal(reason) THEN 0
                           ELSE IF lost THEN 1 ELSE Counted(seen.streak),
                why |-> why, ended |-> ended]

-----------------------------------------------------------------------------
(* What ends a boot. *)

Kind == slots[app.slot].image.kind

Faulty ==
    \/ Kind = "early"
    \/ Kind = "modem" /\ app.mode < 1
    \/ Kind = "display" /\ app.mode < 2

WithDump == [crumbs EXCEPT !.dump = TRUE]

(* The image crashes by its own fault, before it has run for long. *)
FaultyCrash ==
    /\ Faulty
    /\ ~app.stable
    /\ Reset("panic", FALSE, WithDump, "none", "panic")
    /\ UNCHANGED left

AnyCrash ==
    /\ Disturb
    /\ Reset("panic", FALSE, WithDump, "none", "panic")

PowerDips ==
    /\ Disturb
    /\ \E lost \in BOOLEAN : Reset("brownout", lost, crumbs, "none", "brownout")

PowerOn ==
    /\ Disturb
    /\ Reset("poweron", TRUE, crumbs, "none", "poweron")

(* gateway_diag_boot_step_failed: the step is noted, then abort(). *)
gateway_diag_boot_step_failed ==
    /\ Disturb
    /\ ~app.ready
    /\ \E reason \in {"panic", "poweron"} :
         Reset(reason, reason = "poweron", [WithDump EXCEPT !.fatal = TRUE], "none", "step")

(* gateway_diag_restart; noting the cause may fail, or be the last thing   *)
(* that works.                                                             *)
gateway_diag_restart ==
    /\ app.restart # "none"
    /\ Reset("sw", FALSE, [crumbs EXCEPT !.cause = app.restart], app.restart, "sw")
    /\ UNCHANGED left

restart_not_noted ==
    /\ Disturb
    /\ app.restart # "none"
    /\ Reset("sw", FALSE, crumbs, app.restart, "sw")

restart_crashes ==
    /\ Disturb
    /\ app.restart # "none"
    /\ Reset("panic", FALSE, [WithDump EXCEPT !.cause = app.restart], "none", "panic")

-----------------------------------------------------------------------------
(* What happens during a boot. *)

mark_services_ready_Confirms ==
    /\ ~app.ready
    /\ app' = [app EXCEPT !.ready = TRUE]
    /\ ota_confirm(app.slot)
    /\ UNCHANGED <<rtc, crumbs, left, seen>>

(* app_main is through: gateway_ota_mark_services_ready starts the delay   *)
(* of a pending image.                                                     *)
mark_services_ready ==
    /\ ~app.ready
    /\ app' = [app EXCEPT !.ready = TRUE, !.confirm = slots[app.slot].state = "pending"]
    /\ UNCHANGED <<slots, selected, upload, rtc, crumbs, left, seen>>

(* The delay is over, for an image that is still alive then. *)
confirm_task ==
    /\ app.confirm
    /\ Kind # "early"
    /\ app' = [app EXCEPT !.confirm = FALSE]
    /\ ota_confirm(app.slot)
    /\ UNCHANGED <<rtc, crumbs, left, seen>>

(* A minute after the start, for an image that is still alive then. *)
stable_cb ==
    /\ ~app.stable
    /\ ~Faulty
    /\ app' = [app EXCEPT !.stable = TRUE]
    /\ rtc' = 0
    /\ seen' = [seen EXCEPT !.streak = 0]
    /\ UNCHANGED <<slots, selected, upload, crumbs, left>>

(* A restart over the API, MQTT or the setup of Wi-Fi; it happens a little *)
(* later.                                                                  *)
request_restart ==
    /\ Disturb
    /\ app.ready
    /\ app.restart = "none"
    /\ app' = [app EXCEPT !.restart = "requested"]
    /\ UNCHANGED <<slots, selected, upload, rtc, crumbs, seen>>

-----------------------------------------------------------------------------
(* firmware_post_handler *)

BootUnchanged == UNCHANGED <<app, rtc, crumbs, seen>>

firmware_begin ==
    /\ Disturb
    /\ app.ready
    /\ \E image \in Images, hashOk, reinstall, downgrade \in BOOLEAN :
         gateway_ota_begin(app.slot, image, hashOk, reinstall, downgrade)
    /\ BootUnchanged

firmware_receive ==
    /\ validate_prefix_and_start(app.slot) \/ gateway_ota_write
    /\ BootUnchanged
    /\ UNCHANGED left

firmware_lost ==
    /\ Disturb
    /\ upload_fails
    /\ BootUnchanged

firmware_rejected ==
    /\ gateway_ota_abort \/ gateway_ota_finish_mismatch
    /\ BootUnchanged
    /\ UNCHANGED left

firmware_installed ==
    /\ gateway_ota_finish(app.slot)
    /\ app' = [app EXCEPT !.restart = IF @ = "none" THEN "update" ELSE @]
    /\ UNCHANGED <<rtc, crumbs, left, seen>>

(* The answer cannot be sent: nothing restarts the gateway. *)
firmware_unanswered ==
    /\ Disturb
    /\ gateway_ota_finish(app.slot)
    /\ BootUnchanged

-----------------------------------------------------------------------------
Handler == firmware_receive \/ firmware_rejected \/ firmware_installed

Next ==
    \/ FaultyCrash
    \/ AnyCrash
    \/ PowerDips
    \/ PowerOn
    \/ gateway_diag_boot_step_failed
    \/ gateway_diag_restart
    \/ restart_not_noted
    \/ restart_crashes
    \/ mark_services_ready
    \/ confirm_task
    \/ stable_cb
    \/ request_restart
    \/ firmware_begin
    \/ Handler
    \/ firmware_lost
    \/ firmware_unanswered

Spec == Init /\ [][Next]_vars

(* The timers expire, the tasks run, and a faulty image crashes. *)
FairSpec ==
    /\ Spec
    /\ WF_vars(FaultyCrash)
    /\ WF_vars(gateway_diag_restart)
    /\ WF_vars(mark_services_ready)
    /\ WF_vars(confirm_task)
    /\ WF_vars(stable_cb)
    /\ WF_vars(Handler)

-----------------------------------------------------------------------------
(* The types, and the bounds of the crash counter and of what is told. *)
TypeOK ==
    /\ OtaTypeOK
    /\ app \in AppType
    /\ rtc \in 0..DeepAfter
    /\ crumbs \in CrumbType
    /\ left \in 0..MaxDisturbances
    /\ seen \in [streak : 0..DeepAfter, why : {"none", "requested", "update"},
                 ended : {"poweron", "panic", "brownout", "step", "sw"}]

(* A reset at any moment finds an image to start: also in the middle of an *)
(* upload, after a second upload into the slot that is already selected,   *)
(* and while the running image is not confirmed yet.                       *)
AlwaysBootable == Bootable

(* The policy decides as Semantic Versioning orders the two versions: no   *)
(* image of the same or of a lower version is accepted without its         *)
(* override, and none is refused that needs none.                          *)
PolicyFollowsPrecedence ==
    LET running == slots[app.slot].image
    IN  upload # NoUpload =>
          /\ upload.decision = "accept" =>
               /\ upload.image.project = running.project
               /\ upload.image.secure >= running.secure
               /\ upload.image.version # Malformed
               /\ Lower(upload.image.version, running.version) => upload.downgrade
               /\ upload.image.version = running.version => upload.reinstall
          /\ upload.decision = "downgrade" => Lower(upload.image.version, running.version)
          /\ upload.decision = "reinstall" => upload.image.version = running.version

(* A boot changes to an image of a lower secure version only by giving up  *)
(* the one that did not confirm itself.                                    *)
SecureVersionKept ==
    [][slots'[app'.slot].image.secure < slots[app.slot].image.secure
         => slots[app.slot].state = "pending"]_vars

(* Safe mode follows the abnormal resets in a row, none of them after a    *)
(* minute of running: three switch the modem stack off, six the display.   *)
SafeModeFollowsCrashes ==
    ~app.stable => /\ app.mode >= 1 <=> seen.streak >= SafeAfter
                   /\ app.mode = 2 <=> seen.streak >= DeepAfter

(* The cause that is told for a restart was noted by the restart that      *)
(* started this boot, never by an earlier one.                             *)
CauseIsOwn == app.cause \in {"none", "not_recorded", seen.why}

(* A crash told as that of the previous boot is how that boot ended. *)
FreshCrashIsLast == app.fresh => crumbs.text = seen.ended

(* What is told of the last reset is about the last reset, however often a *)
(* boot failed before it could be told (gateway_diag_init).                *)
ResetTold == CauseIsOwn /\ FreshCrashIsLast

(* Whatever is installed, and however often it crashes, the gateway comes  *)
(* to rest: an image that does not survive its delay is rolled back, and   *)
(* one that crashes later runs in safe mode.                               *)
Settles == <>[](app.ready /\ app.stable)
=============================================================================
