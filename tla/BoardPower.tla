------------------------------ MODULE BoardPower ------------------------------
(***************************************************************************)
(* The VBUS supply of the USB host socket (board/gateway_board.c): the     *)
(* request that modem recovery makes, and the monitor task that cuts the   *)
(* power on over-current, latches, and restores what was requested after a *)
(* cool-down.  Both run under one mutex.                                   *)
(***************************************************************************)
EXTENDS Naturals

CONSTANTS
    AssertPolls,    \* USB_OC_ASSERT_POLLS
    CooldownPolls   \* polls that USB_OC_CLEAR_COOLDOWN_MS lasts

VARIABLES
    power,          \* requested, latched, on; the monitor's two counters
    overcurrent     \* external: the FAULT output of the load switch

powerVars == <<power, overcurrent>>

PowerInit ==
    /\ power = [requested |-> TRUE, latched |-> FALSE, on |-> TRUE,
                asserted |-> 0, clear |-> 0]
    /\ overcurrent = FALSE

(* gateway_board_usb_host_power_set: the request is recorded even while    *)
(* the latch refuses it.                                                   *)
PowerSet(p, enabled) ==
    IF enabled /\ p.latched THEN [p EXCEPT !.requested = TRUE]
    ELSE [p EXCEPT !.requested = enabled, !.on = enabled]

(* The value it returns. *)
PowerAccepted(p, enabled) == ~(enabled /\ p.latched)

Monitored_NoRestore(p) ==
    LET n == IF ~overcurrent THEN 0
             ELSE IF p.asserted < AssertPolls THEN p.asserted + 1 ELSE AssertPolls
        q == [p EXCEPT !.asserted = n]
    IN  IF n >= AssertPolls
        THEN [q EXCEPT !.clear = 0, !.latched = TRUE, !.on = @ /\ p.latched]
        ELSE IF ~p.latched THEN q
        ELSE IF p.clear < CooldownPolls THEN [q EXCEPT !.clear = @ + 1]
        ELSE [q EXCEPT !.clear = 0, !.latched = FALSE]

(* One poll of power_monitor_task. *)
Monitored(p) ==
    LET n == IF ~overcurrent THEN 0
             ELSE IF p.asserted < AssertPolls THEN p.asserted + 1 ELSE AssertPolls
        q == [p EXCEPT !.asserted = n]
    IN  IF n >= AssertPolls
        THEN [q EXCEPT !.clear = 0, !.latched = TRUE, !.on = @ /\ p.latched]
        ELSE IF ~p.latched THEN q
        ELSE IF p.clear < CooldownPolls THEN [q EXCEPT !.clear = @ + 1]
        ELSE [q EXCEPT !.clear = 0, !.latched = FALSE, !.on = @ \/ p.requested]

power_monitor_task == power' = Monitored(power) /\ UNCHANGED overcurrent

PowerTypeOK ==
    /\ power \in [requested : BOOLEAN, latched : BOOLEAN, on : BOOLEAN,
                  asserted : 0..AssertPolls, clear : 0..CooldownPolls]
    /\ overcurrent \in BOOLEAN
=============================================================================
