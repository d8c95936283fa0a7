----------------------------- MODULE ModemManager -----------------------------
(***************************************************************************)
(* The modem manager (modem_manager.c): one task that initializes a modem  *)
(* session, polls SIM, registration and signal, follows unsolicited status *)
(* lines, and recovers a modem that stops answering in three stages        *)
(* (modem_recovery_policy.c).                                              *)
(*                                                                         *)
(* A command's outcome (ok) and what the modem reports (sim, reg) are      *)
(* parameters of the actions.  next_poll_ms is abstracted: whatever has a  *)
(* time to come may be done at any time.  Commands whose result nothing    *)
(* depends on (identity, operator, URC configuration) are part of the step *)
(* that issues them.                                                       *)
(***************************************************************************)
EXTENDS Naturals, Sequences

CONSTANTS
    QueueDepth,     \* MODEM_MANAGER_QUEUE_DEPTH
    Threshold,      \* CONFIG_GATEWAY_MODEM_FAILURES_BEFORE_RECOVERY
    HardResetAfter, \* CONFIG_GATEWAY_MODEM_HARD_RESET_AFTER_RECOVERIES
    StablePolls,    \* successful polls that end an escalation (3 in the code)
    PowerControl    \* the build can switch VBUS

VARIABLES
    mgr,            \* s_manager, and where manager_task is
    mqueue          \* s_manager.queue

mgrVars == <<mgr, mqueue>>

SimStates == {"unknown", "pin", "ready"}
ManagerStates == {"WAIT_TRANSPORT", "INITIALIZING", "SIM_WAIT", "NETWORK_WAIT",
                  "READY", "RECOVERY", "DEGRADED"}
Sessions == {"SIM_WAIT", "NETWORK_WAIT", "READY"}

MgrInit ==
    /\ mgr = [pc |-> "receive", state |-> "WAIT_TRANSPORT", ready |-> FALSE,
              reinit |-> FALSE, failures |-> 0, rounds |-> 0, polls |-> 0,
              sim |-> "unknown", registered |-> FALSE]
    /\ mqueue = <<>>

-----------------------------------------------------------------------------
(* What is sent to the manager's queue. *)

Event(id) == [id |-> id, value |-> "none"]
StatusLine(value) == [id |-> "urc", value |-> value]
StatusValues == {"sim_ready", "sim_pin", "registered", "unregistered"}
ManagerEvents == {Event(id) : id \in {"ready", "lost", "restart", "pin"}}
                 \cup {StatusLine(value) : value \in StatusValues}

(* queue_simple_event and its siblings: what does not fit is dropped, but  *)
(* LOST goes to the front and, when there is no room, empties the queue.   *)
QueuedFront(e) ==
    IF Len(mqueue) < QueueDepth THEN <<e>> \o mqueue ELSE <<e>>

Queued(e) == IF Len(mqueue) < QueueDepth THEN Append(mqueue, e) ELSE mqueue

-----------------------------------------------------------------------------
(* execute_command: failures is compared with the threshold only, so it    *)
(* stops there.                                                            *)
Failed(m, n) ==
    [m EXCEPT !.failures = IF @ + n > Threshold THEN Threshold ELSE @ + n]

Succeeded(m) == [m EXCEPT !.failures = 0]

AfterCommand(m, ok) == IF ok THEN Succeeded(m) ELSE Failed(m, 1)

(* update_state_after_poll *)
StateAfterPoll(m) ==
    IF m.sim # "ready" THEN "SIM_WAIT"
    ELSE IF m.registered THEN "READY" ELSE "NETWORK_WAIT"

-----------------------------------------------------------------------------
(* initialize_session: ATE0 and CMEE, then CPIN, then the registration.    *)

initialize_begin ==
    /\ mgr.pc = "receive"
    /\ mgr.ready
    /\ mgr.reinit
    /\ mgr' = [mgr EXCEPT !.reinit = FALSE, !.state = "INITIALIZING", !.pc = "profile"]
    /\ UNCHANGED mqueue

initialize_profile(ok) ==
    /\ mgr.pc = "profile"
    /\ mgr' = [AfterCommand(mgr, ok) EXCEPT !.pc = IF ok THEN "sim" ELSE "recover"]
    /\ UNCHANGED mqueue

initialize_sim(ok, sim) ==
    /\ mgr.pc = "sim"
    /\ mgr' = IF ~ok THEN [AfterCommand(mgr, ok) EXCEPT !.pc = "recover"]
              ELSE IF sim = "ready"
                   THEN [AfterCommand(mgr, ok) EXCEPT !.pc = "network", !.sim = sim]
                   ELSE [AfterCommand(mgr, ok) EXCEPT !.pc = "receive", !.sim = sim,
                                                      !.state = "SIM_WAIT"]
    /\ UNCHANGED mqueue

(* The queries of the registration and the signal may fail; what was known *)
(* of the registration then stays.                                         *)
initialize_network(ok, reg) ==
    LET m == IF ok THEN [Succeeded(mgr) EXCEPT !.registered = reg] ELSE Failed(mgr, 2)
    IN  /\ mgr.pc = "network"
        /\ mgr' = [m EXCEPT !.pc = "receive",
                            !.state = IF m.registered THEN "READY" ELSE "NETWORK_WAIT"]
        /\ UNCHANGED mqueue

-----------------------------------------------------------------------------
(* poll_status, and what manager_task makes of its result. *)

PollResult(m, ok) ==
    IF ~ok THEN [m EXCEPT !.polls = 0, !.pc = "recover"]
    ELSE IF m.polls + 1 >= StablePolls
         THEN [m EXCEPT !.polls = StablePolls, !.rounds = 0]
         ELSE [m EXCEPT !.polls = @ + 1]

PollDue == mgr.pc = "receive" /\ mgr.ready /\ ~mgr.reinit

poll_sim(ok, sim) ==
    LET m == IF ok THEN [Succeeded(mgr) EXCEPT !.sim = sim, !.reinit = (sim = "ready")]
             ELSE Failed(mgr, 1)
    IN  /\ PollDue
        /\ mgr.sim # "ready"
        /\ mgr' = PollResult([m EXCEPT !.state = StateAfterPoll(m)], ok)
        /\ UNCHANGED mqueue

(* regOk, sigOk: the registration and the signal could be read. *)
poll_network(regOk, sigOk, reg) ==
    LET r == IF regOk THEN [Succeeded(mgr) EXCEPT !.registered = reg] ELSE Failed(mgr, 1)
        m == AfterCommand(r, sigOk)
    IN  /\ PollDue
        /\ mgr.sim = "ready"
        /\ mgr' = PollResult([m EXCEPT !.state = StateAfterPoll(m)], regOk /\ sigOk)
        /\ UNCHANGED mqueue

-----------------------------------------------------------------------------
RecoveryAction_NoHardReset(failures, rounds) ==
    IF failures < Threshold \/ rounds + 1 > HardResetAfter THEN "none"
    ELSE IF rounds + 1 = 1 THEN "reinitialize" ELSE "functional_reset"

(* modem_recovery_policy_next *)
RecoveryAction(failures, rounds) ==
    IF failures < Threshold THEN "none"
    ELSE IF rounds + 1 = 1 THEN "reinitialize"
    ELSE IF rounds + 1 <= HardResetAfter THEN "functional_reset"
    ELSE "hard_reset"

(* modem_core's manager_hard_reset is called: VBUS goes off, if it can.    *)
HardResetBegins == mgr.pc = "recover" /\ PowerControl
                   /\ RecoveryAction(mgr.failures, mgr.rounds) = "hard_reset"

schedule_recovery ==
    LET action == RecoveryAction(mgr.failures, mgr.rounds)
        again  == [mgr EXCEPT !.pc = "receive", !.state = "RECOVERY", !.reinit = TRUE,
                              !.failures = 0, !.rounds = @ + 1]
    IN  /\ mgr.pc = "recover"
        /\ mgr' = CASE action = "none" -> [mgr EXCEPT !.pc = "receive"]
                    [] action \in {"reinitialize", "functional_reset"} -> again
                    [] action = "hard_reset" /\ PowerControl ->
                         [mgr EXCEPT !.pc = "reset", !.state = "RECOVERY", !.rounds = 0]
                    [] action = "hard_reset" /\ ~PowerControl ->
                         [mgr EXCEPT !.pc = "receive", !.state = "DEGRADED",
                                     !.rounds = 0, !.polls = 0, !.reinit = FALSE]
        /\ UNCHANGED mqueue

(* hard_reset returned: powered says that VBUS could be switched on again. *)
hard_reset_returns(powered) ==
    /\ mgr.pc = "reset"
    /\ mgr' = IF powered
              THEN [mgr EXCEPT !.pc = "receive", !.state = "WAIT_TRANSPORT",
                               !.ready = FALSE, !.failures = 0, !.polls = 0,
                               !.reinit = FALSE]
              ELSE [mgr EXCEPT !.pc = "receive", !.state = "DEGRADED", !.polls = 0,
                               !.reinit = FALSE]
    /\ UNCHANGED mqueue

-----------------------------------------------------------------------------
(* The events of the queue. *)

Take(id) == /\ mgr.pc = "receive"
            /\ mqueue # <<>>
            /\ Head(mqueue).id = id
            /\ mqueue' = Tail(mqueue)

handle_transport_ready ==
    /\ Take("ready")
    /\ mgr' = [mgr EXCEPT !.ready = TRUE, !.failures = 0, !.reinit = TRUE,
                          !.state = "INITIALIZING"]

handle_transport_lost ==
    /\ Take("lost")
    /\ mgr' = [mgr EXCEPT !.ready = FALSE, !.registered = FALSE, !.sim = "unknown",
                          !.reinit = FALSE, !.state = "WAIT_TRANSPORT"]

(* +CPIN and the registration lines; handled with or without a transport.  *)
handle_urc_line ==
    LET value == Head(mqueue).value
        m     == CASE value = "sim_ready"    -> [mgr EXCEPT !.sim = "ready", !.reinit = TRUE]
                   [] value = "sim_pin"      -> [mgr EXCEPT !.sim = "pin"]
                   [] value = "registered"   -> [mgr EXCEPT !.registered = TRUE]
                   [] value = "unregistered" -> [mgr EXCEPT !.registered = FALSE]
    IN  /\ Take("urc")
        /\ mgr' = [m EXCEPT !.state = StateAfterPoll(m)]

handle_sim_pin(ok) ==
    /\ Take("pin")
    /\ mgr' = IF mgr.ready /\ mgr.sim = "pin" /\ ok
              THEN [mgr EXCEPT !.reinit = TRUE, !.failures = 0] ELSE mgr

(* A power cycle, or CFUN when there is none. *)
AfterFunctionalReset(ok) ==
    [mgr EXCEPT !.pc = "receive", !.failures = 0, !.reinit = TRUE,
                !.state = IF ok THEN "RECOVERY" ELSE "DEGRADED"]

handle_manual_restart(ok) ==
    /\ Take("restart")
    /\ mgr' = IF ~mgr.ready THEN mgr
              ELSE IF PowerControl THEN [mgr EXCEPT !.pc = "manual", !.state = "RECOVERY"]
              ELSE AfterFunctionalReset(ok)

manual_reset_returns(powered, ok) ==
    /\ mgr.pc = "manual"
    /\ mgr' = IF powered
              THEN [mgr EXCEPT !.pc = "receive", !.ready = FALSE,
                               !.state = "WAIT_TRANSPORT"]
              ELSE AfterFunctionalReset(ok)
    /\ UNCHANGED mqueue

MgrTypeOK ==
    /\ mgr \in [pc : {"receive", "profile", "sim", "network", "recover", "reset", "manual"},
                state : ManagerStates, ready : BOOLEAN, reinit : BOOLEAN,
                failures : 0..Threshold, rounds : 0..HardResetAfter,
                polls : 0..StablePolls, sim : SimStates, registered : BOOLEAN]
    /\ mqueue \in Seq(ManagerEvents) /\ Len(mqueue) <= QueueDepth
=============================================================================
