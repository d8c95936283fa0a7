---------------------------- MODULE NetworkService ----------------------------
(***************************************************************************)
(* Wi-Fi, the setup portal and the management API: network_service.c with  *)
(* its one task and its command queue, and the supervisor of app_main.c    *)
(* that starts the API, on the port the portal uses too.                   *)
(*                                                                         *)
(* Time is abstract.  A deadline that lies ahead (reconnect, test of new   *)
(* credentials, offline fallback, manual portal, restart) may have passed  *)
(* at any tick.  The Wi-Fi driver and the access point are external; the   *)
(* stored credentials are none, good or bad.                               *)
(***************************************************************************)
EXTENDS Naturals, Sequences

CONSTANTS
    QueueDepth,        \* NET_QUEUE_DEPTH
    SetupAttempts,     \* SETUP_CONNECT_ATTEMPTS
    StoredAtFirst,     \* credentials the gateway may have at first
    MaxDisturbances    \* bound: faults, and requests of the user

VARIABLES
    net,          \* s_snapshot and the statics of network_task
    task,         \* where network_task is: [pc, reason, after]
    queue,        \* s_queue
    api,          \* api_server_running
    supervisor,   \* supervisor_task: [pc, want]
    wifi,         \* external: [link, ap, cred]: driver, access point
    stored,       \* external: the credentials in the driver's NVS
    left,         \* disturbances left
    lapses        \* history: what got lost on the way in this behaviour

vars == <<net, task, queue, api, supervisor, wifi, stored, left, lapses>>

Credentials == {"none", "good", "bad"}

ASSUME NetworkAssumption ==
    /\ QueueDepth \in Nat \ {0, 1}     \* the first commands fit
    /\ SetupAttempts \in Nat \ {0}
    /\ MaxDisturbances \in Nat
    /\ StoredAtFirst \subseteq Credentials

Cmd(id, arg) == [id |-> id, arg |-> arg]

Main == [pc |-> "receive", reason |-> "closed", after |-> "receive"]

(* network_service_init *)
Booted(cred) ==
    [provisioned |-> cred # "none", connected |-> FALSE, portal |-> "closed",
     setup |-> "idle", next |-> FALSE, failures |-> 0, restart |-> FALSE]

FirstCommands(cred) ==
    IF cred = "none" THEN <<Cmd("sta_start", "none"), Cmd("open_portal", "first")>>
    ELSE <<Cmd("sta_start", "none")>>

Init ==
    /\ stored \in StoredAtFirst
    /\ net = Booted(stored)
    /\ task = Main
    /\ queue = FirstCommands(stored)
    /\ api = FALSE
    /\ supervisor = [pc |-> "wait", want |-> FALSE]
    /\ wifi = [link |-> "idle", ap |-> TRUE]
    /\ left = MaxDisturbances
    /\ lapses = {}

Disturb == left > 0 /\ left' = left - 1

(* post: a full queue drops the command. *)
Posted(q, c) == IF Len(q) < QueueDepth THEN Append(q, c) ELSE q

DroppedBy(q) == IF Len(q) < QueueDepth THEN {} ELSE {"dropped"}

-----------------------------------------------------------------------------
(* Parts of network_task: n is its state before them. *)

(* esp_wifi_disconnect: the driver leaves the network, if it is in one. *)
Leaves == wifi.link # "idle"
QueueAfterLeaving(q) == IF Leaves THEN Posted(q, Cmd("disconnected", "leave")) ELSE q

schedule_reconnect(n) == [n EXCEPT !.next = TRUE]

close_portal(n) == [n EXCEPT !.portal = "closed"]

(* handle_disconnected *)
handle_disconnected(n, reason) ==
    LET m == [n EXCEPT !.connected = FALSE]
    IN  IF n.setup = "connecting"
        THEN IF reason = "leave" THEN m
             ELSE IF n.failures + 1 >= SetupAttempts
             THEN schedule_reconnect([m EXCEPT !.failures = @ + 1, !.setup = "failed"])
             ELSE [m EXCEPT !.failures = @ + 1, !.next = TRUE]
        ELSE IF n.setup = "connected" \/ ~n.provisioned THEN m
        ELSE schedule_reconnect(m)

(* handle_got_ip *)
handle_got_ip(n) ==
    LET m == [n EXCEPT !.next = FALSE, !.connected = TRUE, !.provisioned = TRUE,
                       !.setup = IF @ = "failed" THEN "idle" ELSE @]
    IN  IF m.setup = "connecting" THEN [m EXCEPT !.restart = TRUE, !.setup = "connected"]
        ELSE IF m.portal \in {"fallback", "first"} THEN close_portal(m)
        ELSE m

(* An open portal only takes over the reason of a manual request. *)
ReopenPortal(n, reason) ==
    IF reason = "manual" THEN [n EXCEPT !.portal = reason] ELSE n

-----------------------------------------------------------------------------
(* network_task takes a command; handle_tick follows. *)

Ticks == [Main EXCEPT !.pc = "tick"]

Takes(id) ==
    /\ task.pc = "receive"
    /\ queue # <<>>
    /\ Head(queue).id = id

command_sta_start ==
    /\ Takes("sta_start")
    /\ queue' = Tail(queue)
    /\ wifi' = IF net.provisioned /\ net.portal # "first"
               THEN [wifi EXCEPT !.link = "connecting"] ELSE wifi
    /\ net' = IF net.provisioned /\ net.portal # "first"
              THEN [net EXCEPT !.next = FALSE] ELSE net
    /\ task' = Ticks
    /\ UNCHANGED <<api, supervisor, stored, left, lapses>>

command_disconnected ==
    /\ Takes("disconnected")
    /\ queue' = Tail(queue)
    /\ net' = handle_disconnected(net, Head(queue).arg)
    /\ task' = Ticks
    /\ UNCHANGED <<api, supervisor, wifi, stored, left, lapses>>

command_got_ip ==
    /\ Takes("got_ip")
    /\ queue' = Tail(queue)
    /\ net' = handle_got_ip(net)
    /\ lapses' = IF Head(queue).arg = stored THEN lapses ELSE lapses \cup {"stale_ip"}
    /\ task' = Ticks
    /\ UNCHANGED <<api, supervisor, wifi, stored, left>>

(* open_portal: before_portal_start stops the API, waiting for the lock    *)
(* that the supervisor holds while it starts it.                           *)
command_open_portal ==
    LET reason == Head(queue).arg
    IN  /\ Takes("open_portal")
        /\ queue' = Tail(queue)
        /\ IF net.portal # "closed"
           THEN /\ net' = ReopenPortal(net, reason)
                /\ lapses' = IF net.portal = "first" /\ reason = "manual"
                             THEN lapses \cup {"first_made_manual"} ELSE lapses
                /\ task' = Ticks
                /\ UNCHANGED api
           ELSE /\ task' = [pc |-> "start", reason |-> reason, after |-> "tick"]
                /\ api' = FALSE
                /\ UNCHANGED <<net, lapses>>
        /\ UNCHANGED <<supervisor, wifi, stored, left>>

command_setup_submitted_StaysJoined ==
    /\ Takes("setup")
    /\ queue' = Tail(queue)
    /\ stored' = Head(queue).arg
    /\ net' = [net EXCEPT !.provisioned = TRUE, !.setup = "connecting", !.failures = 0,
                          !.next = TRUE]
    /\ task' = Ticks
    /\ UNCHANGED <<api, supervisor, wifi, left, lapses>>

(* handle_setup_submitted: the driver leaves its network and stores the    *)
(* new credentials, unless it refuses to.                                  *)
command_setup_submitted ==
    /\ Takes("setup")
    /\ queue' = QueueAfterLeaving(Tail(queue))
    /\ lapses' = IF Leaves THEN lapses \cup DroppedBy(Tail(queue)) ELSE lapses
    /\ wifi' = [wifi EXCEPT !.link = "idle"]
    /\ stored' = Head(queue).arg
    /\ net' = [net EXCEPT !.provisioned = TRUE, !.setup = "connecting", !.failures = 0,
                          !.next = TRUE]
    /\ task' = Ticks
    /\ UNCHANGED <<api, supervisor, left>>

command_setup_refused ==
    /\ Disturb
    /\ Takes("setup")
    /\ queue' = QueueAfterLeaving(Tail(queue))
    /\ lapses' = IF Leaves THEN lapses \cup DroppedBy(Tail(queue)) ELSE lapses
    /\ wifi' = [wifi EXCEPT !.link = "idle"]
    /\ net' = [net EXCEPT !.setup = "failed"]
    /\ task' = Ticks
    /\ UNCHANGED <<api, supervisor, stored>>

no_command ==
    /\ task.pc = "receive"
    /\ queue = <<>>
    /\ task' = Ticks
    /\ UNCHANGED <<net, queue, api, supervisor, wifi, stored, left, lapses>>

(* provisioning_portal_start cannot have the port while the API has it. *)
portal_started ==
    /\ task.pc = "start"
    /\ ~api
    /\ net' = [net EXCEPT !.portal = task.reason]
    /\ task' = [Main EXCEPT !.pc = task.after]
    /\ UNCHANGED <<queue, api, supervisor, wifi, stored, left, lapses>>

portal_port_taken ==
    /\ task.pc = "start"
    /\ api
    /\ task' = [Main EXCEPT !.pc = task.after]
    /\ UNCHANGED <<net, queue, api, supervisor, wifi, stored, left, lapses>>

portal_not_started ==
    /\ task.pc = "start"
    /\ Disturb
    /\ lapses' = IF task.reason = "first" THEN lapses \cup {"no_first_portal"} ELSE lapses
    /\ task' = [Main EXCEPT !.pc = task.after]
    /\ UNCHANGED <<net, queue, api, supervisor, wifi, stored>>

-----------------------------------------------------------------------------
(* handle_tick, after every command and every second.  due: the deadlines  *)
(* that have passed.  Each condition reads the state before the tick.      *)

Deadlines == {"setup", "connect", "fallback", "manual"}

TestTimesOut(due) == net.setup = "connecting" /\ "setup" \in due

ReconnectDue(due) ==
    /\ net.next /\ "connect" \in due
    /\ ~net.connected /\ net.provisioned
    /\ ~TestTimesOut(due)

FallbackDue_WhileRetrying(due) ==
    /\ ~net.connected /\ net.provisioned /\ net.portal = "closed" /\ net.next
    /\ "fallback" \in due

FallbackDue(due) ==
    /\ ~net.connected /\ net.provisioned /\ net.portal = "closed"
    /\ "fallback" \in due

ManualOver(due) ==
    /\ net.portal = "manual" /\ net.setup \notin {"connecting", "connected"}
    /\ "manual" \in due

AfterTick_NoRetry(due) ==
    LET n == IF TestTimesOut(due) THEN [net EXCEPT !.setup = "failed"]
             ELSE IF ReconnectDue(due) THEN [net EXCEPT !.next = FALSE] ELSE net
    IN  IF ManualOver(due) THEN close_portal(n) ELSE n

AfterTick(due) ==
    LET n == IF TestTimesOut(due) THEN schedule_reconnect([net EXCEPT !.setup = "failed"])
             ELSE IF ReconnectDue(due) THEN [net EXCEPT !.next = FALSE] ELSE net
    IN  IF ManualOver(due) THEN close_portal(n) ELSE n

(* sta_connect_now: refused says that esp_wifi_connect returned an error.  *)
(* A driver that is connecting already goes on with that.                  *)
handle_tick(due, refused) ==
    /\ task.pc = "tick"
    /\ refused => ReconnectDue(due) /\ wifi.link = "idle"
    /\ IF refused THEN Disturb ELSE UNCHANGED left
    /\ net' = AfterTick(due)
    /\ queue' = IF TestTimesOut(due) THEN QueueAfterLeaving(queue) ELSE queue
    /\ wifi' = [wifi EXCEPT !.link =
                  IF TestTimesOut(due) THEN "idle"
                  ELSE IF ReconnectDue(due) /\ ~refused /\ @ = "idle" THEN "connecting" ELSE @]
    /\ lapses' = lapses \cup (IF refused THEN {"connect_refused"} ELSE {})
                        \cup (IF TestTimesOut(due) /\ Leaves THEN DroppedBy(queue) ELSE {})
    /\ task' = IF FallbackDue(due)
               THEN [pc |-> "start", reason |-> "fallback", after |-> "receive"] ELSE Main
    /\ api' = (api /\ ~FallbackDue(due))
    /\ UNCHANGED <<supervisor, stored>>

(* gateway_diag_restart, ten seconds after new credentials have connected. *)
Restart ==
    /\ task.pc = "tick"
    /\ net.restart
    /\ net' = Booted(stored)
    /\ task' = Main
    /\ queue' = FirstCommands(stored)
    /\ api' = FALSE
    /\ supervisor' = [pc |-> "wait", want |-> FALSE]
    /\ wifi' = [wifi EXCEPT !.link = "idle"]
    /\ UNCHANGED <<stored, left, lapses>>

-----------------------------------------------------------------------------
(* supervisor_task: the snapshot is read before the lock is taken. *)

supervisor_snapshot ==
    /\ supervisor.pc = "wait"
    /\ supervisor' = [pc |-> "lock", want |-> net.connected /\ net.portal = "closed"]
    /\ UNCHANGED <<net, task, queue, api, wifi, stored, left, lapses>>

supervisor_start_KeepsLock ==
    /\ supervisor.pc = "lock"
    /\ api' = (api \/ (supervisor.want /\ net.portal = "closed"))
    /\ supervisor' = [supervisor EXCEPT !.pc = IF supervisor.want THEN "wait" ELSE @]
    /\ UNCHANGED <<net, task, queue, wifi, stored, left, lapses>>

(* api_server_init cannot have the port while the portal has it. *)
supervisor_start ==
    /\ supervisor.pc = "lock"
    /\ api' = (api \/ (supervisor.want /\ net.portal = "closed"))
    /\ supervisor' = [supervisor EXCEPT !.pc = "wait"]
    /\ UNCHANGED <<net, task, queue, wifi, stored, left, lapses>>

supervisor_start_fails ==
    /\ supervisor.pc = "lock"
    /\ supervisor.want /\ ~api
    /\ Disturb
    /\ supervisor' = [supervisor EXCEPT !.pc = "wait"]
    /\ UNCHANGED <<net, task, queue, api, wifi, stored, lapses>>

-----------------------------------------------------------------------------
(* The Wi-Fi driver and the access point; event_handler posts what they    *)
(* report.                                                                 *)

Reports(c) ==
    /\ queue' = Posted(queue, c)
    /\ lapses' = lapses \cup DroppedBy(queue)

CanJoin == wifi.ap /\ stored = "good"

StationJoins ==
    /\ wifi.link = "connecting"
    /\ CanJoin
    /\ wifi' = [wifi EXCEPT !.link = "ip"]
    /\ Reports(Cmd("got_ip", stored))
    /\ UNCHANGED <<net, task, api, supervisor, stored, left>>

StationFails ==
    /\ wifi.link = "connecting"
    /\ IF CanJoin THEN Disturb ELSE UNCHANGED left
    /\ wifi' = [wifi EXCEPT !.link = "idle"]
    /\ Reports(Cmd("disconnected", "fail"))
    /\ UNCHANGED <<net, task, api, supervisor, stored>>

ApGone ==
    /\ Disturb
    /\ wifi.ap
    /\ wifi' = [wifi EXCEPT !.ap = FALSE, !.link = IF @ = "ip" THEN "idle" ELSE @]
    /\ IF wifi.link = "ip" THEN Reports(Cmd("disconnected", "fail"))
       ELSE UNCHANGED <<queue, lapses>>
    /\ UNCHANGED <<net, task, api, supervisor, stored>>

ApBack ==
    /\ ~wifi.ap
    /\ wifi' = [wifi EXCEPT !.ap = TRUE]
    /\ UNCHANGED <<net, task, queue, api, supervisor, stored, left, lapses>>

(* The access point puts the station out with the reason that the driver   *)
(* gives for its own leaving.                                              *)
ApExpels ==
    /\ Disturb
    /\ wifi.link # "idle"
    /\ wifi' = [wifi EXCEPT !.link = "idle"]
    /\ Reports(Cmd("disconnected", "leave"))
    /\ UNCHANGED <<net, task, api, supervisor, stored>>

(* A renewed lease reports an address again. *)
LeaseRenewed ==
    /\ Disturb
    /\ wifi.link = "ip"
    /\ Reports(Cmd("got_ip", stored))
    /\ UNCHANGED <<net, task, api, supervisor, wifi, stored>>

-----------------------------------------------------------------------------
(* The user; a request that does not fit is answered with an error. *)

network_service_open_portal ==
    /\ Disturb
    /\ queue' = Posted(queue, Cmd("open_portal", "manual"))
    /\ UNCHANGED <<net, task, api, supervisor, wifi, stored, lapses>>

network_service_submit_credentials(cred) ==
    /\ Disturb
    /\ net.portal # "closed"
    /\ queue' = Posted(queue, Cmd("setup", cred))
    /\ UNCHANGED <<net, task, api, supervisor, wifi, stored, lapses>>

-----------------------------------------------------------------------------
NetworkStep ==
    \/ command_sta_start
    \/ command_disconnected
    \/ command_got_ip
    \/ command_open_portal
    \/ command_setup_submitted
    \/ no_command
    \/ portal_started
    \/ portal_port_taken

Next ==
    \/ NetworkStep
    \/ command_setup_refused
    \/ portal_not_started
    \/ \E due \in SUBSET Deadlines, refused \in BOOLEAN : handle_tick(due, refused)
    \/ Restart
    \/ supervisor_snapshot
    \/ supervisor_start
    \/ supervisor_start_fails
    \/ StationJoins
    \/ StationFails
    \/ ApGone
    \/ ApBack
    \/ ApExpels
    \/ LeaseRenewed
    \/ network_service_open_portal
    \/ \E cred \in {"good", "bad"} : network_service_submit_credentials(cred)

Spec == Init /\ [][Next]_vars

(* The tasks are scheduled and the driver answers.  Every deadline passes, *)
(* so a tick comes at which whatever is waited for is due.                 *)
FairSpec ==
    /\ Spec
    /\ WF_vars(NetworkStep)
    /\ SF_vars(handle_tick(Deadlines, FALSE))
    /\ SF_vars(Restart)
    /\ WF_vars(supervisor_snapshot)
    /\ WF_vars(supervisor_start)
    /\ WF_vars(StationJoins \/ StationFails)

-----------------------------------------------------------------------------
(* The types, and the bounds of the queue and of the failed attempts. *)
TypeOK ==
    /\ net \in [provisioned : BOOLEAN, connected : BOOLEAN,
                portal : {"closed", "first", "fallback", "manual"},
                setup : {"idle", "connecting", "connected", "failed"},
                next : BOOLEAN, failures : 0..SetupAttempts, restart : BOOLEAN]
    /\ task \in [pc : {"receive", "start", "tick"},
                 reason : {"closed", "first", "fallback", "manual"},
                 after : {"receive", "tick"}]
    /\ Len(queue) <= QueueDepth
    /\ api \in BOOLEAN
    /\ supervisor \in [pc : {"wait", "lock"}, want : BOOLEAN]
    /\ wifi \in [link : {"idle", "connecting", "ip"}, ap : BOOLEAN]
    /\ stored \in Credentials
    /\ left \in 0..MaxDisturbances

(* The portal reports new credentials as connected, and the gateway        *)
(* restarts with them, only when they did connect.  An address that the    *)
(* previous network gave just before, and that is handled after the test   *)
(* began, is taken for theirs (handle_got_ip).  The queue and the count of *)
(* failed attempts stay within their bounds (TypeOK).                      *)
SetupResultTruthful ==
    /\ TypeOK
    /\ net.setup = "connected" => stored = "good" \/ "stale_ip" \in lapses

(* The user can manage the gateway: over the portal, or over the API. *)
Reachable == net.portal # "closed" \/ (api /\ wifi.link = "ip")

(* The gateway becomes manageable again, whatever happens to its network:  *)
(* the API returns with the link, or the fallback opens the portal.  Left  *)
(* out: an event dropped by a full queue, a first portal that could not be *)
(* started, which nothing repeats, and a first portal that a manual        *)
(* request turned into one that times out.                                 *)
ReachableAgain ==
    [](lapses \cap {"dropped", "no_first_portal", "first_made_manual"} = {}) => []<>Reachable

(* A station with good credentials connects again once the access point    *)
(* stays, also with a portal open and after a failed or interrupted test.  *)
StationReconnects ==
    /\ [](lapses \cap {"dropped", "connect_refused"} = {})
    /\ <>[](wifi.ap /\ stored = "good")
    => []<>(net.connected /\ wifi.link = "ip")

(* Online with the portal closed, the API is started and stays, although   *)
(* the portal had stopped it and starting it may fail (supervisor_task).   *)
ApiComesBack ==
    <>[](net.connected /\ net.portal = "closed") => <>[]api
=============================================================================
