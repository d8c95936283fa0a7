------------------------- MODULE NetworkServiceProofs -------------------------
(***************************************************************************)
(* Proofs about NetworkService for any depth of the command queue, any     *)
(* number of setup attempts and any number of disturbances.                *)
(***************************************************************************)
EXTENDS NetworkService, TLAPS

(* The commands that network_task takes.  An address is only reported by a *)
(* network that the station could join.                                    *)
Commands ==
    {Cmd("sta_start", "none"), Cmd("got_ip", "good"),
     Cmd("disconnected", "leave"), Cmd("disconnected", "fail"),
     Cmd("open_portal", "first"), Cmd("open_portal", "manual"),
     Cmd("setup", "good"), Cmd("setup", "bad")}

Portals == {"closed", "first", "fallback", "manual"}

NetStates ==
    [provisioned : BOOLEAN, connected : BOOLEAN, portal : Portals,
     setup : {"idle", "connecting", "connected", "failed"},
     next : BOOLEAN, failures : 0..SetupAttempts, restart : BOOLEAN]

TaskStates == [pc : {"receive", "start", "tick"}, reason : Portals, after : {"receive", "tick"}]

(* A test that goes on has attempts left. *)
Sound(n) == n \in NetStates /\ (n.setup = "connecting" => n.failures < SetupAttempts)

QueueOK(q) == q \in Seq(Commands) /\ Len(q) <= QueueDepth

(* The link is up only with the stored credentials, and they are good then. *)
LinkInv ==
    /\ wifi \in [link : {"idle", "connecting", "ip"}, ap : BOOLEAN]
    /\ stored \in Credentials
    /\ wifi.link = "ip" => stored = "good"

ResultInv == net.setup = "connected" => stored = "good" \/ "stale_ip" \in lapses

OthersInv ==
    /\ api \in BOOLEAN
    /\ supervisor \in [pc : {"wait", "lock"}, want : BOOLEAN]
    /\ left \in 0..MaxDisturbances

NetworkInv ==
    Sound(net) /\ task \in TaskStates /\ QueueOK(queue) /\ LinkInv /\ ResultInv /\ OthersInv

-----------------------------------------------------------------------------
(* The parts. *)

(* post never fills the queue beyond its depth. *)
LEMMA PostedOK ==
    ASSUME NEW q, QueueOK(q), NEW c \in Commands
    PROVE  QueueOK(Posted(q, c))
<1>1. q \in Seq(Commands) /\ Len(q) \in Nat
  BY DEF QueueOK
<1>2. Append(q, c) \in Seq(Commands) /\ Len(Append(q, c)) = Len(q) + 1
  BY <1>1
<1>3. QED
  BY <1>1, <1>2, NetworkAssumption DEF QueueOK, Posted

(* The rest of the queue, and its first command. *)
LEMMA TakenOK ==
    ASSUME NEW id, QueueOK(queue), Takes(id)
    PROVE  QueueOK(Tail(queue)) /\ Head(queue) \in Commands /\ Head(queue).id = id
<1>1. queue \in Seq(Commands) /\ queue # <<>> /\ Len(queue) \in Nat /\ Head(queue).id = id
  BY DEF QueueOK, Takes
<1>2. Tail(queue) \in Seq(Commands) /\ Len(Tail(queue)) = Len(queue) - 1
  BY <1>1
<1>3. Head(queue) \in Commands
  BY <1>1
<1>4. QED
  BY <1>1, <1>2, <1>3, NetworkAssumption DEF QueueOK

(* What a command says. *)
LEMMA CommandArgs ==
    ASSUME NEW c \in Commands
    PROVE  /\ c.id = "got_ip" => c.arg = "good"
           /\ c.id = "open_portal" => c.arg \in {"first", "manual"}
           /\ c.id = "setup" => c.arg \in {"good", "bad"}
  BY DEF Commands, Cmd

(* Leaving a network is reported like every other loss of it. *)
LEMMA LeavingOK ==
    ASSUME NEW q, QueueOK(q)
    PROVE  QueueOK(QueueAfterLeaving(q))
<1>1. Cmd("disconnected", "leave") \in Commands
  BY DEF Commands
<1>2. QED
  BY <1>1, PostedOK DEF QueueAfterLeaving

(* A lost link never makes a test succeed, nor an attempt too many. *)
LEMMA DisconnectedSound ==
    ASSUME NEW n, Sound(n), NEW reason
    PROVE  LET m == handle_disconnected(n, reason)
           IN  Sound(m) /\ (m.setup = "connected" => n.setup = "connected")
<1> DEFINE m0 == [n EXCEPT !.connected = FALSE]
<1>1. /\ m0 \in NetStates /\ m0.setup = n.setup /\ m0.failures = n.failures
  BY DEF Sound, NetStates
<1>2. SetupAttempts \in Nat /\ n.failures \in 0..SetupAttempts
  BY NetworkAssumption DEF Sound, NetStates
<1>3. CASE n.setup = "connecting" /\ reason # "leave" /\ n.failures + 1 >= SetupAttempts
  <2> DEFINE m1 == [m0 EXCEPT !.failures = @ + 1, !.setup = "failed"]
             m2 == [m1 EXCEPT !.next = TRUE]
  <2>1. handle_disconnected(n, reason) = m2
    BY <1>3 DEF handle_disconnected, schedule_reconnect
  <2>2. n.failures + 1 \in 0..SetupAttempts
    BY <1>2, <1>3 DEF Sound
  <2>3. m1 \in NetStates /\ m1.setup = "failed"
    BY <1>1, <2>2 DEF NetStates
  <2>4. m2 \in NetStates /\ m2.setup = "failed"
    BY <2>3 DEF NetStates
  <2>5. QED
    BY <2>1, <2>4 DEF Sound
<1>4. CASE n.setup = "connecting" /\ reason # "leave" /\ ~(n.failures + 1 >= SetupAttempts)
  <2> DEFINE m1 == [m0 EXCEPT !.failures = @ + 1, !.next = TRUE]
  <2>1. handle_disconnected(n, reason) = m1
    BY <1>4 DEF handle_disconnected
  <2>2. n.failures + 1 \in 0..SetupAttempts /\ n.failures + 1 < SetupAttempts
    BY <1>2, <1>4
  <2>3. m1 \in NetStates /\ m1.setup = "connecting" /\ m1.failures = n.failures + 1
    BY <1>1, <1>4, <2>2 DEF NetStates
  <2>4. QED
    BY <2>1, <2>2, <2>3 DEF Sound
<1>5. CASE handle_disconnected(n, reason) = m0
  BY <1>1, <1>5 DEF Sound
<1>6. CASE n.setup # "connecting" /\ handle_disconnected(n, reason) = schedule_reconnect(m0)
  <2> DEFINE m1 == [m0 EXCEPT !.next = TRUE]
  <2>1. m1 \in NetStates /\ m1.setup = n.setup
    BY <1>1 DEF NetStates
  <2>2. QED
    BY <1>6, <2>1 DEF Sound, schedule_reconnect
<1>7. QED
  BY <1>3, <1>4, <1>5, <1>6 DEF handle_disconnected

(* An address ends a test. *)
LEMMA GotIpSound ==
    ASSUME NEW n, Sound(n)
    PROVE  Sound(handle_got_ip(n))
<1> DEFINE m == [n EXCEPT !.next = FALSE, !.connected = TRUE, !.provisioned = TRUE,
                          !.setup = IF @ = "failed" THEN "idle" ELSE @]
<1>1. m \in NetStates /\ (m.setup = "connecting" => n.setup = "connecting") /\ m.failures = n.failures
  BY DEF Sound, NetStates
<1>2. Sound(m)
  BY <1>1 DEF Sound
<1>3. /\ handle_got_ip(n) = IF m.setup = "connecting"
                            THEN [m EXCEPT !.restart = TRUE, !.setup = "connected"]
                            ELSE IF m.portal \in {"fallback", "first"} THEN close_portal(m)
                            ELSE m
  BY DEF handle_got_ip
<1> HIDE DEF m
<1>4. CASE m.setup = "connecting"
  <2> DEFINE k == [m EXCEPT !.restart = TRUE, !.setup = "connected"]
  <2>1. k \in NetStates /\ k.setup = "connected"
    BY <1>1 DEF NetStates
  <2>2. QED
    BY <1>3, <1>4, <2>1 DEF Sound
<1>5. CASE m.setup # "connecting"
  <2> DEFINE k == [m EXCEPT !.portal = "closed"]
  <2>1. k \in NetStates /\ k.setup = m.setup
    BY <1>1 DEF NetStates, Portals
  <2>2. Sound(k)
    BY <1>5, <2>1 DEF Sound
  <2>3. QED
    BY <1>2, <1>3, <1>5, <2>2 DEF close_portal
<1>6. QED
  BY <1>4, <1>5

-----------------------------------------------------------------------------
(* The steps. *)

(* Ticks, Main and the start of a portal. *)
LEMMA TaskOK ==
    /\ Main \in TaskStates /\ Ticks \in TaskStates
    /\ \A after \in {"receive", "tick"} : [Main EXCEPT !.pc = after] \in TaskStates
    /\ \A r \in Portals, after \in {"receive", "tick"} :
          [pc |-> "start", reason |-> r, after |-> after] \in TaskStates
  BY DEF Main, Ticks, TaskStates, Portals

(* The state after a change of one or two fields that the tests do not use. *)
LEMMA TouchedSound ==
    ASSUME NEW n, Sound(n)
    PROVE  /\ \A b \in BOOLEAN : /\ Sound([n EXCEPT !.next = b])
                                 /\ [n EXCEPT !.next = b].setup = n.setup
           /\ \A p \in Portals : /\ Sound([n EXCEPT !.portal = p])
                                 /\ [n EXCEPT !.portal = p].setup = n.setup
           /\ Sound([n EXCEPT !.setup = "failed"])
           /\ [n EXCEPT !.setup = "failed"].setup = "failed"
<1>1. ASSUME NEW b \in BOOLEAN
      PROVE  Sound([n EXCEPT !.next = b]) /\ [n EXCEPT !.next = b].setup = n.setup
  BY DEF Sound, NetStates
<1>2. ASSUME NEW p \in Portals
      PROVE  Sound([n EXCEPT !.portal = p]) /\ [n EXCEPT !.portal = p].setup = n.setup
  BY DEF Sound, NetStates
<1>3. /\ Sound([n EXCEPT !.setup = "failed"])
      /\ [n EXCEPT !.setup = "failed"].setup = "failed"
  BY DEF Sound, NetStates
<1>4. QED
  BY <1>1, <1>2, <1>3

LinkStates == [link : {"idle", "connecting", "ip"}, ap : BOOLEAN]

(* The driver leaves a network or tries to join one. *)
LEMMA LinkDown ==
    ASSUME LinkInv, stored' = stored \/ stored' \in {"good", "bad"},
           NEW l \in {"idle", "connecting"}, wifi' = [wifi EXCEPT !.link = l]
    PROVE  LinkInv'
<1>1. wifi' \in LinkStates /\ wifi'.link = l
  BY DEF LinkInv, LinkStates
<1>2. QED
  BY <1>1 DEF LinkInv, Credentials, LinkStates

(* network_task takes a command. *)
LEMMA CommandStep ==
    ASSUME NetworkInv,
           \/ command_sta_start \/ command_disconnected \/ command_got_ip
           \/ command_open_portal \/ no_command
    PROVE  NetworkInv'
<1> USE DEF NetworkInv
<1>1. CASE command_sta_start
  <2>1. QueueOK(queue') /\ task' \in TaskStates /\ OthersInv'
    BY <1>1, TakenOK, TaskOK DEF command_sta_start, OthersInv
  <2>2. Sound(net') /\ net'.setup = net.setup
    BY <1>1, TouchedSound DEF command_sta_start
  <2>3. LinkInv'
    <3>1. CASE wifi' = wifi
      BY <1>1, <3>1 DEF command_sta_start, LinkInv
    <3>2. CASE wifi' = [wifi EXCEPT !.link = "connecting"]
      BY <1>1, <3>2, LinkDown DEF command_sta_start
    <3>3. QED
      BY <1>1, <3>1, <3>2 DEF command_sta_start
  <2>4. ResultInv'
    BY <1>1, <2>2 DEF command_sta_start, ResultInv
  <2>5. QED
    BY <2>1, <2>2, <2>3, <2>4
<1>2. CASE command_disconnected
  <2>1. QueueOK(queue') /\ task' \in TaskStates /\ OthersInv' /\ LinkInv'
    BY <1>2, TakenOK, TaskOK DEF command_disconnected, OthersInv, LinkInv
  <2>2. Sound(net') /\ (net'.setup = "connected" => net.setup = "connected")
    BY <1>2, DisconnectedSound DEF command_disconnected
  <2>3. ResultInv'
    BY <1>2, <2>2 DEF command_disconnected, ResultInv
  <2>4. QED
    BY <2>1, <2>2, <2>3
<1>3. CASE command_got_ip
  <2>1. QueueOK(queue') /\ task' \in TaskStates /\ OthersInv' /\ LinkInv'
    BY <1>3, TakenOK, TaskOK DEF command_got_ip, OthersInv, LinkInv
  <2>2. Sound(net')
    BY <1>3, GotIpSound DEF command_got_ip
  <2>3. Head(queue).arg = "good"
    <3>1. Head(queue) \in Commands /\ Head(queue).id = "got_ip"
      BY <1>3, TakenOK DEF command_got_ip
    <3>2. QED
      BY <3>1, CommandArgs
  <2>4. ResultInv'
    BY <1>3, <2>3 DEF command_got_ip, ResultInv
  <2>5. QED
    BY <2>1, <2>2, <2>4
<1>4. CASE command_open_portal
  <2>1. QueueOK(queue') /\ LinkInv' /\ Head(queue) \in Commands /\ Head(queue).id = "open_portal"
    BY <1>4, TakenOK DEF command_open_portal, LinkInv
  <2>2. Head(queue).arg \in {"first", "manual"}
    BY <2>1, CommandArgs
  <2>3. CASE net.portal # "closed"
    <3>1. task' = Ticks /\ UNCHANGED <<api, supervisor, left, stored>>
          /\ net' = ReopenPortal(net, Head(queue).arg) /\ lapses \subseteq lapses'
      BY <1>4, <2>3 DEF command_open_portal
    <3>2. Sound(net') /\ net'.setup = net.setup
      BY <2>2, <3>1, TouchedSound DEF ReopenPortal, Portals
    <3>3. ResultInv'
      BY <3>1, <3>2 DEF ResultInv
    <3>4. OthersInv' /\ task' \in TaskStates
      BY <3>1, TaskOK DEF OthersInv
    <3>5. QED
      BY <2>1, <3>2, <3>3, <3>4
  <2>4. CASE net.portal = "closed"
    <3>1. /\ task' = [pc |-> "start", reason |-> Head(queue).arg, after |-> "tick"]
          /\ api' = FALSE /\ UNCHANGED <<net, lapses, supervisor, left, stored>>
      BY <1>4, <2>4 DEF command_open_portal
    <3>2. task' \in TaskStates
      BY <2>2, <3>1, TaskOK DEF Portals
    <3>3. OthersInv' /\ ResultInv' /\ Sound(net')
      BY <3>1 DEF OthersInv, ResultInv
    <3>4. QED
      BY <2>1, <3>2, <3>3
  <2>5. QED
    BY <2>3, <2>4
<1>5. CASE no_command
  BY <1>5, TaskOK DEF no_command, LinkInv, ResultInv, OthersInv
<1>6. QED
  BY <1>1, <1>2, <1>3, <1>4, <1>5

(* A disturbance less is left. *)
LEMMA DisturbOK ==
    ASSUME left \in 0..MaxDisturbances, Disturb \/ UNCHANGED left
    PROVE  left' \in 0..MaxDisturbances
  BY NetworkAssumption DEF Disturb

(* New credentials: a test begins without a link, or they are refused. *)
LEMMA SetupStep ==
    ASSUME NetworkInv, command_setup_submitted \/ command_setup_refused
    PROVE  NetworkInv'
<1> USE DEF NetworkInv
<1>1. /\ Takes("setup") /\ queue' = QueueAfterLeaving(Tail(queue))
      /\ wifi' = [wifi EXCEPT !.link = "idle"] /\ task' = Ticks
      /\ UNCHANGED <<api, supervisor>> /\ (Disturb \/ UNCHANGED left)
  BY DEF command_setup_submitted, command_setup_refused
<1>2. QueueOK(Tail(queue)) /\ Head(queue) \in Commands /\ Head(queue).id = "setup"
  BY <1>1, TakenOK
<1>3. QueueOK(queue')
  BY <1>1, <1>2, LeavingOK
<1>4. Head(queue).arg \in {"good", "bad"}
  BY <1>2, CommandArgs
<1>5. LinkInv'
  <2>1. stored' = stored \/ stored' \in {"good", "bad"}
    BY <1>4 DEF command_setup_submitted, command_setup_refused
  <2>2. QED
    BY <1>1, <2>1, LinkDown
<1>6. OthersInv' /\ task' \in TaskStates
  BY <1>1, DisturbOK, TaskOK DEF OthersInv
<1>7. Sound(net') /\ net'.setup # "connected"
  <2>1. CASE net' = [net EXCEPT !.setup = "failed"]
    BY <2>1, TouchedSound
  <2>2. CASE net' = [net EXCEPT !.provisioned = TRUE, !.setup = "connecting", !.failures = 0,
                                !.next = TRUE]
    <3>1. net \in NetStates /\ 0 \in 0..SetupAttempts /\ 0 < SetupAttempts
      BY NetworkAssumption DEF Sound
    <3>2. net' \in NetStates /\ net'.setup = "connecting" /\ net'.failures = 0
      BY <2>2, <3>1 DEF NetStates
    <3>3. QED
      BY <3>1, <3>2 DEF Sound
  <2>3. QED
    BY <2>1, <2>2 DEF command_setup_submitted, command_setup_refused
<1>8. QED
  BY <1>3, <1>5, <1>6, <1>7 DEF ResultInv

(* A portal starts, or does not. *)
LEMMA PortalStep ==
    ASSUME NetworkInv, portal_started \/ portal_port_taken \/ portal_not_started
    PROVE  NetworkInv'
<1> USE DEF NetworkInv
<1>1. /\ task' = [Main EXCEPT !.pc = task.after]
      /\ UNCHANGED <<queue, api, supervisor, wifi, stored>> /\ (Disturb \/ UNCHANGED left)
      /\ lapses \subseteq lapses'
      /\ net' = net \/ net' = [net EXCEPT !.portal = task.reason]
  BY DEF portal_started, portal_port_taken, portal_not_started
<1>2. task.after \in {"receive", "tick"} /\ task.reason \in Portals
  BY DEF TaskStates
<1>3. task' \in TaskStates /\ OthersInv'
  BY <1>1, <1>2, TaskOK, DisturbOK DEF OthersInv
<1>4. Sound(net') /\ net'.setup = net.setup
  <2>1. CASE net' = [net EXCEPT !.portal = task.reason]
    BY <1>2, <2>1, TouchedSound
  <2>2. QED
    BY <1>1, <2>1
<1>5. ResultInv' /\ LinkInv' /\ QueueOK(queue')
  BY <1>1, <1>4 DEF ResultInv, LinkInv
<1>6. QED
  BY <1>3, <1>4, <1>5

(* A tick ends a test as failed, never as connected. *)
LEMMA TickStep ==
    ASSUME NetworkInv, NEW due \in SUBSET Deadlines, NEW refused \in BOOLEAN,
           handle_tick(due, refused)
    PROVE  NetworkInv'
<1> USE DEF NetworkInv
<1>1. Sound(net') /\ (net'.setup = "connected" => net.setup = "connected")
  <2> DEFINE f == [net EXCEPT !.setup = "failed"]
             n == IF TestTimesOut(due) THEN schedule_reconnect(f)
                  ELSE IF ReconnectDue(due) THEN [net EXCEPT !.next = FALSE] ELSE net
  <2>1. Sound(f) /\ f.setup = "failed"
    BY TouchedSound
  <2>2. Sound(schedule_reconnect(f)) /\ schedule_reconnect(f).setup = "failed"
    <3> HIDE DEF f
    <3>1. QED
      BY <2>1, TouchedSound DEF schedule_reconnect
  <2>3. Sound(n) /\ (n.setup = "connected" => net.setup = "connected")
    BY <2>2, TouchedSound
  <2>4. net' = IF ManualOver(due) THEN [n EXCEPT !.portal = "closed"] ELSE n
    BY DEF handle_tick, AfterTick, close_portal
  <2> HIDE DEF n
  <2>5. "closed" \in Portals
    BY DEF Portals
  <2>6. QED
    BY <2>3, <2>4, <2>5, TouchedSound
<1>2. QueueOK(queue')
  BY LeavingOK DEF handle_tick
<1>3. LinkInv'
  <2>1. wifi' = wifi \/ \E l \in {"idle", "connecting"} : wifi' = [wifi EXCEPT !.link = l]
    <3>1. wifi = [wifi EXCEPT !.link = wifi.link]
      BY DEF LinkInv
    <3>2. PICK l : /\ wifi' = [wifi EXCEPT !.link = l]
                   /\ l \in {"idle", "connecting", wifi.link}
      BY DEF handle_tick
    <3>3. QED
      BY <3>1, <3>2
  <2>2. stored' = stored
    BY DEF handle_tick
  <2>3. CASE wifi' = wifi
    BY <2>2, <2>3 DEF LinkInv
  <2>4. QED
    BY <2>1, <2>2, <2>3, LinkDown
<1>4. ResultInv'
  BY <1>1 DEF handle_tick, ResultInv
<1>5. OthersInv'
  <2>1. left' \in 0..MaxDisturbances
    BY DisturbOK DEF handle_tick, OthersInv
  <2>2. api' \in BOOLEAN /\ supervisor' = supervisor
    BY DEF handle_tick
  <2>3. QED
    BY <2>1, <2>2 DEF OthersInv
<1>6. task' \in TaskStates
  BY TaskOK DEF handle_tick, Portals
<1>7. QED
  BY <1>1, <1>2, <1>3, <1>4, <1>5, <1>6

(* The commands of a start fit into the queue. *)
LEMMA BootOK ==
    ASSUME NEW cred \in Credentials
    PROVE  Sound(Booted(cred)) /\ Booted(cred).setup = "idle" /\ QueueOK(FirstCommands(cred))
<1>1. Sound(Booted(cred)) /\ Booted(cred).setup = "idle"
  BY NetworkAssumption DEF Booted, Sound, NetStates, Portals
<1>2. Cmd("sta_start", "none") \in Commands /\ Cmd("open_portal", "first") \in Commands
  BY DEF Commands
<1>3. QueueOK(<<Cmd("sta_start", "none")>>)
  BY <1>2, NetworkAssumption DEF QueueOK
<1>4. QueueOK(<<Cmd("sta_start", "none"), Cmd("open_portal", "first")>>)
  BY <1>2, NetworkAssumption DEF QueueOK
<1>5. QED
  BY <1>1, <1>3, <1>4 DEF FirstCommands

(* The restart, and the supervisor, which only reads the state of the network. *)
LEMMA RestartStep ==
    ASSUME NetworkInv,
           Restart \/ supervisor_snapshot \/ supervisor_start \/ supervisor_start_fails
    PROVE  NetworkInv'
<1> USE DEF NetworkInv
<1>1. CASE Restart
  <2>1. Sound(net') /\ net'.setup = "idle" /\ QueueOK(queue')
    BY <1>1, BootOK DEF Restart, LinkInv
  <2>2. LinkInv'
    BY <1>1, LinkDown DEF Restart
  <2>3. OthersInv' /\ task' \in TaskStates
    BY <1>1, TaskOK DEF Restart, OthersInv
  <2>4. QED
    BY <2>1, <2>2, <2>3 DEF ResultInv
<1>2. ASSUME UNCHANGED <<net, task, queue, wifi, stored, lapses>>, OthersInv'
      PROVE  NetworkInv'
  BY <1>2 DEF LinkInv, ResultInv
<1>3. CASE supervisor_snapshot
  <2>1. OthersInv'
    BY <1>3 DEF supervisor_snapshot, OthersInv, Sound, NetStates
  <2>2. QED
    BY <1>2, <1>3, <2>1 DEF supervisor_snapshot
<1>4. CASE supervisor_start
  <2>1. OthersInv'
    BY <1>4 DEF supervisor_start, OthersInv, Sound, NetStates
  <2>2. QED
    BY <1>2, <1>4, <2>1 DEF supervisor_start
<1>5. CASE supervisor_start_fails
  <2>1. left' \in 0..MaxDisturbances
    BY <1>5, DisturbOK DEF supervisor_start_fails, OthersInv
  <2>2. OthersInv'
    BY <1>5, <2>1 DEF supervisor_start_fails, OthersInv
  <2>3. QED
    BY <1>2, <1>5, <2>2 DEF supervisor_start_fails
<1>6. QED
  BY <1>1, <1>3, <1>4, <1>5

(* The driver, the access point and the user post commands. *)
LEMMA OutsideStep ==
    ASSUME NetworkInv,
           \/ StationJoins \/ StationFails \/ ApGone \/ ApBack \/ ApExpels \/ LeaseRenewed
           \/ network_service_open_portal
           \/ \E cred \in {"good", "bad"} : network_service_submit_credentials(cred)
    PROVE  NetworkInv'
<1> USE DEF NetworkInv
<1>1. /\ UNCHANGED <<net, task, api, supervisor, stored>> /\ (Disturb \/ UNCHANGED left)
      /\ lapses \subseteq lapses'
  BY DEF StationJoins, StationFails, ApGone, ApBack, ApExpels, LeaseRenewed, Reports,
         network_service_open_portal, network_service_submit_credentials
<1>2. OthersInv' /\ ResultInv' /\ Sound(net') /\ task' \in TaskStates
  <2>1. left' \in 0..MaxDisturbances
    BY <1>1, DisturbOK DEF OthersInv
  <2>2. QED
    BY <1>1, <2>1 DEF OthersInv, ResultInv
<1>3. LinkInv'
  <2>1. CASE StationJoins
    <3>1. wifi' = [wifi EXCEPT !.link = "ip"] /\ stored' = "good"
      BY <2>1 DEF StationJoins, CanJoin
    <3>2. QED
      BY <3>1 DEF LinkInv, Credentials
  <2>2. CASE StationFails \/ ApExpels
    <3>1. wifi' = [wifi EXCEPT !.link = "idle"]
      BY <2>2 DEF StationFails, ApExpels
    <3>2. QED
      BY <1>1, <3>1, LinkDown
  <2>3. CASE ApGone \/ ApBack
    <3>1. PICK b \in BOOLEAN, l \in {"idle", wifi.link} :
             wifi' = [wifi EXCEPT !.ap = b, !.link = l]
      <4>1. CASE ApBack
        <5>1. wifi' = [wifi EXCEPT !.ap = TRUE, !.link = wifi.link]
          BY <4>1 DEF ApBack, LinkInv
        <5>2. QED
          BY <5>1
      <4>2. CASE ApGone
        BY <4>2 DEF ApGone
      <4>3. QED
        BY <2>3, <4>1, <4>2
    <3>2. wifi' \in LinkStates /\ wifi'.link = l
      BY <3>1 DEF LinkInv, LinkStates
    <3>3. QED
      BY <1>1, <3>1, <3>2 DEF LinkInv, LinkStates
  <2>4. CASE wifi' = wifi
    BY <1>1, <2>4 DEF LinkInv
  <2>5. QED
    BY <2>1, <2>2, <2>3, <2>4
       DEF LeaseRenewed, network_service_open_portal, network_service_submit_credentials
<1>4. QueueOK(queue')
  <2>1. queue' = queue \/ \E c \in Commands : queue' = Posted(queue, c)
    <3>1. CASE StationJoins \/ LeaseRenewed
      <4>1. queue' = Posted(queue, Cmd("got_ip", "good"))
        BY <3>1 DEF StationJoins, LeaseRenewed, Reports, CanJoin, LinkInv
      <4>2. QED
        BY <4>1 DEF Commands
    <3>2. CASE StationFails \/ ApGone \/ ApBack \/ ApExpels
      BY <3>2 DEF StationFails, ApGone, ApBack, ApExpels, Reports, Commands
    <3>3. CASE \/ network_service_open_portal
               \/ \E cred \in {"good", "bad"} : network_service_submit_credentials(cred)
      BY <3>3 DEF network_service_open_portal, network_service_submit_credentials, Commands
    <3>4. QED
      BY <3>1, <3>2, <3>3
  <2>2. QED
    BY <2>1, PostedOK
<1>5. QED
  BY <1>2, <1>3, <1>4

-----------------------------------------------------------------------------
(* The result. *)

(* It holds at first. *)
LEMMA InitNetworkInv == Init => NetworkInv
<1> SUFFICES ASSUME Init PROVE NetworkInv
  OBVIOUS
<1>1. stored \in Credentials
  BY NetworkAssumption DEF Init
<1>2. Sound(net) /\ net.setup = "idle" /\ QueueOK(queue)
  BY <1>1, BootOK DEF Init
<1>3. task \in TaskStates
  BY TaskOK DEF Init
<1>4. LinkInv /\ ResultInv /\ OthersInv
  <2>1. wifi \in LinkStates /\ wifi.link = "idle"
    BY DEF Init, LinkStates
  <2>2. api \in BOOLEAN /\ supervisor \in [pc : {"wait", "lock"}, want : BOOLEAN]
    BY DEF Init
  <2>3. left \in 0..MaxDisturbances
    BY NetworkAssumption DEF Init
  <2>4. QED
    BY <1>1, <1>2, <2>1, <2>2, <2>3 DEF LinkInv, LinkStates, ResultInv, OthersInv
<1>5. QED
  BY <1>2, <1>3, <1>4 DEF NetworkInv

(* Every step keeps it. *)
LEMMA StepNetworkInv == NetworkInv /\ [Next]_vars => NetworkInv'
<1> SUFFICES ASSUME NetworkInv, [Next]_vars PROVE NetworkInv'
  OBVIOUS
<1>1. CASE NetworkStep
  BY <1>1, CommandStep, SetupStep, PortalStep DEF NetworkStep
<1>2. CASE command_setup_refused \/ portal_not_started
  BY <1>2, SetupStep, PortalStep
<1>3. CASE \E due \in SUBSET Deadlines, refused \in BOOLEAN : handle_tick(due, refused)
  BY <1>3, TickStep
<1>4. CASE Restart \/ supervisor_snapshot \/ supervisor_start \/ supervisor_start_fails
  BY <1>4, RestartStep
<1>5. CASE \/ StationJoins \/ StationFails \/ ApGone \/ ApBack \/ ApExpels \/ LeaseRenewed
           \/ network_service_open_portal
           \/ \E cred \in {"good", "bad"} : network_service_submit_credentials(cred)
  BY <1>5, OutsideStep
<1>6. CASE UNCHANGED vars
  BY <1>6 DEF vars, NetworkInv, LinkInv, ResultInv, OthersInv
<1>7. QED
  BY <1>1, <1>2, <1>3, <1>4, <1>5, <1>6 DEF Next

(* The portal says that new credentials have connected, and the gateway    *)
(* restarts with them, only when they let it join a network, or when an    *)
(* address of the network before was handled late (handle_got_ip), however *)
(* the test, its timeout, the events of the driver and further requests    *)
(* interleave; the queue and the failed attempts stay within their bounds. *)
THEOREM SetupResultIsTrue == Spec => []SetupResultTruthful
<1>1. NetworkInv => SetupResultTruthful
  BY DEF NetworkInv, SetupResultTruthful, TypeOK, Sound, NetStates, Portals, TaskStates,
         QueueOK, LinkInv, ResultInv, OthersInv
<1>2. QED
  BY <1>1, InitNetworkInv, StepNetworkInv, PTL DEF Spec
=============================================================================
