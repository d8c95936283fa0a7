--------------------------- MODULE ModemStackProofs ---------------------------
(***************************************************************************)
(* Proofs about the transport, the manager, the SMS service and the supply *)
(* in ModemStack, for any number of handles and interfaces, every depth    *)
(* of the queues, every threshold of the recovery and of the over-current  *)
(* monitor, and any number of disturbances.                                *)
(***************************************************************************)
EXTENDS ModemStack, FiniteSetTheorems, WellFoundedInduction, TLAPS

(* All that matters of the manager is where its task is. *)
HasPc(m) == "pc" \in DOMAIN m

Resetting(m) == m.pc \in {"reset", "manual"}

(* What execute_command, the end of a poll and the update of the state make *)
(* of the manager's record: the task stays, or goes to the recovery.        *)
LEMMA CommandPc ==
    ASSUME NEW m, HasPc(m), NEW ok, NEW n
    PROVE  /\ HasPc(Failed(m, n)) /\ Failed(m, n).pc = m.pc
           /\ HasPc(Succeeded(m)) /\ Succeeded(m).pc = m.pc
           /\ HasPc(AfterCommand(m, ok)) /\ AfterCommand(m, ok).pc = m.pc
  BY DEF HasPc, Failed, Succeeded, AfterCommand

(* The same of the end of a poll. *)
LEMMA PollPc ==
    ASSUME NEW m, HasPc(m), NEW ok, NEW state
    PROVE  LET r == PollResult([m EXCEPT !.state = state], ok)
           IN  HasPc(r) /\ r.pc \in {m.pc, "recover"}
  BY DEF HasPc, PollResult

-----------------------------------------------------------------------------
(* The steps of the manager's task that leave the supply alone are none of *)
(* a power cycle: first those that issue a command.                        *)
LEMMA CommandSteps ==
    ASSUME HasPc(mgr), NEW ok \in BOOLEAN,
           \/ initialize_profile(ok)
           \/ \E sim \in SimReports : initialize_sim(ok, sim) \/ poll_sim(ok, sim)
           \/ \E reg \in NetworkReports : initialize_network(ok, reg)
           \/ \E reg \in NetworkReports, first \in BOOLEAN : poll_network(first, ok, reg)
           \/ handle_sim_pin(ok)
    PROVE  HasPc(mgr') /\ ~Resetting(mgr) /\ ~Resetting(mgr')
<1> DEFINE Goal == HasPc(mgr') /\ ~Resetting(mgr) /\ ~Resetting(mgr')
<1>1. CASE initialize_profile(ok)
  <2>1. HasPc(AfterCommand(mgr, ok))
    BY CommandPc
  <2>2. QED
    BY <1>1, <2>1 DEF initialize_profile, HasPc, Resetting
<1>2. ASSUME NEW sim \in SimReports, initialize_sim(ok, sim) PROVE Goal
  <2>1. HasPc(AfterCommand(mgr, ok))
    BY CommandPc
  <2>2. QED
    BY <1>2, <2>1 DEF initialize_sim, HasPc, Resetting
<1>3. ASSUME NEW sim \in SimReports, poll_sim(ok, sim) PROVE Goal
  <2> DEFINE m == IF ok THEN [Succeeded(mgr) EXCEPT !.sim = sim, !.reinit = (sim = "ready")]
                  ELSE Failed(mgr, 1)
  <2>1. HasPc(m) /\ m.pc = mgr.pc
    BY CommandPc DEF HasPc
  <2>2. mgr' = PollResult([m EXCEPT !.state = StateAfterPoll(m)], ok) /\ mgr.pc = "receive"
    BY <1>3 DEF poll_sim, PollDue
  <2> HIDE DEF m
  <2>3. QED
    BY <2>1, <2>2, PollPc DEF Resetting
<1>4. ASSUME NEW reg \in NetworkReports, initialize_network(ok, reg) PROVE Goal
  <2> DEFINE m == IF ok THEN [Succeeded(mgr) EXCEPT !.registered = reg] ELSE Failed(mgr, 2)
  <2>1. HasPc(m)
    BY CommandPc DEF HasPc
  <2>2. /\ mgr.pc = "network"
        /\ mgr' = [m EXCEPT !.pc = "receive",
                            !.state = IF m.registered THEN "READY" ELSE "NETWORK_WAIT"]
    BY <1>4 DEF initialize_network
  <2> HIDE DEF m
  <2>3. QED
    BY <2>1, <2>2 DEF HasPc, Resetting
<1>5. ASSUME NEW reg \in NetworkReports, NEW first \in BOOLEAN, poll_network(first, ok, reg)
      PROVE  Goal
  <2> DEFINE r == IF first THEN [Succeeded(mgr) EXCEPT !.registered = reg] ELSE Failed(mgr, 1)
             m == AfterCommand(r, ok)
  <2>1. HasPc(r) /\ r.pc = mgr.pc
    BY CommandPc DEF HasPc
  <2>2. mgr' = PollResult([m EXCEPT !.state = StateAfterPoll(m)], first /\ ok)
        /\ mgr.pc = "receive"
    BY <1>5 DEF poll_network, PollDue
  <2> HIDE DEF r
  <2>3. HasPc(m) /\ m.pc = mgr.pc
    BY <2>1, CommandPc
  <2> HIDE DEF m
  <2>4. QED
    BY <2>2, <2>3, PollPc DEF Resetting
<1>6. CASE handle_sim_pin(ok)
  BY <1>6 DEF handle_sim_pin, Take, HasPc, Resetting
<1>7. QED
  BY <1>1, <1>2, <1>3, <1>4, <1>5, <1>6

(* So it is for the events of the queue, and the start of a session. *)
LEMMA EventSteps ==
    ASSUME HasPc(mgr), mqueue \in Seq(ManagerEvents),
           initialize_begin \/ handle_transport_ready \/ handle_transport_lost \/ handle_urc_line
    PROVE  HasPc(mgr') /\ ~Resetting(mgr) /\ ~Resetting(mgr')
<1>1. CASE initialize_begin
  BY <1>1 DEF initialize_begin, HasPc, Resetting
<1>2. CASE handle_transport_ready
  BY <1>2 DEF handle_transport_ready, Take, HasPc, Resetting
<1>3. CASE handle_transport_lost
  BY <1>3 DEF handle_transport_lost, Take, HasPc, Resetting
<1>4. CASE handle_urc_line
  <2> DEFINE value == Head(mqueue).value
             m == CASE value = "sim_ready"    -> [mgr EXCEPT !.sim = "ready", !.reinit = TRUE]
                    [] value = "sim_pin"      -> [mgr EXCEPT !.sim = "pin"]
                    [] value = "registered"   -> [mgr EXCEPT !.registered = TRUE]
                    [] value = "unregistered" -> [mgr EXCEPT !.registered = FALSE]
  <2>1. value \in StatusValues
    <3>1. Head(mqueue) \in ManagerEvents /\ Head(mqueue).id = "urc"
      BY <1>4 DEF handle_urc_line, Take
    <3>2. QED
      BY <3>1 DEF ManagerEvents, Event, StatusLine
  <2>2. HasPc(m) /\ m.pc = mgr.pc
    <3> HIDE DEF value
    <3>1. QED
      BY <2>1 DEF HasPc, StatusValues
  <2>3. mgr.pc = "receive" /\ mgr' = [m EXCEPT !.state = StateAfterPoll(m)]
    BY <1>4 DEF handle_urc_line, Take
  <2> HIDE DEF m
  <2>4. QED
    BY <2>2, <2>3 DEF HasPc, Resetting
<1>5. QED
  BY <1>1, <1>2, <1>3, <1>4

-----------------------------------------------------------------------------
(* The supply. *)

HasSupply(p) == {"requested", "latched", "on"} \subseteq DOMAIN p

(* VBUS is on exactly when it is requested and not latched off. *)
Consistent(p) ==
    /\ HasSupply(p) /\ p.requested \in BOOLEAN /\ p.latched \in BOOLEAN
    /\ p.on = (p.requested /\ ~p.latched)

(* The three fields decide. *)
LEMMA ConsistentBy ==
    ASSUME NEW p, NEW requested \in BOOLEAN, NEW latched \in BOOLEAN, NEW on \in BOOLEAN,
           HasSupply(p), p.requested = requested, p.latched = latched, p.on = on,
           on <=> (requested /\ ~latched)
    PROVE  Consistent(p)
  BY Zenon DEF Consistent

(* gateway_board_usb_host_power_set, with and without the latch. *)
LEMMA PowerSetConsistent ==
    ASSUME NEW p, Consistent(p), NEW enabled \in BOOLEAN
    PROVE  Consistent(PowerSet(p, enabled)) /\ PowerSet(p, enabled).requested = enabled
<1>1. CASE enabled /\ p.latched
  <2>1. PowerSet(p, enabled) = [p EXCEPT !.requested = TRUE]
    BY <1>1, Zenon DEF PowerSet
  <2>2. p.on = FALSE /\ p.latched = TRUE /\ enabled = TRUE
    BY <1>1, Zenon DEF Consistent
  <2>3. HasSupply([p EXCEPT !.requested = TRUE])
    BY DEF Consistent, HasSupply
  <2>4. /\ [p EXCEPT !.requested = TRUE].requested = TRUE
        /\ [p EXCEPT !.requested = TRUE].latched = p.latched
        /\ [p EXCEPT !.requested = TRUE].on = p.on
    BY DEF Consistent, HasSupply
  <2>5. QED
    BY <2>1, <2>2, <2>3, <2>4, ConsistentBy
<1>2. CASE ~(enabled /\ p.latched)
  <2> DEFINE r == [p EXCEPT !.requested = enabled, !.on = enabled]
  <2>1. PowerSet(p, enabled) = r
    BY <1>2, Zenon DEF PowerSet
  <2>2. HasSupply(r) /\ r.requested = enabled /\ r.latched = p.latched /\ r.on = enabled
    BY DEF Consistent, HasSupply
  <2>3. p.latched \in BOOLEAN /\ (enabled <=> (enabled /\ ~p.latched))
    BY <1>2, Zenon DEF Consistent
  <2> HIDE DEF r
  <2>4. QED
    BY <2>1, <2>2, <2>3, ConsistentBy
<1>3. QED
  BY <1>1, <1>2

(* power_monitor_task latches, or restores exactly what is requested. *)
LEMMA MonitorConsistent ==
    ASSUME NEW p, Consistent(p)
    PROVE  Consistent(Monitored(p)) /\ Monitored(p).requested = p.requested
<1> DEFINE n == IF ~overcurrent THEN 0
                ELSE IF p.asserted < AssertPolls THEN p.asserted + 1 ELSE AssertPolls
           q == [p EXCEPT !.asserted = n]
           latches == [q EXCEPT !.clear = 0, !.latched = TRUE, !.on = q.on /\ p.latched]
           cools == [q EXCEPT !.clear = q.clear + 1]
           restores == [q EXCEPT !.clear = 0, !.latched = FALSE, !.on = q.on \/ p.requested]
<1> HIDE DEF n
<1>1. HasSupply(q) /\ q.requested = p.requested /\ q.latched = p.latched /\ q.on = p.on
  BY DEF Consistent, HasSupply
<1>2. Monitored(p) \in {latches, restores} \/ (Monitored(p) \in {q, cools})
  BY DEF Monitored, n
<1> HIDE DEF q
<1>3. Consistent(q) /\ q.requested \in BOOLEAN
  BY <1>1, ConsistentBy DEF Consistent
<1>4. CASE Monitored(p) = latches
  <2>1. /\ HasSupply(latches) /\ latches.requested = q.requested
        /\ latches.latched = TRUE /\ latches.on = (q.on /\ p.latched)
    BY <1>1 DEF HasSupply
  <2>2. (q.on /\ p.latched) = FALSE
    BY <1>1, Zenon DEF Consistent
  <2> HIDE DEF latches
  <2>3. QED
    BY <1>1, <1>3, <1>4, <2>1, <2>2, ConsistentBy
<1>5. CASE Monitored(p) = restores
  <2>1. /\ HasSupply(restores) /\ restores.requested = q.requested
        /\ restores.latched = FALSE /\ restores.on = (q.on \/ p.requested)
    BY <1>1 DEF HasSupply
  <2>2. (q.on \/ p.requested) = q.requested
    BY <1>1, Zenon DEF Consistent
  <2> HIDE DEF restores
  <2>3. QED
    BY <1>1, <1>3, <1>5, <2>1, <2>2, ConsistentBy
<1>6. CASE Monitored(p) = cools
  <2>1. /\ HasSupply(cools) /\ cools.requested = q.requested
        /\ cools.latched = q.latched /\ cools.on = q.on
    BY <1>1 DEF HasSupply
  <2> HIDE DEF cools
  <2>2. QED
    BY <1>1, <1>3, <1>6, <2>1 DEF Consistent
<1>7. CASE Monitored(p) = q
  BY <1>1, <1>3, <1>7
<1>8. QED
  BY <1>2, <1>4, <1>5, <1>6, <1>7

-----------------------------------------------------------------------------
(* The power is requested but within a power cycle of the manager. *)
PowerInv ==
    /\ HasPc(mgr)
    /\ mqueue \in Seq(ManagerEvents)
    /\ Consistent(power)
    /\ power.requested \/ Resetting(mgr)

(* What is queued for the manager is an event of its. *)
LEMMA QueueTypes ==
    ASSUME mqueue \in Seq(ManagerEvents), NEW e \in ManagerEvents
    PROVE  /\ Queued(e) \in Seq(ManagerEvents)
           /\ QueuedFront(e) \in Seq(ManagerEvents)
           /\ mqueue # <<>> => Tail(mqueue) \in Seq(ManagerEvents)
  BY DEF Queued, QueuedFront

(* The manager's task. *)
LEMMA ManagerPower ==
    ASSUME PowerInv, Manager
    PROVE  PowerInv'
<1> USE DEF PowerInv
<1>0. mqueue' \in Seq(ManagerEvents)
  <2>1. mqueue' = mqueue \/ (mqueue # <<>> /\ mqueue' = Tail(mqueue))
    BY Zenon DEF Manager, ManagerCommand, ManagerEvent, ManagerRecovers, ManagerPowersOn, Take,
       initialize_begin, initialize_profile, initialize_sim, initialize_network, poll_sim,
       poll_network, handle_sim_pin, handle_transport_ready, handle_transport_lost,
       handle_urc_line, schedule_recovery, handle_manual_restart, hard_reset_returns,
       manual_reset_returns
  <2>2. QED
    BY <2>1
<1>1. CASE ManagerCommand
  <2>1. HasPc(mgr') /\ ~Resetting(mgr) /\ ~Resetting(mgr') /\ power' = power
    BY <1>1, CommandSteps DEF ManagerCommand, powerVars
  <2>2. QED
    BY <1>0, <2>1
<1>2. CASE ManagerEvent
  <2>1. HasPc(mgr') /\ ~Resetting(mgr) /\ ~Resetting(mgr') /\ power' = power
    BY <1>2, EventSteps DEF ManagerEvent, powerVars
  <2>2. QED
    BY <1>0, <2>1
<1>3. CASE ManagerRecovers
  <2> DEFINE cut == HardResetBegins \/ (mgr'.pc = "manual" /\ mgr.pc = "receive")
  <2>1. power' = IF cut THEN PowerSet(power, FALSE) ELSE power
    BY <1>3 DEF ManagerRecovers
  <2>2. HasPc(mgr') /\ ~Resetting(mgr) /\ (cut <=> Resetting(mgr'))
    <3>1. CASE schedule_recovery
      BY <3>1, Zenon DEF schedule_recovery, HardResetBegins, RecoveryAction, HasPc, Resetting
    <3>2. CASE handle_manual_restart(Answers)
      BY <3>2 DEF handle_manual_restart, Take, AfterFunctionalReset, HardResetBegins, HasPc,
         Resetting
    <3>3. QED
      BY <1>3, <3>1, <3>2 DEF ManagerRecovers
  <2>3. QED
    BY <1>0, <2>1, <2>2, PowerSetConsistent
<1>4. CASE ManagerPowersOn
  <2>1. power' = PowerSet(power, TRUE)
    BY <1>4 DEF ManagerPowersOn
  <2>2. HasPc(mgr')
    BY <1>4 DEF ManagerPowersOn, hard_reset_returns, manual_reset_returns,
       AfterFunctionalReset, HasPc
  <2>3. QED
    BY <1>0, <2>1, <2>2, PowerSetConsistent
<1>5. QED
  BY <1>1, <1>2, <1>3, <1>4 DEF Manager

(* usb_transport_event and the disturbances send events to the manager. *)
LEMMA QueueKept ==
    ASSUME mqueue \in Seq(ManagerEvents),
           UsbWorker \/ Disturbance
    PROVE  mqueue' \in Seq(ManagerEvents)
<1>1. \A id \in {"ready", "lost", "restart", "pin"} : Event(id) \in ManagerEvents
  BY DEF ManagerEvents
<1>2. \A line \in StatusLines : StatusLine(line) \in ManagerEvents
  BY StackAssumption DEF ManagerEvents
<1>3. CASE UsbWorker
  <2> PICK ev \in UsbEvents : usb_transport_event(ev)
    BY <1>3 DEF UsbWorker
  <2>1. \/ mqueue' = mqueue \/ mqueue' = Queued(Event("ready"))
        \/ mqueue' = QueuedFront(Event("lost"))
    BY DEF usb_transport_event, UsbEvents
  <2>2. QED
    BY <1>1, <2>1, QueueTypes
<1>4. CASE Disturbance
  <2>1. \/ mqueue' = mqueue
        \/ \E line \in StatusLines : mqueue' = Queued(StatusLine(line))
        \/ \E id \in {"restart", "pin"} : mqueue' = Queued(Event(id))
    BY <1>4, Zenon DEF Disturbance, mgrVars, CdcError, OvercurrentBegins, core_urc_dispatch,
       Request
  <2>2. QED
    BY <1>1, <1>2, <2>1, QueueTypes
<1>5. QED
  BY <1>3, <1>4

-----------------------------------------------------------------------------
(* The invariant holds when the gateway starts, with VBUS requested and on. *)
LEMMA InitPowerInv == Init => PowerInv
<1> SUFFICES ASSUME Init PROVE PowerInv
  OBVIOUS
<1>1. HasPc(mgr) /\ mqueue \in Seq(ManagerEvents)
  BY DEF Init, MgrInit, HasPc
<1>2. HasSupply(power) /\ power.requested = TRUE /\ power.latched = FALSE /\ power.on = TRUE
  BY DEF Init, PowerInit, HasSupply
<1>3. QED
  BY <1>1, <1>2, ConsistentBy DEF PowerInv

(* Every step keeps it: only the manager and the monitor touch the supply. *)
LEMMA StepPowerInv == PowerInv /\ [Next]_vars => PowerInv'
<1> SUFFICES ASSUME PowerInv, [Next]_vars PROVE PowerInv'
  OBVIOUS
<1> USE DEF PowerInv
<1>1. CASE Manager
  BY <1>1, ManagerPower
<1>2. CASE PowerMonitor
  <2>1. power' = Monitored(power) /\ mgr' = mgr /\ mqueue' = mqueue
    BY <1>2 DEF PowerMonitor, power_monitor_task, mgrVars
  <2>2. QED
    BY <2>1, MonitorConsistent
<1>3. CASE UsbWorker \/ Disturbance
  <2>1. power' = power /\ mgr' = mgr
    BY <1>3, Zenon DEF UsbWorker, Disturbance, mgrVars, powerVars, CdcError,
       OvercurrentBegins, core_urc_dispatch, Request
  <2>2. QED
    BY <1>3, <2>1, QueueKept
<1>4. CASE CdcDriver \/ Service \/ Enumerate \/ ModeSwitch \/ OvercurrentEnds
  <2>1. power' = power /\ mgr' = mgr /\ mqueue' = mqueue
    BY <1>4, Zenon DEF CdcDriver, Service, Enumerate, ModeSwitch, OvercurrentEnds, mgrVars,
       powerVars
  <2>2. QED
    BY <2>1
<1>5. CASE UNCHANGED vars
  BY <1>5 DEF vars, mgrVars, powerVars
<1>6. QED
  BY <1>1, <1>2, <1>3, <1>4, <1>5 DEF Next

(* Whatever the recovery of the manager (schedule_recovery,                *)
(* handle_manual_restart) and power_monitor_task do to VBUS in any order,  *)
(* it is off only during a power cycle or while the latch holds it off.    *)
THEOREM PowerReturns == Spec => []PowerComesBack
<1>1. PowerInv => PowerComesBack
  <2> SUFFICES ASSUME PowerInv, ~power.on PROVE power.latched \/ Resetting(mgr)
    BY DEF PowerComesBack, Resetting
  <2>1. QED
    BY Zenon DEF PowerInv, Consistent
<1>2. QED
  BY <1>1, InitPowerInv, StepPowerInv, PTL DEF Spec

-----------------------------------------------------------------------------
(* The transport: its types. *)

(* A non-empty set of natural numbers has a least element. *)
LEMMA LeastIn ==
    ASSUME NEW S \in SUBSET Nat, S # {}
    PROVE  Least(S) \in S
<1>1. PICK x \in S : \A y \in S : ~(<<y, x>> \in OpToRel(<, Nat))
  BY NatLessThanWellFounded, WFMin
<1>2. \A y \in S : ~(y < x)
  BY <1>1 DEF OpToRel
<1>3. \A y \in S : x <= y
  BY <1>2
<1>4. QED
  BY <1>3 DEF Least

HandleRecords == [id : Handles, gen : Nat, dev : Devices, port : Ports, told : BOOLEAN]

CdcRecords == [id : Handles \cup {"null"}, gen : Nat, dev : {0} \cup Devices,
               port : {0} \cup Ports]

UsbStates == [ready : BOOLEAN, present : BOOLEAN, gen : Nat, cdc : CdcRecords,
              last : {0} \cup Devices, probing : BOOLEAN]

WorkItems == [id : {"found", "disconnected", "error"}, dev : {0} \cup Devices, gen : Nat,
              handle : Handles \cup {"null"}]

WorkerStates == [pc : {"receive", "pause", "open", "write", "wait", "select", "none"},
                 dev : {0} \cup Devices, port : {1} \cup Ports, attempt : Nat]

DeviceInv ==
    /\ device \in [inst : {0} \cup Devices, mode : Modes, announced : BOOLEAN]
    /\ Attached => device.inst \in Devices

OpenInv == IsFiniteSet(open) /\ open \subseteq HandleRecords

WorkInv == work \in Seq(WorkItems) /\ Len(work) <= WorkDepth

WorkerInv == worker \in WorkerStates /\ (worker.pc = "open" => worker.port \in Ports)

UsbInv ==
    /\ DeviceInv /\ OpenInv /\ usb \in UsbStates /\ bits \subseteq {"ok", "gone", "error"}
    /\ WorkInv /\ WorkerInv

(* The image of a finite set. *)
LEMMA FiniteGens ==
    ASSUME NEW S, IsFiniteSet(S)
    PROVE  IsFiniteSet({x.gen : x \in S})
<1> DEFINE T == {x.gen : x \in S}
           f == [x \in S |-> x.gen]
<1>1. f \in Surjection(S, T)
  BY DEF Surjection
<1>2. PICK g : g \in Surjection(S, T)
  BY <1>1
<1> HIDE DEF T
<1>3. IsFiniteSet(T)
  BY <1>2, FS_Surjection, Zenon
<1>4. QED
  BY <1>3 DEF T

(* What is in a queue is finite. *)
LEMMA FiniteWork ==
    ASSUME WorkInv
    PROVE  IsFiniteSet(Range(work))
<1>1. PICK n \in Nat : n = Len(work)
  BY DEF WorkInv
<1>2. DOMAIN work = 1 .. n /\ work = [i \in 1 .. n |-> work[i]]
  BY <1>1 DEF WorkInv
<1>3. PICK T : T = Range(work)
  OBVIOUS
<1>4. work \in Surjection(1 .. n, T)
  BY <1>2, <1>3 DEF Surjection, Range
<1>5. PICK g : g \in Surjection(1 .. n, T)
  BY <1>4
<1>6. IsFiniteSet(1 .. n)
  <2>1. 1 \in Int /\ n \in Int
    OBVIOUS
  <2>2. QED
    BY <2>1, FS_Interval, Zenon
<1>7. IsFiniteSet(T)
  BY <1>5, <1>6, FS_Surjection, Zenon
<1>8. QED
  BY <1>3, <1>7

(* There is a new generation, and it is not 0. *)
LEMMA FreshIn ==
    ASSUME UsbInv
    PROVE  FreshGeneration \in Nat \ {0} /\ FreshGeneration \notin Generations
<1> DEFINE G == Generations
           c == Cardinality(G)
           S == 1 .. (c + 1) \ G
<1>1. IsFiniteSet(G)
  <2>1. IsFiniteSet({h.gen : h \in open})
    BY FiniteGens DEF UsbInv, OpenInv
  <2>2. IsFiniteSet({w.gen : w \in Range(work)})
    BY FiniteWork, FiniteGens DEF UsbInv
  <2>3. IsFiniteSet({usb.gen})
    BY FS_Singleton
  <2>4. IsFiniteSet({h.gen : h \in open} \cup {w.gen : w \in Range(work)})
    BY <2>1, <2>2, FS_Union
  <2>5. IsFiniteSet({h.gen : h \in open} \cup {w.gen : w \in Range(work)} \cup {usb.gen})
    BY <2>3, <2>4, FS_Union
  <2>6. QED
    BY <2>5 DEF Generations
<1>2. c \in Nat
  BY <1>1, FS_CardinalityType
<1> HIDE DEF G
<1>3. S # {}
  <2> SUFFICES ASSUME S = {} PROVE FALSE
    OBVIOUS
  <2>1. 1 .. (c + 1) \in SUBSET G
    OBVIOUS
  <2>2. Cardinality(1 .. (c + 1)) <= c
    BY <1>1, <2>1, FS_Subset
  <2>3. Cardinality(1 .. (c + 1)) = c + 1
    BY <1>2, FS_Interval
  <2>4. QED
    BY <1>2, <2>2, <2>3
<1>4. S \in SUBSET Nat /\ 0 \notin S
  BY <1>2
<1>5. Least(S) \in S
  BY <1>3, <1>4, LeastIn
<1>6. FreshGeneration = Least(S)
  BY DEF FreshGeneration, G
<1>7. QED
  BY <1>4, <1>5, <1>6 DEF G

(* What the callbacks send fits the queue. *)
LEMMA WorkSent ==
    ASSUME WorkInv, NEW w \in WorkItems, work' = Enqueue(work, WorkDepth, w) \/ work' = work
    PROVE  WorkInv'
<1>1. work \in Seq(WorkItems) /\ Len(work) \in Nat
  BY DEF WorkInv
<1>2. Append(work, w) \in Seq(WorkItems) /\ Len(Append(work, w)) = Len(work) + 1
  BY <1>1
<1>3. QED
  BY <1>1, <1>2, StackAssumption DEF WorkInv, Enqueue

(* What the worker takes from it. *)
LEMMA WorkTaken ==
    ASSUME WorkInv, work # <<>>, work' = Tail(work)
    PROVE  WorkInv' /\ Head(work) \in WorkItems
<1>1. work \in Seq(WorkItems) /\ Len(work) \in Nat
  BY DEF WorkInv
<1>2. Tail(work) \in Seq(WorkItems) /\ Len(Tail(work)) = Len(work) - 1
  BY <1>1
<1>3. QED
  BY <1>1, <1>2, StackAssumption DEF WorkInv

(* What the worker starts from. *)
LEMMA IdleWorker ==
    /\ Idle \in WorkerStates /\ Idle.pc = "receive" /\ Idle.port = 1
    /\ \A d \in {0} \cup Devices : [Idle EXCEPT !.pc = "pause", !.dev = d] \in WorkerStates
  BY DEF Idle, WorkerStates

(* close_current_handle keeps the types. *)
LEMMA CloseTypes ==
    ASSUME OpenInv, usb \in UsbStates, NEW id
    PROVE  Closed(id) \in UsbStates /\ IsFiniteSet(OpenAfterClose(id))
           /\ OpenAfterClose(id) \subseteq open
<1>1. NoHandle \in CdcRecords
  BY DEF NoHandle, CdcRecords
<1>2. Closed(id) \in UsbStates
  BY <1>1 DEF Closed, UsbStates
<1>3. OpenAfterClose(id) \subseteq open
  BY DEF OpenAfterClose
<1>4. OpenAfterClose(id) \in SUBSET open /\ IsFiniteSet(open)
  BY <1>3 DEF OpenInv
<1>5. QED
  BY <1>2, <1>3, <1>4, FS_Subset

(* handle_device_found begins with the first interface. *)
LEMMA ProbeTypes ==
    ASSUME usb \in UsbStates, bits \subseteq {"ok", "gone", "error"},
           NEW d \in {0} \cup Devices, BeginProbe(d, usb)
    PROVE  usb' \in UsbStates /\ bits' \subseteq {"ok", "gone", "error"} /\ WorkerInv'
<1>1. usb' \in UsbStates /\ bits' \subseteq {"ok", "gone", "error"}
  BY DEF BeginProbe, UsbStates
<1>2. worker' = [Idle EXCEPT !.pc = IF Ports = {} THEN "none" ELSE "open", !.dev = d]
  BY DEF BeginProbe
<1>3. worker' \in WorkerStates /\ worker'.port = 1 /\ (worker'.pc = "open" => Ports # {})
  BY <1>2 DEF Idle, WorkerStates
<1>4. QED
  BY <1>1, <1>3, StackAssumption DEF WorkerInv

(* The next interface of the modem. *)
LEMMA CandidateTypes ==
    ASSUME WorkerInv, NEW b, worker' = AfterCandidate(b)
    PROVE  WorkerInv' /\ worker'.pc \in {"receive", "open", "none"}
<1>1. CASE ~b
  BY <1>1, IdleWorker DEF AfterCandidate, WorkerInv
<1>2. CASE b /\ worker.port + 1 \in Ports
  <2>0. PICK p \in Ports : p = worker.port + 1
    BY <1>2
  <2>1. worker' = [worker EXCEPT !.pc = "open", !.port = p, !.attempt = 1]
    BY <1>2, <2>0 DEF AfterCandidate
  <2>2. worker' \in WorkerStates /\ worker'.port \in Ports /\ worker'.pc = "open"
    <3>1. PICK w \in WorkerStates : w = [worker EXCEPT !.pc = "open"]
      BY DEF WorkerInv, WorkerStates
    <3>2. PICK v \in WorkerStates : v = [w EXCEPT !.port = p]
      BY DEF WorkerStates
    <3>3. v.pc = "open" /\ v.port = p
      BY <3>1, <3>2 DEF WorkerInv, WorkerStates
    <3>4. worker' = [v EXCEPT !.attempt = 1]
      BY <2>1, <3>1, <3>2
    <3>5. worker' \in WorkerStates
      BY <3>4 DEF WorkerStates
    <3>6. worker'.pc = v.pc /\ worker'.port = v.port
      BY <3>4 DEF WorkerStates
    <3>7. QED
      BY <3>3, <3>5, <3>6
  <2>3. QED
    BY <2>2 DEF WorkerInv
<1>3. CASE b /\ worker.port + 1 \notin Ports
  <2>1. worker' = [worker EXCEPT !.pc = "none"]
    BY <1>3 DEF AfterCandidate
  <2>2. worker' \in WorkerStates /\ worker'.pc = "none"
    BY <2>1 DEF WorkerInv, WorkerStates
  <2>3. QED
    BY <2>2 DEF WorkerInv
<1>4. QED
  BY <1>1, <1>2, <1>3

(* The task goes to another point of the probe. *)
LEMMA WorkerMoves ==
    ASSUME WorkerInv, NEW pc \in {"receive", "write", "wait", "select"}, NEW n \in Nat,
           worker' = [worker EXCEPT !.pc = pc, !.attempt = n]
           \/ worker' = [worker EXCEPT !.pc = pc]
    PROVE  WorkerInv' /\ worker'.pc = pc
<1>1. worker' \in WorkerStates /\ worker'.pc = pc
  BY DEF WorkerInv, WorkerStates
<1>2. QED
  BY <1>1 DEF WorkerInv

(* A probe that fails closes the handle. *)
LEMMA ProbeFailsTypes ==
    ASSUME OpenInv, usb \in UsbStates, WorkerInv, ProbeFails
    PROVE  OpenInv' /\ usb' \in UsbStates /\ WorkerInv'
           /\ worker'.pc \in {"receive", "open", "none"}
<1>1. Closed(usb.cdc.id) \in UsbStates /\ open' \subseteq open /\ IsFiniteSet(open')
  BY CloseTypes DEF ProbeFails
<1>2. OpenInv'
  BY <1>1 DEF OpenInv
<1>3. usb' = [Closed(usb.cdc.id) EXCEPT !.probing = FALSE]
  BY DEF ProbeFails
<1>4. usb' \in UsbStates
  BY <1>1, <1>3 DEF UsbStates
<1>5. WorkerInv' /\ worker'.pc \in {"receive", "open", "none"}
  BY CandidateTypes DEF ProbeFails
<1>6. QED
  BY <1>2, <1>4, <1>5

(* Another attempt, or the end of the probe. *)
LEMMA AttemptTypes ==
    ASSUME OpenInv, usb \in UsbStates, WorkerInv, NextAttempt(TRUE)
    PROVE  OpenInv' /\ usb' \in UsbStates /\ WorkerInv'
<1>1. CASE ProbeFails
  BY <1>1, ProbeFailsTypes
<1>2. CASE /\ worker' = [worker EXCEPT !.pc = "write", !.attempt = @ + 1]
           /\ usb' = [usb EXCEPT !.probing = TRUE] /\ UNCHANGED open
  <2>1. usb' \in UsbStates /\ OpenInv'
    BY <1>2 DEF UsbStates, OpenInv
  <2>2. worker.attempt + 1 \in Nat
    BY DEF WorkerInv, WorkerStates
  <2>3. WorkerInv'
    BY <1>2, <2>2, WorkerMoves
  <2>4. QED
    BY <2>1, <2>3
<1>3. QED
  BY <1>1, <1>2 DEF NextAttempt

(* The worker task. *)
LEMMA WorkerTypes ==
    ASSUME UsbInv, NEW ev \in UsbEvents, modem_usb_worker_task(ev)
    PROVE  UsbInv'
<1> USE DEF UsbInv
<1>0. device' = device
  BY DEF modem_usb_worker_task, worker_device_found, worker_disconnect, worker_error,
         worker_probe_again, probe_open, probe_open_failed, probe_write, probe_interrupted,
         probe_answered, probe_timeout, probe_select, probe_gives_up
<1>1. DeviceInv'
  BY <1>0 DEF DeviceInv, Attached
<1>2. CASE worker_device_found(ev)
  <2>1. WorkInv' /\ Head(work) \in WorkItems
    BY <1>2, WorkTaken DEF worker_device_found
  <2>2. PICK d \in {0} \cup Devices : d = Head(work).dev
    BY <2>1 DEF WorkItems
  <2>3. usb' \in UsbStates /\ bits' \subseteq {"ok", "gone", "error"} /\ WorkerInv'
    BY <1>2, <2>2, ProbeTypes DEF worker_device_found
  <2>4. OpenInv'
    BY <1>2 DEF worker_device_found, OpenInv
  <2>5. QED
    BY <1>1, <2>1, <2>3, <2>4
<1>3. CASE worker_disconnect(ev)
  <2>1. WorkInv'
    BY <1>3, WorkTaken DEF worker_disconnect
  <2>2. PICK u \in UsbStates : u = Closed(Head(work).handle)
    BY CloseTypes
  <2>3. open' \subseteq open /\ IsFiniteSet(open')
    BY <1>3, CloseTypes DEF worker_disconnect
  <2>4. usb' = [u EXCEPT !.probing = FALSE, !.present = FALSE, !.ready = FALSE,
                         !.last = 0, !.gen = 0]
    BY <1>3, <2>2 DEF worker_disconnect
  <2>5. usb' \in UsbStates
    BY <2>4 DEF UsbStates
  <2>6. OpenInv' /\ WorkerInv' /\ bits' = bits
    BY <1>3, <2>3 DEF worker_disconnect, OpenInv, WorkerInv
  <2>7. QED
    BY <1>1, <2>1, <2>5, <2>6
<1>4. CASE worker_error(ev)
  <2>1. WorkInv'
    BY <1>4, WorkTaken DEF worker_error
  <2>2. usb' \in UsbStates /\ open' \subseteq open /\ IsFiniteSet(open')
    BY <1>4, CloseTypes DEF worker_error
  <2>3. WorkerInv'
    <3>1. PICK d \in {0} \cup Devices : d = usb.last
      BY DEF UsbStates
    <3>2. worker' = Idle \/ worker' = [Idle EXCEPT !.pc = "pause", !.dev = d]
      BY <1>4, <3>1 DEF worker_error
    <3>3. worker' \in WorkerStates /\ worker'.pc # "open"
      BY <3>2, IdleWorker DEF Idle
    <3>4. QED
      BY <3>3 DEF WorkerInv
  <2>4. OpenInv' /\ bits' = bits
    BY <1>4, <2>2 DEF worker_error, OpenInv
  <2>5. QED
    BY <1>1, <2>1, <2>2, <2>3, <2>4
<1>5. CASE worker_probe_again(ev)
  <2>1. PICK d \in {0} \cup Devices : d = worker.dev
    BY DEF WorkerInv, WorkerStates
  <2>2. usb' \in UsbStates /\ bits' \subseteq {"ok", "gone", "error"} /\ WorkerInv'
    BY <1>5, <2>1, ProbeTypes DEF worker_probe_again
  <2>3. OpenInv' /\ WorkInv'
    BY <1>5 DEF worker_probe_again, OpenInv, WorkInv
  <2>4. QED
    BY <1>1, <2>2, <2>3
<1>6. CASE probe_open(ev)
  <2>1. PICK g \in Nat : g = FreshGeneration
    BY FreshIn
  <2>2. PICK id \in Handles :
          LET h == [id |-> id, gen |-> g, dev |-> device.inst, port |-> worker.port]
          IN  /\ open' = open \cup {[id |-> id, gen |-> h.gen, dev |-> h.dev,
                                     port |-> h.port, told |-> FALSE]}
              /\ usb' = [usb EXCEPT !.gen = h.gen, !.cdc = h]
    BY <1>6, <2>1 DEF probe_open
  <2>3. device.inst \in Devices /\ worker.port \in Ports
    BY <1>6 DEF probe_open, CanOpen, DeviceInv, Attached, WorkerInv
  <2>4. PICK h : h = [id |-> id, gen |-> g, dev |-> device.inst, port |-> worker.port]
    OBVIOUS
  <2>5. PICK k : k = [id |-> id, gen |-> g, dev |-> device.inst, port |-> worker.port,
                      told |-> FALSE]
    OBVIOUS
  <2>6. h \in CdcRecords /\ k \in HandleRecords /\ h.gen = g
    BY <2>3, <2>4, <2>5 DEF CdcRecords, HandleRecords
  <2>7. usb' = [usb EXCEPT !.gen = g, !.cdc = h] /\ open' = open \cup {k}
    BY <2>2, <2>4, <2>5
  <2>8. usb' \in UsbStates
    BY <2>6, <2>7 DEF UsbStates
  <2>9. OpenInv'
    <3>1. IsFiniteSet(open')
      BY <2>7, FS_AddElement DEF OpenInv
    <3>2. QED
      BY <2>6, <2>7, <3>1 DEF OpenInv
  <2>10. WorkerInv' /\ WorkInv' /\ bits' = bits
    BY <1>6, WorkerMoves DEF probe_open, WorkInv
  <2>11. QED
    BY <1>1, <2>8, <2>9, <2>10
<1>7. CASE probe_open_failed(ev)
  <2>1. usb' \in UsbStates
    BY <1>7 DEF probe_open_failed, UsbStates
  <2>2. WorkerInv'
    BY <1>7, CandidateTypes DEF probe_open_failed
  <2>3. OpenInv' /\ WorkInv' /\ bits' = bits
    BY <1>7 DEF probe_open_failed, OpenInv, WorkInv
  <2>4. QED
    BY <1>1, <2>1, <2>2, <2>3
<1>8. CASE probe_write(ev)
  <2>1. bits' \subseteq {"ok", "gone", "error"} /\ WorkInv'
    BY <1>8 DEF probe_write, WorkInv
  <2>2. CASE Reaches(usb.cdc)
    <3>1. usb' = [usb EXCEPT !.probing = TRUE] /\ UNCHANGED open
          /\ worker' = [worker EXCEPT !.pc = "wait"]
      BY <1>8, <2>2 DEF probe_write
    <3>2. usb' \in UsbStates /\ OpenInv'
      BY <3>1 DEF UsbStates, OpenInv
    <3>3. WorkerInv'
      BY <3>1, WorkerMoves
    <3>4. QED
      BY <1>1, <2>1, <3>2, <3>3
  <2>3. CASE ~Reaches(usb.cdc)
    <3>1. ProbeFails \/ NextAttempt(TRUE)
      BY <1>8, <2>3 DEF probe_write
    <3>2. OpenInv' /\ usb' \in UsbStates /\ WorkerInv'
      BY <3>1, ProbeFailsTypes, AttemptTypes
    <3>3. QED
      BY <1>1, <2>1, <3>2
  <2>4. QED
    BY <2>2, <2>3
<1>9. CASE probe_interrupted(ev)
  <2>1. OpenInv' /\ usb' \in UsbStates /\ WorkerInv'
    BY <1>9, ProbeFailsTypes DEF probe_interrupted
  <2>2. bits' \subseteq {"ok", "gone", "error"} /\ WorkInv'
    BY <1>9 DEF probe_interrupted, WorkInv
  <2>3. QED
    BY <1>1, <2>1, <2>2
<1>10. CASE probe_answered(ev)
  <2>1. usb' \in UsbStates /\ OpenInv' /\ WorkInv' /\ bits' = {}
    BY <1>10 DEF probe_answered, UsbStates, OpenInv, WorkInv
  <2>2. WorkerInv'
    BY <1>10, WorkerMoves DEF probe_answered
  <2>3. QED
    BY <1>1, <2>1, <2>2
<1>11. CASE probe_timeout(ev)
  <2>1. OpenInv' /\ usb' \in UsbStates /\ WorkerInv'
    BY <1>11, AttemptTypes DEF probe_timeout
  <2>2. WorkInv' /\ bits' = bits
    BY <1>11 DEF probe_timeout, WorkInv
  <2>3. QED
    BY <1>1, <2>1, <2>2
<1>12. CASE probe_select(ev)
  <2>1. usb' \in UsbStates /\ OpenInv' /\ WorkInv' /\ bits' = bits
    BY <1>12 DEF probe_select, UsbStates, OpenInv, WorkInv
  <2>2. WorkerInv'
    BY <1>12, IdleWorker DEF probe_select, WorkerInv
  <2>3. QED
    BY <1>1, <2>1, <2>2
<1>13. CASE probe_gives_up(ev)
  <2>1. usb' \in UsbStates /\ OpenInv' /\ WorkInv' /\ bits' = bits
    BY <1>13 DEF probe_gives_up, OpenInv, WorkInv
  <2>2. WorkerInv'
    BY <1>13, IdleWorker DEF probe_gives_up, WorkerInv
  <2>3. QED
    BY <1>1, <2>1, <2>2
<1>14. QED
  BY <1>2, <1>3, <1>4, <1>5, <1>6, <1>7, <1>8, <1>9, <1>10, <1>11, <1>12, <1>13
     DEF modem_usb_worker_task

(* The callbacks of the driver. *)
LEMMA DriverTypes ==
    ASSUME UsbInv, CdcDriverTask \/ \E h \in open : cdc_device_error(h)
    PROVE  UsbInv'
<1> USE DEF UsbInv
<1>1. CASE new_usb_device_callback
  <2>1. device' = [device EXCEPT !.announced = TRUE]
    BY <1>1 DEF new_usb_device_callback
  <2>2. DeviceInv'
    BY <2>1 DEF DeviceInv, Attached
  <2>3. PICK w \in WorkItems : w = Found(device.inst)
    BY DEF DeviceInv, Found, WorkItems
  <2>4. WorkInv'
    BY <1>1, <2>3, WorkSent DEF new_usb_device_callback
  <2>5. QED
    BY <1>1, <2>2, <2>4 DEF new_usb_device_callback, OpenInv, WorkerInv
<1>2. ASSUME NEW h \in open, cdc_device_disconnected(h) PROVE UsbInv'
  <2>1. PICK w \in WorkItems : w = Disconnected(h)
    BY DEF OpenInv, HandleRecords, Disconnected, WorkItems
  <2>2. WorkInv'
    BY <1>2, <2>1, WorkSent DEF cdc_device_disconnected
  <2>3. usb' \in UsbStates /\ bits' \subseteq {"ok", "gone", "error"}
    BY <1>2 DEF cdc_device_disconnected, UsbStates
  <2>4. PICK k \in HandleRecords : k = [h EXCEPT !.told = TRUE]
    BY DEF OpenInv, HandleRecords
  <2>5. open' = (open \ {h}) \cup {k}
    BY <1>2, <2>4 DEF cdc_device_disconnected
  <2>6. IsFiniteSet(open \ {h})
    BY FS_RemoveElement DEF OpenInv
  <2>7. IsFiniteSet(open')
    BY <2>5, <2>6, FS_AddElement
  <2>8. OpenInv'
    BY <2>4, <2>5, <2>7 DEF OpenInv
  <2>9. device' = device /\ worker' = worker
    BY <1>2 DEF cdc_device_disconnected
  <2>10. QED
    BY <2>2, <2>3, <2>8, <2>9 DEF DeviceInv, Attached, WorkerInv
<1>3. ASSUME NEW h \in open, cdc_rx_callback(h) PROVE UsbInv'
  BY <1>3 DEF cdc_rx_callback, DeviceInv, Attached, OpenInv, WorkInv, WorkerInv
<1>4. ASSUME NEW h \in open, cdc_device_error(h) PROVE UsbInv'
  <2>1. PICK w \in WorkItems : w = TransportError(h)
    BY DEF OpenInv, HandleRecords, TransportError, WorkItems
  <2>2. WorkInv'
    BY <1>4, <2>1, WorkSent DEF cdc_device_error
  <2>3. usb' \in UsbStates /\ bits' \subseteq {"ok", "gone", "error"}
    BY <1>4 DEF cdc_device_error, UsbStates
  <2>4. device' = device /\ worker' = worker /\ open' = open
    BY <1>4 DEF cdc_device_error
  <2>5. QED
    BY <2>2, <2>3, <2>4 DEF DeviceInv, Attached, OpenInv, WorkerInv
<1>5. QED
  BY <1>1, <1>2, <1>3, <1>4 DEF CdcDriverTask

(* What happens on the bus. *)
BusStep ==
    \/ \E mode \in EnumeratesAs : Plug(mode, {sms})
    \/ Unplug \/ Hang \/ process_mode_switch_device(TRUE) \/ process_mode_switch_device(FALSE)
    \/ BusPower

(* It is nothing to the transport until the driver tells. *)
LEMMA BusQuiet ==
    ASSUME BusStep
    PROVE  UNCHANGED <<open, usb, bits, work, worker>>
  BY DEF BusStep, Plug, Unplug, Hang, process_mode_switch_device, BusPower

(* A modem on the bus is of an enumeration. *)
LEMMA BusTypes ==
    ASSUME UsbInv, BusStep
    PROVE  UsbInv'
<1> USE DEF UsbInv
<1>1. UNCHANGED <<open, usb, bits, work, worker>>
  BY BusQuiet
<1>2. OpenInv' /\ WorkInv' /\ WorkerInv' /\ usb' \in UsbStates
      /\ bits' \subseteq {"ok", "gone", "error"}
  BY <1>1 DEF OpenInv, WorkInv, WorkerInv
<1>3. NoDevice \in [inst : {0} \cup Devices, mode : Modes, announced : BOOLEAN]
      /\ NoDevice.mode = "none"
  BY DEF NoDevice, Modes
<1>4. ASSUME NEW mode \in EnumeratesAs, Plug(mode, {sms}) PROVE DeviceInv'
  <2> DEFINE fresh == Devices \ ( {sms} \cup {usb.last} \cup {h.dev : h \in open}
                                  \cup {w.dev : w \in Range(work)} )
  <2>1. fresh # {} /\ device' = [inst |-> Least(fresh), mode |-> mode, announced |-> FALSE]
    BY <1>4 DEF Plug
  <2>2. fresh \in SUBSET Nat /\ fresh \subseteq Devices
    BY StackAssumption DEF Devices
  <2> HIDE DEF fresh
  <2>3. PICK d \in Devices : d = Least(fresh)
    BY <2>1, <2>2, LeastIn
  <2>4. mode \in Modes
    BY StackAssumption
  <2>5. QED
    BY <2>1, <2>3, <2>4 DEF DeviceInv
<1>5. ASSUME Unplug \/ BusPower PROVE DeviceInv'
  <2>1. device' = device \/ device' = NoDevice
    BY <1>5 DEF Unplug, BusPower
  <2>2. QED
    BY <1>3, <2>1 DEF DeviceInv, Attached
<1>6. ASSUME Hang PROVE DeviceInv'
  <2>1. device' = [device EXCEPT !.mode = "mute"] /\ Attached
    BY <1>6 DEF Hang, Attached
  <2>2. QED
    BY <2>1 DEF DeviceInv, Modes
<1>7. ASSUME NEW ok \in BOOLEAN, process_mode_switch_device(ok) PROVE DeviceInv'
  <2>1. PICK m \in Modes : device' = [device EXCEPT !.mode = m]
    BY <1>7 DEF process_mode_switch_device, Modes
  <2>2. Attached
    BY <1>7 DEF process_mode_switch_device, Attached
  <2>3. QED
    BY <2>1, <2>2 DEF DeviceInv
<1>8. QED
  BY <1>2, <1>4, <1>5, <1>6, <1>7 DEF BusStep

-----------------------------------------------------------------------------
(* The transport: which handles are open, and what at_ready stands on. *)

DisconnectQueued == \E i \in DOMAIN work : work[i].id = "disconnected"

(* A handle that is good, or whose end the worker is about to read.        *)
Live(h) ==
    /\ h.id = usb.cdc.id /\ h.gen = usb.gen /\ h.gen # 0
    /\ h.told => DisconnectQueued

Probing == {"write", "wait", "select"}

(* The handle that is open is the current one, and none is open when the   *)
(* worker opens one.                                                       *)
OneHandle ==
    lapses \cap {"cdc_error", "work_dropped", "probed_twice"} = {} =>
      /\ \A h \in open : h.id = usb.cdc.id
      /\ worker.pc \in {"open", "pause"} => usb.cdc = NoHandle

(* A probe begins with at_ready unset. *)
UnreadyInv ==
    /\ worker.pc = "pause" => usb.cdc = NoHandle
    /\ worker.pc \notin {"receive", "pause"} => ~usb.ready

(* A handle that was opened stays good through the probe and after it. *)
LiveHandle ==
    (lapses \cap {"cdc_error", "work_dropped"} = {} /\ (worker.pc \in Probing \/ usb.ready))
      => \E h \in open : Live(h)

(* Where there is an error to handle, there was one. *)
ErrorInv ==
    /\ (\E i \in DOMAIN work : work[i].id = "error") => "cdc_error" \in lapses
    /\ worker.pc = "pause" => "cdc_error" \in lapses

TransportInv == OneHandle /\ UnreadyInv /\ LiveHandle /\ ErrorInv

(* usb_transport_event forgets no lapse. *)
LEMMA LapsesGrow ==
    ASSUME NEW ev \in UsbEvents, usb_transport_event(ev)
    PROVE  lapses \subseteq lapses'
  BY DEF usb_transport_event, UsbEvents

(* What leaves the transport alone. *)
LEMMA TransportQuiet ==
    ASSUME TransportInv, UNCHANGED <<open, usb, work, worker>>, lapses \subseteq lapses'
    PROVE  TransportInv'
<1> USE DEF TransportInv
<1>1. OneHandle'
  BY DEF OneHandle
<1>2. UnreadyInv' /\ ErrorInv'
  BY DEF UnreadyInv, ErrorInv
<1>3. LiveHandle'
  BY DEF LiveHandle, Live, DisconnectQueued
<1>4. QED
  BY <1>1, <1>2, <1>3

(* What is in the rest of the queue was in it. *)
LEMMA TailErrors ==
    ASSUME WorkInv, work # <<>>, work' = Tail(work), ErrorInv, lapses \subseteq lapses'
    PROVE  (\E i \in DOMAIN work : work[i].id = "error")' => "cdc_error" \in lapses'
<1> SUFFICES ASSUME NEW i \in DOMAIN Tail(work), Tail(work)[i].id = "error"
             PROVE  "cdc_error" \in lapses
  OBVIOUS
<1>1. i + 1 \in DOMAIN work /\ Tail(work)[i] = work[i + 1]
  BY DEF WorkInv
<1>2. QED
  BY <1>1 DEF ErrorInv

(* close_current_handle of the current handle leaves none. *)
LEMMA CloseLeavesNone ==
    ASSUME UsbInv, OneHandle, NEW id \in {"null", usb.cdc.id},
           lapses \cap {"cdc_error", "work_dropped", "probed_twice"} = {}
    PROVE  OpenAfterClose(id) = {} /\ Closed(id).cdc = NoHandle
<1>1. CASE usb.cdc = NoHandle
  <2>1. \A h \in open : h.id = "null" /\ h.id \in Handles
    BY <1>1 DEF OneHandle, NoHandle, UsbInv, OpenInv, HandleRecords
  <2>2. open = {}
    BY <2>1, StackAssumption
  <2>3. QED
    BY <1>1, <2>2 DEF OpenAfterClose, Closed, Closes
<1>2. CASE usb.cdc # NoHandle
  <2>1. Closes(id)
    BY <1>2 DEF Closes
  <2>2. Closed(id).cdc = NoHandle
    BY <2>1 DEF Closed, UsbInv, UsbStates
  <2>3. OpenAfterClose(id) = {}
    BY <2>1 DEF OpenAfterClose, Same, OneHandle
  <2>4. QED
    BY <2>2, <2>3
<1>3. QED
  BY <1>1, <1>2

(* A failed probe closes what it opened. *)
LEMMA ProbeFailsTransport ==
    ASSUME UsbInv, TransportInv, ProbeFails, worker.pc \in Probing, work' = work,
           lapses \subseteq lapses'
    PROVE  TransportInv'
<1> USE DEF TransportInv
<1>1. worker'.pc \in {"receive", "open", "none"}
  BY ProbeFailsTypes DEF UsbInv
<1>2. PICK u \in UsbStates : u = Closed(usb.cdc.id)
  BY CloseTypes DEF UsbInv
<1>3. u.ready = usb.ready
  BY <1>2 DEF Closed, UsbInv, UsbStates
<1>4. usb' = [u EXCEPT !.probing = FALSE] /\ open' = OpenAfterClose(usb.cdc.id)
  BY <1>2 DEF ProbeFails
<1>5. usb'.ready = usb.ready /\ usb'.cdc = u.cdc /\ ~usb.ready
  BY <1>3, <1>4 DEF UsbStates, UnreadyInv, Probing
<1>6. OneHandle'
  <2> SUFFICES ASSUME lapses' \cap {"cdc_error", "work_dropped", "probed_twice"} = {}
               PROVE  open' = {} /\ usb'.cdc = NoHandle
    BY DEF OneHandle
  <2>1. lapses \cap {"cdc_error", "work_dropped", "probed_twice"} = {}
    OBVIOUS
  <2>2. QED
    BY <1>2, <1>4, <1>5, <2>1, CloseLeavesNone
<1>7. UnreadyInv' /\ LiveHandle'
  BY <1>1, <1>5 DEF UnreadyInv, LiveHandle, Probing
<1>8. ErrorInv'
  BY <1>1 DEF ErrorInv
<1>9. QED
  BY <1>6, <1>7, <1>8

(* A probe goes on with the handle it has. *)
LEMMA ProbeGoesOn ==
    ASSUME UsbInv, TransportInv, worker.pc \in Probing, worker'.pc \in Probing,
           usb'.ready = usb.ready, usb'.cdc = usb.cdc, usb'.gen = usb.gen,
           work' = work, open' = open, lapses \subseteq lapses'
    PROVE  TransportInv'
<1> USE DEF TransportInv
<1>1. OneHandle'
  BY DEF OneHandle, Probing
<1>2. UnreadyInv' /\ ErrorInv'
  BY DEF UnreadyInv, ErrorInv, Probing
<1>3. LiveHandle'
  BY DEF LiveHandle, Live, DisconnectQueued
<1>4. QED
  BY <1>1, <1>2, <1>3

(* Another attempt, or the end of the probe. *)
LEMMA AttemptTransport ==
    ASSUME UsbInv, TransportInv, NextAttempt(TRUE), worker.pc \in Probing, work' = work,
           lapses \subseteq lapses'
    PROVE  TransportInv'
<1>1. CASE ProbeFails
  BY <1>1, ProbeFailsTransport
<1>2. CASE /\ worker' = [worker EXCEPT !.pc = "write", !.attempt = @ + 1]
           /\ usb' = [usb EXCEPT !.probing = TRUE] /\ UNCHANGED open
  <2>1. usb'.ready = usb.ready /\ usb'.cdc = usb.cdc /\ usb'.gen = usb.gen
    BY <1>2 DEF UsbInv, UsbStates
  <2>2. worker'.pc \in Probing
    BY <1>2 DEF UsbInv, WorkerInv, WorkerStates, Probing
  <2>3. QED
    BY <1>2, <2>1, <2>2, ProbeGoesOn
<1>3. QED
  BY <1>1, <1>2 DEF NextAttempt

(* A probe that begins over an open handle is a lapse of its own. *)
LEMMA BeginTransport ==
    ASSUME UsbInv, TransportInv, NEW d \in {0} \cup Devices, BeginProbe(d, usb),
           (\E i \in DOMAIN work : work[i].id = "error")' => "cdc_error" \in lapses',
           open' = open, lapses \subseteq lapses',
           usb.cdc = NoHandle \/ lapses' \cap {"cdc_error", "probed_twice"} # {}
    PROVE  TransportInv'
<1> USE DEF TransportInv
<1>1. worker' = [Idle EXCEPT !.pc = IF Ports = {} THEN "none" ELSE "open", !.dev = d]
  BY DEF BeginProbe
<1>2. worker'.pc \in {"open", "none"}
  BY <1>1 DEF Idle
<1>3. usb'.ready = FALSE /\ usb'.cdc = usb.cdc
  BY DEF BeginProbe, UsbInv, UsbStates
<1>4. OneHandle'
  BY <1>3 DEF OneHandle
<1>5. UnreadyInv' /\ LiveHandle'
  BY <1>2, <1>3 DEF UnreadyInv, LiveHandle, Probing
<1>6. ErrorInv'
  BY <1>2 DEF ErrorInv
<1>7. QED
  BY <1>4, <1>5, <1>6

(* The worker opens an interface. *)
LEMMA OpenTransport ==
    ASSUME UsbInv, TransportInv, NEW ev, probe_open(ev), lapses \subseteq lapses'
    PROVE  TransportInv'
<1> USE DEF TransportInv
<1>1. PICK g \in Nat \ {0} : g = FreshGeneration
  BY FreshIn
<1>2. PICK id \in Handles :
        LET h == [id |-> id, gen |-> g, dev |-> device.inst, port |-> worker.port]
        IN  /\ open' = open \cup {[id |-> id, gen |-> h.gen, dev |-> h.dev,
                                   port |-> h.port, told |-> FALSE]}
            /\ usb' = [usb EXCEPT !.gen = h.gen, !.cdc = h]
  BY <1>1 DEF probe_open
<1>3. PICK h : h = [id |-> id, gen |-> g, dev |-> device.inst, port |-> worker.port]
  OBVIOUS
<1>4. PICK k : k = [id |-> id, gen |-> g, dev |-> device.inst, port |-> worker.port,
                    told |-> FALSE]
  OBVIOUS
<1>5. usb' = [usb EXCEPT !.gen = g, !.cdc = h] /\ open' = open \cup {k}
  BY <1>2, <1>3, <1>4
<1>6. usb'.ready = usb.ready /\ usb'.gen = g /\ usb'.cdc = h
  BY <1>5 DEF UsbInv, UsbStates
<1>7. worker'.pc = "write" /\ work' = work /\ worker.pc = "open"
  BY DEF probe_open, UsbInv, WorkerInv, WorkerStates
<1>8. h.id = id /\ k.id = id /\ k.gen = g /\ k.told = FALSE
  BY <1>3, <1>4
<1>9. OneHandle'
  <2> SUFFICES ASSUME lapses' \cap {"cdc_error", "work_dropped", "probed_twice"} = {}
               PROVE  \A o \in open' : o.id = id
    BY <1>6, <1>7, <1>8 DEF OneHandle
  <2>1. usb.cdc = NoHandle /\ \A o \in open : o.id = usb.cdc.id
    BY <1>7 DEF OneHandle
  <2>2. \A o \in open : o.id = "null" /\ o.id \in Handles
    BY <2>1 DEF NoHandle, UsbInv, OpenInv, HandleRecords
  <2>3. open = {}
    BY <2>2, StackAssumption
  <2>4. QED
    BY <1>5, <1>8, <2>3
<1>10. LiveHandle'
  <2>1. k \in open' /\ k.id = usb'.cdc.id /\ k.gen = usb'.gen /\ k.gen # 0 /\ ~k.told
    BY <1>1, <1>5, <1>6, <1>8
  <2>2. Live(k)'
    BY <2>1 DEF Live
  <2>3. QED
    BY <2>1, <2>2 DEF LiveHandle
<1>11. UnreadyInv' /\ ErrorInv'
  BY <1>6, <1>7 DEF UnreadyInv, ErrorInv
<1>12. QED
  BY <1>9, <1>10, <1>11

(* The worker task. *)
LEMMA WorkerTransport ==
    ASSUME UsbInv, TransportInv, NEW ev \in UsbEvents, modem_usb_worker_task(ev),
           usb_transport_event(ev)
    PROVE  TransportInv'
<1> USE DEF TransportInv
<1>0. lapses \subseteq lapses'
  BY LapsesGrow
<1>1. CASE worker_device_found(ev)
  <2>1. /\ WorkInv /\ work # <<>> /\ work' = Tail(work) /\ open' = open /\ ev = "none"
        /\ worker.pc = "receive"
    BY <1>1 DEF worker_device_found, UsbInv
  <2>2. PICK d \in {0} \cup Devices : d = Head(work).dev
    BY <2>1, WorkTaken DEF WorkItems
  <2>3. BeginProbe(d, usb)
    BY <1>1, <2>2 DEF worker_device_found
  <2>4. usb.cdc = NoHandle \/ "probed_twice" \in lapses'
    BY <2>1 DEF usb_transport_event
  <2>5. (\E i \in DOMAIN work : work[i].id = "error")' => "cdc_error" \in lapses'
    BY <1>0, <2>1, TailErrors
  <2>6. QED
    BY <1>0, <2>1, <2>3, <2>4, <2>5, BeginTransport
<1>2. CASE worker_disconnect(ev)
  <2>1. /\ WorkInv /\ work # <<>> /\ work' = Tail(work) /\ worker' = worker
        /\ worker.pc = "receive" /\ open' = OpenAfterClose(Head(work).handle)
    BY <1>2 DEF worker_disconnect, UsbInv
  <2>2. PICK u \in UsbStates : u = Closed(Head(work).handle)
    BY CloseTypes DEF UsbInv
  <2>3. usb' = [u EXCEPT !.probing = FALSE, !.present = FALSE, !.ready = FALSE,
                         !.last = 0, !.gen = 0]
    BY <1>2, <2>2 DEF worker_disconnect
  <2>4. usb'.ready = FALSE /\ usb'.cdc = u.cdc
    BY <2>3 DEF UsbStates
  <2>5. OneHandle'
    <3> SUFFICES ASSUME lapses' \cap {"cdc_error", "work_dropped", "probed_twice"} = {}
                 PROVE  \A h \in open' : h.id = usb'.cdc.id
      BY <2>1 DEF OneHandle
    <3>1. \A h \in open : h.id = usb.cdc.id
      BY <1>0 DEF OneHandle
    <3>2. CASE Closes(Head(work).handle)
      BY <2>1, <3>1, <3>2 DEF OpenAfterClose, Same
    <3>3. CASE ~Closes(Head(work).handle)
      BY <2>1, <2>2, <2>4, <3>1, <3>3 DEF OpenAfterClose, Closed
    <3>4. QED
      BY <3>2, <3>3
  <2>6. UnreadyInv' /\ LiveHandle'
    BY <2>1, <2>4 DEF UnreadyInv, LiveHandle, Probing
  <2>7. (\E i \in DOMAIN work : work[i].id = "error")' => "cdc_error" \in lapses'
    BY <1>0, <2>1, TailErrors
  <2>8. ErrorInv'
    BY <2>1, <2>7 DEF ErrorInv
  <2>9. QED
    BY <2>5, <2>6, <2>8
<1>3. CASE worker_error(ev)
  <2>1. Head(work).id = "error" /\ work # <<>> /\ usb' = Closed("null")
    BY <1>3 DEF worker_error
  <2>2. "cdc_error" \in lapses'
    <3>1. 1 \in DOMAIN work /\ Head(work) = work[1]
      BY <2>1 DEF UsbInv, WorkInv
    <3>2. QED
      BY <1>0, <2>1, <3>1 DEF ErrorInv
  <2>3. worker'.pc \in {"receive", "pause"}
    BY <1>3 DEF worker_error, Idle
  <2>4. usb'.cdc = NoHandle
    BY <2>1 DEF Closed, Closes, UsbInv, UsbStates
  <2>5. OneHandle' /\ LiveHandle'
    BY <2>2 DEF OneHandle, LiveHandle
  <2>6. UnreadyInv' /\ ErrorInv'
    BY <2>2, <2>3, <2>4 DEF UnreadyInv, ErrorInv
  <2>7. QED
    BY <2>5, <2>6
<1>4. CASE worker_probe_again(ev)
  <2>1. worker.pc = "pause" /\ open' = open /\ work' = work
    BY <1>4 DEF worker_probe_again
  <2>2. PICK d \in {0} \cup Devices : d = worker.dev
    BY DEF UsbInv, WorkerInv, WorkerStates
  <2>3. BeginProbe(d, usb)
    BY <1>4, <2>2 DEF worker_probe_again
  <2>4. usb.cdc = NoHandle
    BY <2>1 DEF UnreadyInv
  <2>5. (\E i \in DOMAIN work : work[i].id = "error")' => "cdc_error" \in lapses'
    BY <1>0, <2>1 DEF ErrorInv
  <2>6. QED
    BY <1>0, <2>1, <2>3, <2>4, <2>5, BeginTransport
<1>5. CASE probe_open(ev)
  BY <1>0, <1>5, OpenTransport
<1>6. CASE probe_open_failed(ev)
  <2>1. /\ worker.pc = "open" /\ open' = open /\ work' = work
        /\ usb' = [usb EXCEPT !.gen = 0] /\ worker' = AfterCandidate(usb.present)
    BY <1>6 DEF probe_open_failed
  <2>2. worker'.pc \in {"receive", "open", "none"}
    BY <2>1, CandidateTypes DEF UsbInv
  <2>3. usb'.ready = usb.ready /\ usb'.cdc = usb.cdc /\ ~usb.ready
    BY <2>1 DEF UsbInv, UsbStates, UnreadyInv
  <2>4. OneHandle'
    BY <1>0, <2>1, <2>3 DEF OneHandle
  <2>5. UnreadyInv' /\ LiveHandle'
    BY <2>2, <2>3 DEF UnreadyInv, LiveHandle, Probing
  <2>6. ErrorInv'
    BY <1>0, <2>1, <2>2 DEF ErrorInv
  <2>7. QED
    BY <2>4, <2>5, <2>6
<1>7. CASE probe_write(ev)
  <2>1. worker.pc \in Probing /\ work' = work
    BY <1>7 DEF probe_write, Probing
  <2>2. CASE Reaches(usb.cdc)
    <3>1. usb' = [usb EXCEPT !.probing = TRUE] /\ open' = open
          /\ worker' = [worker EXCEPT !.pc = "wait"]
      BY <1>7, <2>2 DEF probe_write
    <3>2. usb'.ready = usb.ready /\ usb'.cdc = usb.cdc /\ usb'.gen = usb.gen
      BY <3>1 DEF UsbInv, UsbStates
    <3>3. worker'.pc \in Probing
      BY <3>1 DEF UsbInv, WorkerInv, WorkerStates, Probing
    <3>4. QED
      BY <1>0, <2>1, <3>1, <3>2, <3>3, ProbeGoesOn
  <2>3. CASE ~Reaches(usb.cdc)
    <3>1. ProbeFails \/ NextAttempt(TRUE)
      BY <1>7, <2>3 DEF probe_write
    <3>2. QED
      BY <1>0, <2>1, <3>1, ProbeFailsTransport, AttemptTransport
  <2>4. QED
    BY <2>2, <2>3
<1>8. CASE probe_interrupted(ev)
  <2>1. worker.pc \in Probing /\ work' = work /\ ProbeFails
    BY <1>8 DEF probe_interrupted, Probing
  <2>2. QED
    BY <1>0, <2>1, ProbeFailsTransport
<1>9. CASE probe_answered(ev)
  <2>1. /\ worker.pc \in Probing /\ work' = work /\ open' = open
        /\ usb' = [usb EXCEPT !.probing = FALSE] /\ worker' = [worker EXCEPT !.pc = "select"]
    BY <1>9 DEF probe_answered, Probing
  <2>2. usb'.ready = usb.ready /\ usb'.cdc = usb.cdc /\ usb'.gen = usb.gen
    BY <2>1 DEF UsbInv, UsbStates
  <2>3. worker'.pc \in Probing
    BY <2>1 DEF UsbInv, WorkerInv, WorkerStates, Probing
  <2>4. QED
    BY <1>0, <2>1, <2>2, <2>3, ProbeGoesOn
<1>10. CASE probe_timeout(ev)
  <2>1. worker.pc \in Probing /\ work' = work /\ NextAttempt(TRUE)
    BY <1>10 DEF probe_timeout, Probing
  <2>2. QED
    BY <1>0, <2>1, AttemptTransport
<1>11. CASE probe_select(ev)
  <2>1. /\ worker.pc \in Probing /\ work' = work /\ open' = open /\ worker' = Idle
        /\ usb' = [usb EXCEPT !.present = TRUE, !.ready = TRUE]
    BY <1>11 DEF probe_select, Probing
  <2>2. usb'.cdc = usb.cdc /\ usb'.gen = usb.gen
    BY <2>1 DEF UsbInv, UsbStates
  <2>3. worker'.pc = "receive"
    BY <2>1 DEF Idle
  <2>4. OneHandle'
    BY <1>0, <2>1, <2>2, <2>3 DEF OneHandle
  <2>5. LiveHandle'
    BY <1>0, <2>1, <2>2 DEF LiveHandle, Live, DisconnectQueued
  <2>6. UnreadyInv' /\ ErrorInv'
    BY <1>0, <2>1, <2>3 DEF UnreadyInv, ErrorInv
  <2>7. QED
    BY <2>4, <2>5, <2>6
<1>12. CASE probe_gives_up(ev)
  <2>1. /\ worker.pc = "none" /\ work' = work /\ open' = open /\ worker' = Idle /\ usb' = usb
    BY <1>12 DEF probe_gives_up
  <2>2. worker'.pc = "receive" /\ ~usb.ready
    BY <2>1 DEF Idle, UnreadyInv
  <2>3. OneHandle'
    BY <1>0, <2>1, <2>2 DEF OneHandle
  <2>4. UnreadyInv' /\ LiveHandle' /\ ErrorInv'
    BY <1>0, <2>1, <2>2 DEF UnreadyInv, ErrorInv, LiveHandle, Probing
  <2>5. QED
    BY <2>3, <2>4
<1>13. QED
  BY <1>1, <1>2, <1>3, <1>4, <1>5, <1>6, <1>7, <1>8, <1>9, <1>10, <1>11, <1>12
     DEF modem_usb_worker_task

(* What a callback sends is appended to the queue. *)
LEMMA SentIsQueued ==
    ASSUME WorkInv, NEW w \in WorkItems, w.id # "error", Len(work) < WorkDepth,
           work' = Enqueue(work, WorkDepth, w)
    PROVE  /\ DisconnectQueued \/ w.id = "disconnected" => DisconnectQueued'
           /\ (\E i \in DOMAIN work : work[i].id = "error")'
              => \E i \in DOMAIN work : work[i].id = "error"
<1>1. work \in Seq(WorkItems) /\ work' = Append(work, w)
  BY DEF WorkInv, Enqueue
<1>2. /\ DOMAIN work' = DOMAIN work \cup {Len(work) + 1}
      /\ \A i \in DOMAIN work : work'[i] = work[i]
      /\ work'[Len(work) + 1] = w
  BY <1>1
<1>3. QED
  BY <1>2 DEF DisconnectQueued

(* A callback that finds the queue full sends nothing. *)
LEMMA FullQueue ==
    ASSUME WorkInv, NEW w, Len(work) = WorkDepth, work' = Enqueue(work, WorkDepth, w)
    PROVE  work' = work
  BY StackAssumption DEF WorkInv, Enqueue

(* The callbacks of the driver: a disconnect that the worker is not told   *)
(* of is a lapse.                                                          *)
LEMMA DriverTransport ==
    ASSUME UsbInv, TransportInv, CdcDriver
    PROVE  TransportInv'
<1> USE DEF TransportInv
<1>0. lapses \subseteq lapses' /\ WorkInv
  BY DEF CdcDriver, UsbInv
<1>1. CASE new_usb_device_callback
  <2>1. UNCHANGED <<open, usb, worker>>
    BY <1>1 DEF new_usb_device_callback
  <2>2. PICK w \in WorkItems : w = Found(device.inst)
    BY DEF UsbInv, DeviceInv, Found, WorkItems
  <2>3. work' = Enqueue(work, WorkDepth, w) /\ w.id = "found"
    BY <1>1, <2>2 DEF new_usb_device_callback, Found
  <2>4. CASE Len(work) = WorkDepth
    BY <1>0, <2>1, <2>3, <2>4, FullQueue, TransportQuiet
  <2>5. CASE Len(work) < WorkDepth
    <3>1. DisconnectQueued => DisconnectQueued'
      BY <1>0, <2>3, <2>5, SentIsQueued
    <3>2. (\E i \in DOMAIN work : work[i].id = "error")'
          => \E i \in DOMAIN work : work[i].id = "error"
      BY <1>0, <2>3, <2>5, SentIsQueued
    <3>3. OneHandle' /\ UnreadyInv'
      BY <1>0, <2>1 DEF OneHandle, UnreadyInv
    <3>4. LiveHandle'
      BY <1>0, <2>1, <3>1 DEF LiveHandle, Live
    <3>5. ErrorInv'
      BY <1>0, <2>1, <3>2 DEF ErrorInv
    <3>6. QED
      BY <3>3, <3>4, <3>5
  <2>6. QED
    BY <1>0, <2>4, <2>5, StackAssumption DEF WorkInv
<1>2. ASSUME NEW h \in open, cdc_device_disconnected(h) PROVE TransportInv'
  <2>1. PICK k \in HandleRecords : k = [h EXCEPT !.told = TRUE]
    BY DEF UsbInv, OpenInv, HandleRecords
  <2>2. open' = (open \ {h}) \cup {k} /\ worker' = worker
    BY <1>2, <2>1 DEF cdc_device_disconnected
  <2>3. k.id = h.id /\ k.gen = h.gen /\ k.told = TRUE /\ h.told = FALSE
    BY <1>2, <2>1 DEF cdc_device_disconnected, UsbInv, OpenInv, HandleRecords
  <2>4. usb'.cdc = usb.cdc /\ usb'.gen = usb.gen /\ (usb'.ready => usb.ready)
    BY <1>2 DEF cdc_device_disconnected, UsbInv, UsbStates
  <2>5. OneHandle'
    BY <1>0, <2>2, <2>3, <2>4 DEF OneHandle
  <2>6. UnreadyInv'
    BY <2>2, <2>4 DEF UnreadyInv
  <2>7. CASE CurrentGeneration(h) /\ Len(work) = WorkDepth
    <3>1. h \in open \ open'
      BY <2>2, <2>3
    <3>2. "work_dropped" \in lapses'
      BY <2>7, <3>1 DEF CdcDriver
    <3>3. PICK w : work' = Enqueue(work, WorkDepth, w)
      BY <1>2, <2>7 DEF cdc_device_disconnected
    <3>4. work' = work
      BY <1>0, <2>7, <3>3, FullQueue
    <3>5. LiveHandle' /\ ErrorInv'
      BY <1>0, <2>2, <3>2, <3>4 DEF LiveHandle, ErrorInv
    <3>6. QED
      BY <2>5, <2>6, <3>5
  <2>8. CASE CurrentGeneration(h) /\ Len(work) < WorkDepth
    <3>1. PICK w \in WorkItems : w = Disconnected(h)
      BY DEF UsbInv, OpenInv, HandleRecords, Disconnected, WorkItems
    <3>2. work' = Enqueue(work, WorkDepth, w) /\ w.id = "disconnected"
      BY <1>2, <2>8, <3>1 DEF cdc_device_disconnected, Disconnected
    <3>3. DisconnectQueued'
      BY <1>0, <2>8, <3>2, SentIsQueued
    <3>4. (\E i \in DOMAIN work : work[i].id = "error")'
          => \E i \in DOMAIN work : work[i].id = "error"
      BY <1>0, <2>8, <3>2, SentIsQueued
    <3>5. ErrorInv'
      BY <1>0, <2>2, <3>4 DEF ErrorInv
    <3>6. LiveHandle'
      <4> SUFFICES ASSUME lapses' \cap {"cdc_error", "work_dropped"} = {},
                          worker'.pc \in Probing \/ usb'.ready
                   PROVE  \E o \in open' : Live(o)'
        BY Zenon DEF LiveHandle
      <4>1. PICK g \in open : Live(g)
        BY <1>0, <2>2, <2>4 DEF LiveHandle
      <4>2. g # h => g \in open' /\ Live(g)'
        BY <2>2, <2>4, <3>3, <4>1 DEF Live
      <4>3. g = h => k \in open' /\ Live(k)'
        BY <2>2, <2>3, <2>4, <3>3, <4>1 DEF Live
      <4>4. QED
        BY <4>2, <4>3
    <3>7. QED
      BY <2>5, <2>6, <3>5, <3>6
  <2>9. CASE ~CurrentGeneration(h)
    <3>1. usb' = usb /\ work' = work
      BY <1>2, <2>9 DEF cdc_device_disconnected
    <3>2. ErrorInv'
      BY <1>0, <2>2, <3>1 DEF ErrorInv
    <3>3. LiveHandle'
      <4> SUFFICES ASSUME lapses' \cap {"cdc_error", "work_dropped"} = {},
                          worker'.pc \in Probing \/ usb'.ready
                   PROVE  \E o \in open' : Live(o)'
        BY Zenon DEF LiveHandle
      <4>1. PICK g \in open : Live(g)
        BY <1>0, <2>2, <2>4 DEF LiveHandle
      <4>2. g # h
        BY <2>9, <4>1 DEF Live, CurrentGeneration
      <4>3. g \in open' /\ Live(g)'
        BY <2>2, <3>1, <4>1, <4>2 DEF Live, DisconnectQueued
      <4>4. QED
        BY <4>3
    <3>4. QED
      BY <2>5, <2>6, <3>2, <3>3
  <2>10. QED
    BY <1>0, <2>7, <2>8, <2>9, StackAssumption DEF WorkInv
<1>3. ASSUME NEW h \in open, cdc_rx_callback(h) PROVE TransportInv'
  <2>1. UNCHANGED <<open, usb, work, worker>>
    BY <1>3 DEF cdc_rx_callback
  <2>2. QED
    BY <1>0, <2>1, TransportQuiet
<1>4. QED
  BY <1>1, <1>2, <1>3 DEF CdcDriver, CdcDriverTask

(* The error callback, which is the lapse that the invariant speaks of. *)
LEMMA ErrorTransport ==
    ASSUME UsbInv, TransportInv, CdcError
    PROVE  TransportInv'
<1>1. "cdc_error" \in lapses' /\ worker' = worker
  BY DEF CdcError, cdc_device_error
<1>2. usb'.cdc = usb.cdc /\ (usb'.ready => usb.ready)
  BY DEF CdcError, cdc_device_error, UsbInv, UsbStates
<1>3. OneHandle' /\ LiveHandle' /\ ErrorInv'
  BY <1>1 DEF OneHandle, LiveHandle, ErrorInv
<1>4. UnreadyInv'
  BY <1>1, <1>2 DEF UnreadyInv, TransportInv
<1>5. QED
  BY <1>3, <1>4 DEF TransportInv

-----------------------------------------------------------------------------
(* The manager: its types. *)

ManagerRecords ==
    [pc : {"receive", "profile", "sim", "network", "recover", "reset", "manual"},
     state : ManagerStates, ready : BOOLEAN, reinit : BOOLEAN,
     failures : 0..Threshold, rounds : 0..HardResetAfter,
     polls : 0..StablePolls, sim : SimStates, registered : BOOLEAN]

(* The counters start from 0. *)
LEMMA Zeros ==
    /\ 0 \in 0..Threshold /\ 0 \in 0..HardResetAfter
    /\ 0 \in 0..StablePolls /\ StablePolls \in 0..StablePolls
  BY StackAssumption

(* execute_command counts to the threshold. *)
LEMMA CommandTypes ==
    ASSUME NEW m \in ManagerRecords, NEW ok \in BOOLEAN, NEW n \in Nat
    PROVE  /\ Failed(m, n) \in ManagerRecords /\ Succeeded(m) \in ManagerRecords
           /\ AfterCommand(m, ok) \in ManagerRecords
<1>1. \A f \in 0..Threshold : [m EXCEPT !.failures = f] \in ManagerRecords
  BY DEF ManagerRecords
<1>2. 0 \in 0..Threshold /\ 1 \in Nat
  BY StackAssumption
<1>3. \A k \in Nat : (IF m.failures + k > Threshold THEN Threshold ELSE m.failures + k)
                     \in 0..Threshold
  BY StackAssumption DEF ManagerRecords
<1>4. \A k \in Nat : Failed(m, k) \in ManagerRecords
  BY <1>1, <1>3 DEF Failed
<1>5. Succeeded(m) \in ManagerRecords
  BY <1>1, <1>2 DEF Succeeded
<1>6. QED
  BY <1>2, <1>4, <1>5 DEF AfterCommand

(* update_state_after_poll *)
LEMMA StateTypes ==
    ASSUME NEW m \in ManagerRecords
    PROVE  /\ StateAfterPoll(m) \in ManagerStates
           /\ [m EXCEPT !.state = StateAfterPoll(m)] \in ManagerRecords
<1>1. StateAfterPoll(m) \in ManagerStates
  BY DEF StateAfterPoll, ManagerStates
<1>2. \A s \in ManagerStates : [m EXCEPT !.state = s] \in ManagerRecords
  BY DEF ManagerRecords
<1>3. QED
  BY <1>1, <1>2

(* The end of a poll counts the successful ones. *)
LEMMA PollTypes ==
    ASSUME NEW m \in ManagerRecords, NEW ok \in BOOLEAN
    PROVE  PollResult(m, ok) \in ManagerRecords
<1>1. CASE ~ok
  <2>1. PollResult(m, ok) = [m EXCEPT !.polls = 0, !.pc = "recover"]
    BY <1>1 DEF PollResult
  <2>2. QED
    BY <2>1, Zeros DEF ManagerRecords
<1>2. CASE ok /\ m.polls + 1 >= StablePolls
  <2>1. PollResult(m, ok) = [m EXCEPT !.polls = StablePolls, !.rounds = 0]
    BY <1>2 DEF PollResult
  <2>2. QED
    BY <2>1, Zeros DEF ManagerRecords
<1>3. CASE ok /\ ~(m.polls + 1 >= StablePolls)
  <2>1. PollResult(m, ok) = [m EXCEPT !.polls = m.polls + 1]
    BY <1>3 DEF PollResult
  <2>2. m.polls + 1 \in 0..StablePolls
    BY <1>3, StackAssumption DEF ManagerRecords
  <2>3. QED
    BY <2>1, <2>2 DEF ManagerRecords
<1>4. QED
  BY <1>1, <1>2, <1>3

(* The steps that issue a command. *)
LEMMA CommandStepTypes ==
    ASSUME mgr \in ManagerRecords, NEW ok \in BOOLEAN,
           \/ initialize_profile(ok)
           \/ \E sim \in SimReports : initialize_sim(ok, sim) \/ poll_sim(ok, sim)
           \/ \E reg \in NetworkReports : initialize_network(ok, reg)
           \/ \E reg \in NetworkReports, first \in BOOLEAN : poll_network(first, ok, reg)
           \/ handle_sim_pin(ok)
    PROVE  mgr' \in ManagerRecords
<1>1. CASE initialize_profile(ok)
  <2>1. PICK m \in ManagerRecords : m = AfterCommand(mgr, ok)
    BY CommandTypes
  <2>2. mgr' = [m EXCEPT !.pc = IF ok THEN "sim" ELSE "recover"]
    BY <1>1, <2>1 DEF initialize_profile
  <2>3. QED
    BY <2>2 DEF ManagerRecords
<1>2. ASSUME NEW sim \in SimReports, initialize_sim(ok, sim) PROVE mgr' \in ManagerRecords
  <2>1. PICK m \in ManagerRecords : m = AfterCommand(mgr, ok)
    BY CommandTypes
  <2>2. sim \in SimStates
    BY StackAssumption
  <2>3. \/ mgr' = [m EXCEPT !.pc = "recover"]
        \/ mgr' = [m EXCEPT !.pc = "network", !.sim = sim]
        \/ mgr' = [m EXCEPT !.pc = "receive", !.sim = sim, !.state = "SIM_WAIT"]
    BY <1>2, <2>1 DEF initialize_sim
  <2>4. [m EXCEPT !.pc = "recover"] \in ManagerRecords
    BY DEF ManagerRecords
  <2>5. [m EXCEPT !.pc = "network", !.sim = sim] \in ManagerRecords
    BY <2>2 DEF ManagerRecords
  <2>6. [m EXCEPT !.pc = "receive", !.sim = sim, !.state = "SIM_WAIT"] \in ManagerRecords
    BY <2>2 DEF ManagerRecords, ManagerStates
  <2>7. QED
    BY <2>3, <2>4, <2>5, <2>6
<1>3. ASSUME NEW sim \in SimReports, poll_sim(ok, sim) PROVE mgr' \in ManagerRecords
  <2>1. Succeeded(mgr) \in ManagerRecords /\ Failed(mgr, 1) \in ManagerRecords
    BY CommandTypes
  <2>2. sim \in SimStates /\ (sim = "ready") \in BOOLEAN
    BY StackAssumption
  <2>3. [Succeeded(mgr) EXCEPT !.sim = sim, !.reinit = (sim = "ready")] \in ManagerRecords
    BY <2>1, <2>2 DEF ManagerRecords
  <2>4. PICK m \in ManagerRecords :
          m = IF ok THEN [Succeeded(mgr) EXCEPT !.sim = sim, !.reinit = (sim = "ready")]
              ELSE Failed(mgr, 1)
    BY <2>1, <2>3
  <2>5. mgr' = PollResult([m EXCEPT !.state = StateAfterPoll(m)], ok)
    BY <1>3, <2>4 DEF poll_sim
  <2>6. QED
    BY <2>5, StateTypes, PollTypes
<1>4. ASSUME NEW reg \in NetworkReports, initialize_network(ok, reg)
      PROVE  mgr' \in ManagerRecords
  <2>1. Succeeded(mgr) \in ManagerRecords /\ Failed(mgr, 2) \in ManagerRecords
    BY CommandTypes
  <2>2. reg \in BOOLEAN
    BY StackAssumption
  <2>3. [Succeeded(mgr) EXCEPT !.registered = reg] \in ManagerRecords
    BY <2>1, <2>2 DEF ManagerRecords
  <2>4. PICK m \in ManagerRecords :
          m = IF ok THEN [Succeeded(mgr) EXCEPT !.registered = reg] ELSE Failed(mgr, 2)
    BY <2>1, <2>3
  <2>5. mgr' = [m EXCEPT !.pc = "receive",
                         !.state = IF m.registered THEN "READY" ELSE "NETWORK_WAIT"]
    BY <1>4, <2>4 DEF initialize_network
  <2>6. QED
    BY <2>5 DEF ManagerRecords, ManagerStates
<1>5. ASSUME NEW reg \in NetworkReports, NEW first \in BOOLEAN, poll_network(first, ok, reg)
      PROVE  mgr' \in ManagerRecords
  <2>1. Succeeded(mgr) \in ManagerRecords /\ Failed(mgr, 1) \in ManagerRecords
    BY CommandTypes
  <2>2. reg \in BOOLEAN
    BY StackAssumption
  <2>3. [Succeeded(mgr) EXCEPT !.registered = reg] \in ManagerRecords
    BY <2>1, <2>2 DEF ManagerRecords
  <2>4. PICK r \in ManagerRecords :
          r = IF first THEN [Succeeded(mgr) EXCEPT !.registered = reg] ELSE Failed(mgr, 1)
    BY <2>1, <2>3
  <2>5. PICK m \in ManagerRecords : m = AfterCommand(r, ok)
    BY CommandTypes
  <2>6. mgr' = PollResult([m EXCEPT !.state = StateAfterPoll(m)], first /\ ok)
    BY <1>5, <2>4, <2>5 DEF poll_network
  <2>7. (first /\ ok) \in BOOLEAN
    OBVIOUS
  <2>8. QED
    BY <2>6, <2>7, StateTypes, PollTypes
<1>6. CASE handle_sim_pin(ok)
  <2>1. mgr' = mgr \/ mgr' = [mgr EXCEPT !.reinit = TRUE, !.failures = 0]
    BY <1>6 DEF handle_sim_pin
  <2>2. QED
    BY <2>1, Zeros DEF ManagerRecords
<1>7. QED
  BY <1>1, <1>2, <1>3, <1>4, <1>5, <1>6

(* The events of the queue, and the start of a session. *)
LEMMA EventStepTypes ==
    ASSUME mgr \in ManagerRecords, mqueue \in Seq(ManagerEvents),
           initialize_begin \/ handle_transport_ready \/ handle_transport_lost \/ handle_urc_line
    PROVE  mgr' \in ManagerRecords
<1>1. CASE initialize_begin
  <2>1. mgr' = [mgr EXCEPT !.reinit = FALSE, !.state = "INITIALIZING", !.pc = "profile"]
    BY <1>1 DEF initialize_begin
  <2>2. QED
    BY <2>1 DEF ManagerRecords, ManagerStates
<1>2. CASE handle_transport_ready
  <2>1. PICK m \in ManagerRecords : m = [mgr EXCEPT !.ready = TRUE, !.failures = 0]
    BY Zeros DEF ManagerRecords
  <2>2. mgr' = [m EXCEPT !.reinit = TRUE, !.state = "INITIALIZING"]
    BY <1>2, <2>1 DEF handle_transport_ready
  <2>3. QED
    BY <2>2 DEF ManagerRecords, ManagerStates
<1>3. CASE handle_transport_lost
  <2>1. PICK m \in ManagerRecords :
          m = [mgr EXCEPT !.ready = FALSE, !.registered = FALSE, !.sim = "unknown"]
    BY DEF ManagerRecords, SimStates
  <2>2. mgr' = [m EXCEPT !.reinit = FALSE, !.state = "WAIT_TRANSPORT"]
    BY <1>3, <2>1 DEF handle_transport_lost
  <2>3. QED
    BY <2>2 DEF ManagerRecords, ManagerStates
<1>4. CASE handle_urc_line
  <2> DEFINE value == Head(mqueue).value
             changed == CASE value = "sim_ready" -> [mgr EXCEPT !.sim = "ready", !.reinit = TRUE]
                          [] value = "sim_pin"      -> [mgr EXCEPT !.sim = "pin"]
                          [] value = "registered"   -> [mgr EXCEPT !.registered = TRUE]
                          [] value = "unregistered" -> [mgr EXCEPT !.registered = FALSE]
  <2>1. value \in StatusValues
    <3>1. Head(mqueue) \in ManagerEvents /\ Head(mqueue).id = "urc"
      BY <1>4 DEF handle_urc_line, Take
    <3>2. QED
      BY <3>1 DEF ManagerEvents, Event, StatusLine
  <2>2. PICK m \in ManagerRecords : m = changed
    <3> HIDE DEF value
    <3>1. /\ [mgr EXCEPT !.sim = "ready", !.reinit = TRUE] \in ManagerRecords
          /\ [mgr EXCEPT !.sim = "pin"] \in ManagerRecords
          /\ [mgr EXCEPT !.registered = TRUE] \in ManagerRecords
          /\ [mgr EXCEPT !.registered = FALSE] \in ManagerRecords
      BY DEF ManagerRecords, SimStates
    <3>2. QED
      BY <2>1, <3>1, Zenon DEF StatusValues
  <2>3. mgr' = [m EXCEPT !.state = StateAfterPoll(m)]
    BY <1>4, <2>2 DEF handle_urc_line
  <2>4. QED
    BY <2>3, StateTypes
<1>5. QED
  BY <1>1, <1>2, <1>3, <1>4

(* A functional reset, after which the session starts again. *)
LEMMA ResetTypes ==
    ASSUME mgr \in ManagerRecords, NEW ok
    PROVE  AfterFunctionalReset(ok) \in ManagerRecords
<1>1. PICK m \in ManagerRecords : m = [mgr EXCEPT !.pc = "receive", !.failures = 0]
  BY Zeros DEF ManagerRecords
<1>2. AfterFunctionalReset(ok) = [m EXCEPT !.reinit = TRUE,
                                           !.state = IF ok THEN "RECOVERY" ELSE "DEGRADED"]
  BY <1>1 DEF AfterFunctionalReset
<1>3. QED
  BY <1>2 DEF ManagerRecords, ManagerStates

(* The recovery: its rounds stop at the one that switches the power. *)
LEMMA RecoveryTypes ==
    ASSUME mgr \in ManagerRecords,
           \/ schedule_recovery \/ handle_manual_restart(Answers)
           \/ hard_reset_returns(PowerAccepted(power, TRUE))
           \/ manual_reset_returns(PowerAccepted(power, TRUE), Answers)
    PROVE  mgr' \in ManagerRecords
<1>1. CASE schedule_recovery
  <2> DEFINE action == RecoveryAction(mgr.failures, mgr.rounds)
  <2>1. action \in {"none", "reinitialize", "functional_reset", "hard_reset"}
    BY DEF RecoveryAction
  <2>2. action \in {"reinitialize", "functional_reset"} => mgr.rounds + 1 \in 0..HardResetAfter
    BY StackAssumption DEF RecoveryAction, ManagerRecords
  <2>3. CASE action = "none"
    <3>1. mgr' = [mgr EXCEPT !.pc = "receive"]
      BY <1>1, <2>3, Zenon DEF schedule_recovery
    <3>2. QED
      BY <3>1 DEF ManagerRecords
  <2>4. CASE action \in {"reinitialize", "functional_reset"}
    <3>1. mgr' = [mgr EXCEPT !.pc = "receive", !.state = "RECOVERY", !.reinit = TRUE,
                             !.failures = 0, !.rounds = @ + 1]
      BY <1>1, <2>4 DEF schedule_recovery
    <3>2. PICK n \in 0..HardResetAfter : n = mgr.rounds + 1
      BY <2>2, <2>4
    <3>3. PICK m \in ManagerRecords :
            m = [mgr EXCEPT !.pc = "receive", !.state = "RECOVERY", !.reinit = TRUE]
      BY DEF ManagerRecords, ManagerStates
    <3>4. m.rounds = mgr.rounds
      BY <3>3 DEF ManagerRecords
    <3>5. mgr' = [m EXCEPT !.failures = 0, !.rounds = n]
      BY <3>1, <3>2, <3>3, <3>4
    <3>6. QED
      BY <3>5, Zeros DEF ManagerRecords
  <2>5. CASE action = "hard_reset" /\ PowerControl
    <3>1. mgr' = [mgr EXCEPT !.pc = "reset", !.state = "RECOVERY", !.rounds = 0]
      BY <1>1, <2>5 DEF schedule_recovery
    <3>2. QED
      BY <3>1, Zeros DEF ManagerRecords, ManagerStates
  <2>6. CASE action = "hard_reset" /\ ~PowerControl
    <3>1. mgr' = [mgr EXCEPT !.pc = "receive", !.state = "DEGRADED",
                             !.rounds = 0, !.polls = 0, !.reinit = FALSE]
      BY <1>1, <2>6 DEF schedule_recovery
    <3>2. PICK m \in ManagerRecords : m = [mgr EXCEPT !.pc = "receive", !.state = "DEGRADED"]
      BY DEF ManagerRecords, ManagerStates
    <3>3. mgr' = [m EXCEPT !.rounds = 0, !.polls = 0, !.reinit = FALSE]
      BY <3>1, <3>2
    <3>4. QED
      BY <3>3, Zeros DEF ManagerRecords
  <2>7. QED
    BY <2>1, <2>3, <2>4, <2>5, <2>6
<1>2. CASE handle_manual_restart(Answers)
  <2>1. \/ mgr' = mgr \/ mgr' = [mgr EXCEPT !.pc = "manual", !.state = "RECOVERY"]
        \/ mgr' = AfterFunctionalReset(Answers)
    BY <1>2 DEF handle_manual_restart
  <2>2. [mgr EXCEPT !.pc = "manual", !.state = "RECOVERY"] \in ManagerRecords
    BY DEF ManagerRecords, ManagerStates
  <2>3. QED
    BY <2>1, <2>2, ResetTypes
<1>3. CASE hard_reset_returns(PowerAccepted(power, TRUE))
  <2>1. PICK m \in ManagerRecords : m = [mgr EXCEPT !.pc = "receive", !.state = "DEGRADED"]
    BY DEF ManagerRecords, ManagerStates
  <2>2. PICK r \in ManagerRecords :
          r = [mgr EXCEPT !.pc = "receive", !.state = "WAIT_TRANSPORT", !.ready = FALSE]
    BY DEF ManagerRecords, ManagerStates
  <2>3. \/ mgr' = [r EXCEPT !.failures = 0, !.polls = 0, !.reinit = FALSE]
        \/ mgr' = [m EXCEPT !.polls = 0, !.reinit = FALSE]
    BY <1>3, <2>1, <2>2 DEF hard_reset_returns
  <2>4. [r EXCEPT !.failures = 0, !.polls = 0, !.reinit = FALSE] \in ManagerRecords
    BY Zeros DEF ManagerRecords
  <2>5. [m EXCEPT !.polls = 0, !.reinit = FALSE] \in ManagerRecords
    BY Zeros DEF ManagerRecords
  <2>6. QED
    BY <2>3, <2>4, <2>5
<1>4. CASE manual_reset_returns(PowerAccepted(power, TRUE), Answers)
  <2>1. [mgr EXCEPT !.pc = "receive", !.ready = FALSE, !.state = "WAIT_TRANSPORT"]
        \in ManagerRecords
    BY DEF ManagerRecords, ManagerStates
  <2>2. \/ mgr' = [mgr EXCEPT !.pc = "receive", !.ready = FALSE, !.state = "WAIT_TRANSPORT"]
        \/ mgr' = AfterFunctionalReset(Answers)
    BY <1>4 DEF manual_reset_returns
  <2>3. QED
    BY <2>1, <2>2, ResetTypes
<1>5. QED
  BY <1>1, <1>2, <1>3, <1>4

-----------------------------------------------------------------------------
(* The queues of the manager and of the service, the supply: their types. *)

ManagerQueueOK == mqueue \in Seq(ManagerEvents) /\ Len(mqueue) <= QueueDepth

ServiceQueueOK == squeue \in Seq({"ready", "lost", "urc"}) /\ Len(squeue) <= ServiceDepth

(* No sender overfills the queue of the manager. *)
LEMMA QueueDepths ==
    ASSUME ManagerQueueOK, NEW e \in ManagerEvents
    PROVE  /\ Queued(e) \in Seq(ManagerEvents) /\ Len(Queued(e)) <= QueueDepth
           /\ QueuedFront(e) \in Seq(ManagerEvents) /\ Len(QueuedFront(e)) <= QueueDepth
           /\ mqueue # <<>> => Tail(mqueue) \in Seq(ManagerEvents)
                               /\ Len(Tail(mqueue)) <= QueueDepth
<1>1. mqueue \in Seq(ManagerEvents) /\ Len(mqueue) \in Nat
  BY DEF ManagerQueueOK
<1>2. /\ Append(mqueue, e) \in Seq(ManagerEvents)
      /\ Len(Append(mqueue, e)) = Len(mqueue) + 1
  BY <1>1
<1>3. /\ <<e>> \in Seq(ManagerEvents) /\ Len(<<e>>) = 1
      /\ <<e>> \o mqueue \in Seq(ManagerEvents)
      /\ Len(<<e>> \o mqueue) = Len(mqueue) + 1
  BY <1>1
<1>4. mqueue # <<>> => Tail(mqueue) \in Seq(ManagerEvents) /\ Len(Tail(mqueue)) = Len(mqueue) - 1
  BY <1>1
<1>5. Queued(e) \in Seq(ManagerEvents) /\ Len(Queued(e)) <= QueueDepth
  BY <1>1, <1>2, StackAssumption DEF Queued, ManagerQueueOK
<1>6. QueuedFront(e) \in Seq(ManagerEvents) /\ Len(QueuedFront(e)) <= QueueDepth
  BY <1>1, <1>3, StackAssumption DEF QueuedFront, ManagerQueueOK
<1>7. QED
  BY <1>1, <1>4, <1>5, <1>6, StackAssumption DEF ManagerQueueOK

(* No sender overfills the queue of the service, or takes from it; a LOST  *)
(* is in it afterwards, or has been dropped.                               *)
LEMMA NotifiedTypes ==
    ASSUME ServiceQueueOK, NEW e \in {"ready", "lost", "urc"}, squeue' = Notified(e)
    PROVE  /\ ServiceQueueOK'
           /\ Range(squeue) \subseteq Range(squeue')
           /\ Len(squeue) < ServiceDepth => e \in Range(squeue')
<1>1. squeue \in Seq({"ready", "lost", "urc"}) /\ Len(squeue) \in Nat
  BY DEF ServiceQueueOK
<1>2. CASE Len(squeue) < ServiceDepth
  <2>1. squeue' = Append(squeue, e)
    BY <1>2 DEF Notified, Enqueue
  <2>2. /\ squeue' \in Seq({"ready", "lost", "urc"}) /\ Len(squeue') = Len(squeue) + 1
        /\ DOMAIN squeue' = DOMAIN squeue \cup {Len(squeue) + 1}
        /\ \A i \in DOMAIN squeue : squeue'[i] = squeue[i]
        /\ squeue'[Len(squeue) + 1] = e
    BY <1>1, <2>1
  <2>3. ServiceQueueOK'
    BY <1>1, <1>2, <2>2, StackAssumption DEF ServiceQueueOK
  <2>4. Range(squeue) \subseteq Range(squeue') /\ e \in Range(squeue')
    BY <2>2 DEF Range
  <2>5. QED
    BY <2>3, <2>4
<1>3. CASE ~(Len(squeue) < ServiceDepth)
  BY <1>3 DEF Notified, Enqueue, ServiceQueueOK
<1>4. QED
  BY <1>2, <1>3

(* The supply: power_monitor_task counts to its two limits. *)
SupplyRecords == [requested : BOOLEAN, latched : BOOLEAN, on : BOOLEAN,
                  asserted : 0..AssertPolls, clear : 0..CooldownPolls]

(* gateway_board_usb_host_power_set *)
LEMMA PowerSetTypes ==
    ASSUME NEW p \in SupplyRecords, NEW enabled \in BOOLEAN
    PROVE  PowerSet(p, enabled) \in SupplyRecords
<1>1. \/ PowerSet(p, enabled) = [p EXCEPT !.requested = TRUE]
      \/ PowerSet(p, enabled) = [p EXCEPT !.requested = enabled, !.on = enabled]
  BY DEF PowerSet
<1>2. QED
  BY <1>1 DEF SupplyRecords

(* One poll of power_monitor_task. *)
LEMMA MonitorTypes ==
    ASSUME NEW p \in SupplyRecords, overcurrent \in BOOLEAN
    PROVE  Monitored(p) \in SupplyRecords
<1> DEFINE n == IF ~overcurrent THEN 0
                ELSE IF p.asserted < AssertPolls THEN p.asserted + 1 ELSE AssertPolls
           q == [p EXCEPT !.asserted = n]
           latches == [q EXCEPT !.clear = 0, !.latched = TRUE, !.on = @ /\ p.latched]
           cools == [q EXCEPT !.clear = @ + 1]
           restores == [q EXCEPT !.clear = 0, !.latched = FALSE, !.on = @ \/ p.requested]
<1>1. n \in 0..AssertPolls /\ 0 \in 0..CooldownPolls
  BY StackAssumption DEF SupplyRecords
<1>2. \/ Monitored(p) \in {latches, restores, q}
      \/ p.clear < CooldownPolls /\ Monitored(p) = cools
  BY DEF Monitored
<1> HIDE DEF n
<1>3. q \in SupplyRecords /\ q.on \in BOOLEAN /\ q.clear = p.clear
  BY <1>1 DEF SupplyRecords
<1>4. p.latched \in BOOLEAN /\ p.requested \in BOOLEAN
  BY DEF SupplyRecords
<1> HIDE DEF q
<1>5. latches \in SupplyRecords
  BY <1>1, <1>3, <1>4 DEF SupplyRecords
<1>6. restores \in SupplyRecords
  BY <1>1, <1>3, <1>4 DEF SupplyRecords
<1>7. p.clear < CooldownPolls => cools \in SupplyRecords
  <2>1. p.clear < CooldownPolls => q.clear + 1 \in 0..CooldownPolls
    BY <1>3, StackAssumption DEF SupplyRecords
  <2>2. QED
    BY <1>3, <2>1 DEF SupplyRecords
<1>8. QED
  BY <1>2, <1>3, <1>5, <1>6, <1>7

-----------------------------------------------------------------------------
(* The invariant of the whole. *)

(* The modem that the service was configured on is the one behind the      *)
(* current handle, or the service is about to be told that it is gone.     *)
ServiceInv ==
    sms # 0 => \/ "lost" \in Range(squeue)
               \/ lapses \cap {"lost_dropped", "probed_twice"} # {}
               \/ worker.pc = "receive" /\ usb.cdc # NoHandle /\ usb.cdc.dev = sms

OthersInv ==
    /\ mgr \in ManagerRecords /\ ManagerQueueOK
    /\ power \in SupplyRecords /\ overcurrent \in BOOLEAN
    /\ sms \in {0} \cup Devices /\ ServiceQueueOK
    /\ left \in 0..MaxDisturbances /\ lapses \subseteq Lapses

StackInv == UsbInv /\ TransportInv /\ OthersInv /\ ServiceInv

(* A step after which the service is told no less, and which leaves the    *)
(* current handle.                                                         *)
LEMMA ServiceQuiet ==
    ASSUME ServiceInv, sms' = sms, Range(squeue) \subseteq Range(squeue'),
           lapses \subseteq lapses', worker' = worker, usb'.cdc = usb.cdc
    PROVE  ServiceInv'
  BY DEF ServiceInv

(* usb_transport_event: what it sends. *)
LEMMA TransportEvent ==
    ASSUME OthersInv, NEW ev \in UsbEvents, usb_transport_event(ev)
    PROVE  /\ ManagerQueueOK' /\ ServiceQueueOK' /\ lapses' \subseteq Lapses
           /\ Range(squeue) \subseteq Range(squeue')
           /\ ev \in {"disconnected", "error"}
              => "lost" \in Range(squeue') \/ "lost_dropped" \in lapses'
<1>1. \A id \in {"ready", "lost"} : Event(id) \in ManagerEvents
  BY DEF ManagerEvents
<1>2. CASE ev = "none"
  <2>1. mqueue' = mqueue /\ squeue' = squeue /\ lapses' \subseteq lapses \cup {"probed_twice"}
    BY <1>2 DEF usb_transport_event
  <2>2. QED
    BY <1>2, <2>1 DEF OthersInv, ManagerQueueOK, ServiceQueueOK, Lapses
<1>3. CASE ev = "at_ready"
  <2>1. /\ mqueue' = Queued(Event("ready")) /\ squeue' = squeue
        /\ lapses' \subseteq lapses \cup {"ready_dropped"}
    BY <1>3 DEF usb_transport_event
  <2>2. ManagerQueueOK'
    BY <1>1, <2>1, QueueDepths DEF OthersInv, ManagerQueueOK
  <2>3. QED
    BY <1>3, <2>1, <2>2 DEF OthersInv, ServiceQueueOK, Lapses
<1>4. CASE ev \in {"disconnected", "error"}
  <2>1. /\ mqueue' = QueuedFront(Event("lost")) /\ squeue' = Notified("lost")
        /\ lapses' = lapses \cup LostDropped
    BY <1>4 DEF usb_transport_event
  <2>2. ManagerQueueOK'
    BY <1>1, <2>1, QueueDepths DEF OthersInv, ManagerQueueOK
  <2>3. /\ ServiceQueueOK' /\ Range(squeue) \subseteq Range(squeue')
        /\ Len(squeue) < ServiceDepth => "lost" \in Range(squeue')
    BY <2>1, NotifiedTypes DEF OthersInv
  <2>4. lapses' \subseteq Lapses /\ (Len(squeue) < ServiceDepth \/ "lost_dropped" \in lapses')
    BY <2>1 DEF LostDropped, OthersInv, Lapses
  <2>5. QED
    BY <2>2, <2>3, <2>4
<1>5. QED
  BY <1>2, <1>3, <1>4 DEF UsbEvents

(* The worker task: it gives up a handle only with a LOST. *)
LEMMA WorkerService ==
    ASSUME UsbInv, TransportInv, OthersInv, ServiceInv, UsbWorker
    PROVE  ServiceInv'
<1>1. PICK ev \in UsbEvents : modem_usb_worker_task(ev) /\ usb_transport_event(ev)
  BY DEF UsbWorker
<1>2. /\ lapses \subseteq lapses' /\ Range(squeue) \subseteq Range(squeue') /\ sms' = sms
      /\ ev \in {"disconnected", "error"}
         => "lost" \in Range(squeue') \/ "lost_dropped" \in lapses'
  BY <1>1, LapsesGrow, TransportEvent DEF UsbWorker
<1>3. CASE ev \in {"disconnected", "error"}
  BY <1>2, <1>3 DEF ServiceInv
<1>4. CASE worker.pc # "receive"
  BY <1>2, <1>4 DEF ServiceInv
<1>5. CASE worker.pc = "receive" /\ ev \notin {"disconnected", "error"}
  <2>1. ev = "none"
    BY <1>1, <1>5 DEF modem_usb_worker_task, worker_device_found, worker_disconnect,
       worker_error, worker_probe_again, probe_open, probe_open_failed, probe_write,
       probe_interrupted, probe_answered, probe_timeout, probe_select, probe_gives_up
  <2>2. usb.cdc # NoHandle => "probed_twice" \in lapses'
    BY <1>1, <1>5, <2>1 DEF usb_transport_event
  <2>3. QED
    BY <1>2, <2>2 DEF ServiceInv
<1>6. QED
  BY <1>3, <1>4, <1>5

(* So the worker keeps all of it. *)
LEMMA WorkerStack ==
    ASSUME StackInv, UsbWorker
    PROVE  StackInv'
<1> USE DEF StackInv
<1>1. PICK ev \in UsbEvents : modem_usb_worker_task(ev) /\ usb_transport_event(ev)
  BY DEF UsbWorker
<1>2. UsbInv' /\ TransportInv' /\ ServiceInv'
  BY <1>1, WorkerTypes, WorkerTransport, WorkerService
<1>3. mgr' = mgr /\ power' = power /\ overcurrent' = overcurrent /\ sms' = sms /\ left' = left
  BY DEF UsbWorker, powerVars
<1>4. ManagerQueueOK' /\ ServiceQueueOK' /\ lapses' \subseteq Lapses
  BY <1>1, TransportEvent
<1>5. QED
  BY <1>2, <1>3, <1>4 DEF OthersInv

(* The callbacks of the driver. *)
LEMMA DriverStack ==
    ASSUME StackInv, CdcDriver
    PROVE  StackInv'
<1> USE DEF StackInv
<1>1. UsbInv' /\ TransportInv'
  BY DriverTypes, DriverTransport DEF CdcDriver
<1>2. /\ UNCHANGED <<mgr, mqueue, power, overcurrent, sms, squeue, left>>
      /\ lapses \subseteq lapses' /\ lapses' \subseteq lapses \cup {"work_dropped"}
  BY DEF CdcDriver, mgrVars, powerVars, smsVars
<1>3. worker' = worker /\ usb'.cdc = usb.cdc
  BY DEF CdcDriver, CdcDriverTask, new_usb_device_callback, cdc_device_disconnected,
     cdc_rx_callback, UsbInv, UsbStates
<1>4. ServiceInv'
  BY <1>2, <1>3, ServiceQuiet
<1>5. OthersInv'
  BY <1>2 DEF OthersInv, ManagerQueueOK, ServiceQueueOK, Lapses
<1>6. QED
  BY <1>1, <1>4, <1>5

(* The manager: what its task does to the queue and to the bound. *)
LEMMA ManagerStack ==
    ASSUME StackInv, Manager
    PROVE  StackInv'
<1> USE DEF StackInv
<1>1. UNCHANGED <<open, usb, bits, work, worker, sms>> /\ UsbInv'
  BY BusTypes DEF Manager, BusPower, BusStep
<1>2. /\ ServiceQueueOK' /\ Range(squeue) \subseteq Range(squeue')
      /\ lapses \subseteq lapses' /\ lapses' \subseteq Lapses
  <2>1. \/ squeue' = squeue /\ lapses' = lapses
        \/ squeue' = Notified("ready") /\ lapses' = lapses
        \/ squeue' = Notified("lost") /\ lapses' = lapses \cup LostDropped
    BY DEF Manager, manager_event
  <2>2. ServiceQueueOK' /\ Range(squeue) \subseteq Range(squeue')
    BY <2>1, NotifiedTypes DEF OthersInv, ServiceQueueOK
  <2>3. lapses \subseteq lapses' /\ lapses' \subseteq Lapses
    BY <2>1 DEF OthersInv, LostDropped, Lapses
  <2>4. QED
    BY <2>2, <2>3
<1>3. TransportInv' /\ ServiceInv'
  BY <1>1, <1>2, TransportQuiet, ServiceQuiet
<1>4. ManagerQueueOK'
  <2>1. mqueue' = mqueue \/ (mqueue # <<>> /\ mqueue' = Tail(mqueue))
    BY Zenon DEF Manager, ManagerCommand, ManagerEvent, ManagerRecovers, ManagerPowersOn, Take,
       initialize_begin, initialize_profile, initialize_sim, initialize_network, poll_sim,
       poll_network, handle_sim_pin, handle_transport_ready, handle_transport_lost,
       handle_urc_line, schedule_recovery, handle_manual_restart, hard_reset_returns,
       manual_reset_returns
  <2>2. Event("lost") \in ManagerEvents
    BY DEF ManagerEvents
  <2>3. QED
    BY <2>1, <2>2, QueueDepths DEF OthersInv, ManagerQueueOK
<1>5. mgr' \in ManagerRecords
  <2>1. CASE ManagerCommand
    BY <2>1, CommandStepTypes DEF ManagerCommand, OthersInv
  <2>2. CASE ManagerEvent
    BY <2>2, EventStepTypes DEF ManagerEvent, OthersInv, ManagerQueueOK
  <2>3. CASE ManagerRecovers \/ ManagerPowersOn
    BY <2>3, RecoveryTypes DEF ManagerRecovers, ManagerPowersOn, OthersInv
  <2>4. QED
    BY <2>1, <2>2, <2>3 DEF Manager
<1>6. power' \in SupplyRecords /\ overcurrent' = overcurrent
  <2>1. \/ power' = power \/ power' = PowerSet(power, FALSE) \/ power' = PowerSet(power, TRUE)
    BY Zenon DEF Manager, ManagerCommand, ManagerEvent, ManagerRecovers, ManagerPowersOn,
       powerVars
  <2>2. overcurrent' = overcurrent
    BY Zenon DEF Manager, ManagerCommand, ManagerEvent, ManagerRecovers, ManagerPowersOn,
       powerVars
  <2>3. QED
    BY <2>1, <2>2, PowerSetTypes DEF OthersInv
<1>7. left' \in 0..MaxDisturbances
  <2>1. left' = left \/ (left > 0 /\ left' = left - 1)
    BY Zenon DEF Manager, ManagerCommand, ManagerEvent, ManagerRecovers, ManagerPowersOn,
       Command
  <2>2. QED
    BY <2>1, StackAssumption DEF OthersInv
<1>8. QED
  BY <1>1, <1>2, <1>3, <1>4, <1>5, <1>6, <1>7 DEF OthersInv

(* configure_pdu_mode succeeds on the modem of the current handle. *)
LEMMA ConfiguredModem ==
    ASSUME UsbInv, TransportInv
    PROVE  /\ Configured \in {0} \cup Devices
           /\ Configured # 0 => /\ worker.pc = "receive" /\ usb.cdc # NoHandle
                                /\ usb.cdc.dev = Configured
<1>1. CASE sms_modem_ready /\ Answers
  <2>1. usb.ready /\ usb.cdc # NoHandle /\ usb.cdc.dev = device.inst /\ Configured = device.inst
    BY <1>1 DEF Answers, Reaches, Configured
  <2>2. worker.pc = "receive"
    BY <2>1 DEF TransportInv, UnreadyInv
  <2>3. device.inst \in {0} \cup Devices
    BY DEF UsbInv, DeviceInv
  <2>4. QED
    BY <2>1, <2>2, <2>3
<1>2. CASE ~(sms_modem_ready /\ Answers)
  BY <1>2 DEF Configured
<1>3. QED
  BY <1>1, <1>2

(* The SMS service: the LOST it waits for is read, or still there. *)
LEMMA ServiceStack ==
    ASSUME StackInv, Service
    PROVE  StackInv'
<1> USE DEF StackInv
<1>1. UNCHANGED <<device, open, usb, bits, work, worker, mgr, mqueue, power, overcurrent, left,
                  lapses>>
  BY DEF Service, usbVars, mgrVars, powerVars
<1>2. UsbInv'
  BY <1>1 DEF UsbInv, DeviceInv, Attached, OpenInv, WorkInv, WorkerInv
<1>3. TransportInv'
  BY <1>1, TransportQuiet
<1>4. CASE service_event
  <2>1. /\ squeue \in Seq({"ready", "lost", "urc"}) /\ squeue # <<>> /\ squeue' = Tail(squeue)
        /\ Len(squeue) \in Nat /\ Head(squeue) \in {"ready", "lost", "urc"}
    BY <1>4 DEF service_event, OthersInv, ServiceQueueOK
  <2>2. squeue' \in Seq({"ready", "lost", "urc"}) /\ Len(squeue') = Len(squeue) - 1
    BY <2>1
  <2>3. ServiceQueueOK'
    BY <2>1, <2>2, StackAssumption DEF ServiceQueueOK, OthersInv
  <2>4. \/ Head(squeue) = "ready" /\ sms' = Configured
        \/ sms' = 0
        \/ Head(squeue) = "urc" /\ sms' = sms
    BY <1>4, <2>1, Zenon DEF service_event
  <2>5. Head(squeue) = "urc" /\ "lost" \in Range(squeue) => "lost" \in Range(squeue')
    <3> SUFFICES ASSUME Head(squeue) = "urc", NEW i \in DOMAIN squeue, squeue[i] = "lost"
                 PROVE  \E j \in DOMAIN squeue' : squeue'[j] = "lost"
      BY DEF Range
    <3>1. i # 1 /\ i \in 1..Len(squeue)
      BY <2>1
    <3>2. i - 1 \in DOMAIN squeue' /\ squeue'[i - 1] = squeue[i]
      BY <2>1, <3>1
    <3>3. QED
      BY <3>2
  <2>6. sms' \in {0} \cup Devices /\ ServiceInv'
    BY <1>1, <2>4, <2>5, ConfiguredModem DEF ServiceInv, OthersInv
  <2>7. QED
    BY <1>1, <1>2, <1>3, <2>3, <2>6 DEF OthersInv, ManagerQueueOK
<1>5. CASE retry_pdu_mode_if_needed
  <2>1. sms' = Configured /\ squeue' = squeue
    BY <1>5 DEF retry_pdu_mode_if_needed
  <2>2. sms' \in {0} \cup Devices /\ ServiceInv'
    BY <1>1, <2>1, ConfiguredModem DEF ServiceInv
  <2>3. QED
    BY <1>1, <1>2, <1>3, <2>1, <2>2 DEF OthersInv, ManagerQueueOK, ServiceQueueOK
<1>6. QED
  BY <1>4, <1>5 DEF Service

(* What happens on the bus and to the supply. *)
LEMMA OutsideStack ==
    ASSUME StackInv, PowerMonitor \/ Enumerate \/ ModeSwitch \/ OvercurrentEnds
    PROVE  StackInv'
<1> USE DEF StackInv
<1>1. UNCHANGED <<open, usb, bits, work, worker, mgr, mqueue, sms, squeue, left, lapses>>
  BY BusQuiet DEF PowerMonitor, Enumerate, ModeSwitch, OvercurrentEnds, usbVars, mgrVars,
     smsVars, BusStep
<1>2. UsbInv'
  <2>1. CASE OvercurrentEnds
    BY <2>1 DEF OvercurrentEnds, usbVars, UsbInv, DeviceInv, Attached, OpenInv, WorkInv,
       WorkerInv
  <2>2. CASE PowerMonitor \/ Enumerate \/ ModeSwitch
    BY <2>2, BusTypes DEF PowerMonitor, Enumerate, ModeSwitch, BusStep
  <2>3. QED
    BY <2>1, <2>2
<1>3. TransportInv' /\ ServiceInv'
  BY <1>1, TransportQuiet, ServiceQuiet
<1>4. power' \in SupplyRecords /\ overcurrent' \in BOOLEAN
  <2>1. CASE PowerMonitor
    BY <2>1, MonitorTypes DEF PowerMonitor, power_monitor_task, OthersInv
  <2>2. CASE Enumerate \/ ModeSwitch \/ OvercurrentEnds
    BY <2>2 DEF Enumerate, ModeSwitch, OvercurrentEnds, powerVars, OthersInv
  <2>3. QED
    BY <2>1, <2>2
<1>5. QED
  BY <1>1, <1>2, <1>3, <1>4 DEF OthersInv, ManagerQueueOK, ServiceQueueOK

(* The disturbances. *)
LEMMA DisturbanceStack ==
    ASSUME StackInv, Disturbance
    PROVE  StackInv'
<1> USE DEF StackInv
<1>0. left' \in 0..MaxDisturbances
  BY StackAssumption DEF Disturbance, OthersInv
<1>1. CASE (Unplug \/ Hang \/ process_mode_switch_device(FALSE))
           /\ UNCHANGED <<mgrVars, powerVars, smsVars, lapses>>
  <2>1. UNCHANGED <<open, usb, bits, work, worker>> /\ UsbInv'
    BY <1>1, BusQuiet, BusTypes DEF BusStep
  <2>2. UNCHANGED <<mgr, mqueue, power, overcurrent, sms, squeue, lapses>>
    BY <1>1 DEF mgrVars, powerVars, smsVars
  <2>3. TransportInv' /\ ServiceInv'
    BY <2>1, <2>2, TransportQuiet, ServiceQuiet
  <2>4. QED
    BY <1>0, <2>1, <2>2, <2>3 DEF OthersInv, ManagerQueueOK, ServiceQueueOK
<1>2. CASE CdcError
  <2>1. UsbInv' /\ TransportInv'
    BY <1>2, DriverTypes, ErrorTransport DEF CdcError
  <2>2. /\ UNCHANGED <<mgr, mqueue, power, overcurrent, sms, squeue>>
        /\ lapses' = lapses \cup {"cdc_error"}
    BY <1>2 DEF CdcError, mgrVars, powerVars, smsVars
  <2>3. worker' = worker /\ usb'.cdc = usb.cdc
    BY <1>2 DEF CdcError, cdc_device_error, UsbInv, UsbStates
  <2>4. ServiceInv'
    BY <2>2, <2>3, ServiceQuiet
  <2>5. QED
    BY <1>0, <2>1, <2>2, <2>4 DEF OthersInv, ManagerQueueOK, ServiceQueueOK, Lapses
<1>3. ASSUME UNCHANGED <<usbVars, mgr, power, sms, lapses>>, overcurrent' \in BOOLEAN,
             ManagerQueueOK', ServiceQueueOK', Range(squeue) \subseteq Range(squeue')
      PROVE  StackInv'
  <2>1. UNCHANGED <<device, open, usb, bits, work, worker, mgr, power, sms, lapses>>
    BY <1>3 DEF usbVars
  <2>2. UsbInv'
    BY <2>1 DEF UsbInv, DeviceInv, Attached, OpenInv, WorkInv, WorkerInv
  <2>3. TransportInv' /\ ServiceInv'
    BY <1>3, <2>1, TransportQuiet, ServiceQuiet
  <2>4. QED
    BY <1>0, <1>3, <2>1, <2>2, <2>3 DEF OthersInv
<1>4. CASE OvercurrentBegins
  <2>1. /\ UNCHANGED <<usbVars, mgr, mqueue, power, sms, squeue, lapses>>
        /\ overcurrent' \in BOOLEAN
    BY <1>4 DEF OvercurrentBegins, mgrVars, smsVars
  <2>2. QED
    BY <1>3, <2>1 DEF OthersInv, ManagerQueueOK, ServiceQueueOK
<1>5. ASSUME NEW line \in StatusLines, core_urc_dispatch(line) PROVE StackInv'
  <2>1. /\ UNCHANGED <<usbVars, mgr, power, overcurrent, sms, lapses>>
        /\ mqueue' = Queued(StatusLine(line)) /\ squeue' = Notified("urc")
    BY <1>5 DEF core_urc_dispatch, powerVars
  <2>2. StatusLine(line) \in ManagerEvents
    BY StackAssumption DEF ManagerEvents
  <2>3. ManagerQueueOK'
    BY <2>1, <2>2, QueueDepths DEF OthersInv, ManagerQueueOK
  <2>4. ServiceQueueOK' /\ Range(squeue) \subseteq Range(squeue')
    BY <2>1, NotifiedTypes DEF OthersInv
  <2>5. QED
    BY <1>3, <2>1, <2>3, <2>4 DEF OthersInv
<1>6. ASSUME NEW id \in {"restart", "pin"}, Request(id) PROVE StackInv'
  <2>1. /\ UNCHANGED <<usbVars, mgr, power, overcurrent, sms, squeue, lapses>>
        /\ mqueue' = Queued(Event(id))
    BY <1>6 DEF Request, powerVars, smsVars
  <2>2. Event(id) \in ManagerEvents
    BY DEF ManagerEvents
  <2>3. ManagerQueueOK'
    BY <2>1, <2>2, QueueDepths DEF OthersInv, ManagerQueueOK
  <2>4. QED
    BY <1>3, <2>1, <2>3 DEF OthersInv, ServiceQueueOK
<1>7. QED
  BY <1>1, <1>2, <1>4, <1>5, <1>6 DEF Disturbance

(* The gateway starts without a modem. *)
LEMMA InitStackInv == Init => StackInv
<1> SUFFICES ASSUME Init PROVE StackInv
  OBVIOUS
<1>1. UsbInv
  <2>1. DeviceInv
    BY DEF Init, UsbInit, NoDevice, DeviceInv, Attached, Modes
  <2>2. OpenInv
    BY FS_EmptySet DEF Init, UsbInit, OpenInv
  <2>3. NoHandle \in CdcRecords
    BY DEF NoHandle, CdcRecords
  <2>4. usb \in UsbStates /\ bits \subseteq {"ok", "gone", "error"}
    BY <2>3 DEF Init, UsbInit, UsbStates
  <2>5. WorkInv
    <3>1. work = <<>>
      BY DEF Init, UsbInit
    <3>2. Len(<<>>) <= WorkDepth
      BY StackAssumption
    <3>3. QED
      BY <3>1, <3>2 DEF WorkInv
  <2>6. WorkerInv
    BY IdleWorker DEF Init, UsbInit, WorkerInv
  <2>7. QED
    BY <2>1, <2>2, <2>4, <2>5, <2>6 DEF UsbInv
<1>2. TransportInv
  <2>1. open = {} /\ work = <<>> /\ ~usb.ready /\ worker.pc = "receive"
    BY DEF Init, UsbInit, Idle
  <2>2. OneHandle /\ UnreadyInv
    BY <2>1 DEF OneHandle, UnreadyInv
  <2>3. LiveHandle /\ ErrorInv
    BY <2>1 DEF LiveHandle, ErrorInv, Probing
  <2>4. QED
    BY <2>2, <2>3 DEF TransportInv
<1>3. OthersInv
  <2>1. mgr \in ManagerRecords
    BY Zeros DEF Init, MgrInit, ManagerRecords, ManagerStates, SimStates
  <2>2. ManagerQueueOK /\ ServiceQueueOK
    <3>1. mqueue = <<>> /\ squeue = <<>>
      BY DEF Init, MgrInit
    <3>2. Len(<<>>) <= QueueDepth /\ Len(<<>>) <= ServiceDepth
      BY StackAssumption
    <3>3. QED
      BY <3>1, <3>2 DEF ManagerQueueOK, ServiceQueueOK
  <2>3. power \in SupplyRecords /\ overcurrent \in BOOLEAN
    <3>1. 0 \in 0..AssertPolls /\ 0 \in 0..CooldownPolls
      BY StackAssumption
    <3>2. QED
      BY <3>1 DEF Init, PowerInit, SupplyRecords
  <2>4. sms \in {0} \cup Devices /\ left \in 0..MaxDisturbances /\ lapses \subseteq Lapses
    BY StackAssumption DEF Init
  <2>5. QED
    BY <2>1, <2>2, <2>3, <2>4 DEF OthersInv
<1>4. ServiceInv
  BY DEF Init, ServiceInv
<1>5. QED
  BY <1>1, <1>2, <1>3, <1>4 DEF StackInv

(* Every step keeps the invariant. *)
LEMMA StepStackInv == StackInv /\ [Next]_vars => StackInv'
<1> SUFFICES ASSUME StackInv, [Next]_vars PROVE StackInv'
  OBVIOUS
<1>1. CASE UNCHANGED vars
  <2>1. UNCHANGED <<device, open, usb, bits, work, worker, mgr, mqueue, power, overcurrent,
                    sms, squeue, left, lapses>>
    BY <1>1 DEF vars, usbVars, mgrVars, powerVars, smsVars
  <2>2. UsbInv'
    BY <2>1 DEF StackInv, UsbInv, DeviceInv, Attached, OpenInv, WorkInv, WorkerInv
  <2>3. TransportInv' /\ ServiceInv'
    BY <2>1, TransportQuiet, ServiceQuiet DEF StackInv
  <2>4. OthersInv'
    BY <2>1 DEF StackInv, OthersInv, ManagerQueueOK, ServiceQueueOK
  <2>5. QED
    BY <2>2, <2>3, <2>4 DEF StackInv
<1>2. QED
  BY <1>1, WorkerStack, DriverStack, ManagerStack, ServiceStack, OutsideStack, DisturbanceStack
     DEF Next

(* Whatever the callbacks of the CDC driver, the worker and the bus do in  *)
(* any order, the transport loses no open handle and at_ready stands on a  *)
(* modem or on a disconnect that the worker has still to read, but for the *)
(* lapses that the properties name; every record and queue keeps its type  *)
(* and depth (modem_usb_worker_task, manager_task, power_monitor_task).    *)
THEOREM HandlesAreTracked == Spec => []HandleTracked
<1>1. StackInv => HandleTracked
  <2> SUFFICES ASSUME StackInv PROVE HandleTracked
    OBVIOUS
  <2> USE DEF StackInv
  <2>1. UsbTypeOK
    BY DEF UsbInv, DeviceInv, OpenInv, HandleRecords, UsbStates, CdcRecords, WorkInv, WorkerInv,
       WorkerStates, UsbTypeOK
  <2>2. MgrTypeOK
    BY DEF OthersInv, ManagerRecords, ManagerQueueOK, MgrTypeOK
  <2>3. PowerTypeOK
    BY DEF OthersInv, SupplyRecords, PowerTypeOK
  <2>4. TypeOK
    BY <2>1, <2>2, <2>3 DEF TypeOK, OthersInv, ServiceQueueOK
  <2>5. NoForgottenHandle
    BY DEF TransportInv, OneHandle, NoForgottenHandle
  <2>6. ReadyIsBacked
    <3> SUFFICES ASSUME usb.ready, lapses \cap {"cdc_error", "work_dropped"} = {}
                 PROVE  (\E h \in open : ~h.told) \/ DisconnectQueued
      BY DEF ReadyIsBacked, DisconnectQueued
    <3>1. PICK h \in open : Live(h)
      BY DEF TransportInv, LiveHandle
    <3>2. QED
      BY <3>1 DEF Live
  <2>7. QED
    BY <2>4, <2>5, <2>6 DEF HandleTracked
<1>2. QED
  BY <1>1, InitStackInv, StepStackInv, PTL DEF Spec

(* The SMS service that takes itself for configured (configure_pdu_mode)   *)
(* sends to the modem it configured, until it has read the LOST of it or   *)
(* its full queue dropped that one.                                        *)
THEOREM SendsToTheConfigured == Spec => []SendsToConfigured
<1>1. StackInv => SendsToConfigured
  BY DEF StackInv, ServiceInv, SendsToConfigured, Answers, Reaches
<1>2. QED
  BY <1>1, InitStackInv, StepStackInv, PTL DEF Spec
=============================================================================
