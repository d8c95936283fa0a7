------------------------------ MODULE ModemStack ------------------------------
(***************************************************************************)
(* The modem side of the gateway put together, the way modem_core.c wires  *)
(* it: the USB transport reports to the modem manager and to the SMS       *)
(* service, the manager's state tells the SMS service when there is a      *)
(* modem to use, and the manager's last resort is to switch the supply of  *)
(* the USB socket, which an over-current monitor may cut on its own.       *)
(*                                                                         *)
(* Each task is its own process: the CDC driver's callbacks, the USB       *)
(* worker, the manager, the power monitor and the SMS service.  Events     *)
(* pass through the bounded queues of manager and service.                 *)
(***************************************************************************)
EXTENDS UsbTransport, ModemManager, BoardPower

CONSTANTS
    ServiceDepth,     \* SMS_SERVICE_QUEUE_DEPTH
    SimReports,       \* what the SIM may answer to CPIN: a subset of SimStates
    NetworkReports,   \* whether a query may find the modem registered: Booleans
    StatusLines,      \* unsolicited status lines of the modem
    EnumeratesAs,     \* modes the modem may enumerate in
    MaxDisturbances   \* bound: faults, and requests from outside

VARIABLES
    sms,      \* the modem that PDU mode was configured on, 0: not configured
    squeue,   \* s_service.queue of sms_service.c
    left,     \* disturbances left
    lapses    \* history: what got lost on the way in this behaviour

smsVars == <<sms, squeue>>
vars == <<usbVars, mgrVars, powerVars, smsVars, left, lapses>>

Lapses == {"cdc_error", "work_dropped", "ready_dropped", "lost_dropped",
           "probed_twice"}

ASSUME StackAssumption ==
    /\ "null" \notin Handles /\ (Ports # {} => 1 \in Ports)
    /\ WorkDepth \in Nat \ {0} /\ Retries \in Nat \ {0} /\ MaxDevices \in Nat
    /\ ServiceDepth \in Nat \ {0} /\ MaxDisturbances \in Nat
    /\ QueueDepth \in Nat \ {0} /\ Threshold \in Nat \ {0} /\ HardResetAfter \in Nat \ {0}
    /\ StablePolls \in Nat /\ PowerControl \in BOOLEAN
    /\ AssertPolls \in Nat /\ CooldownPolls \in Nat
    /\ StatusLines \subseteq StatusValues
    /\ AtPorts \subseteq Ports
    /\ SimReports \subseteq SimStates /\ NetworkReports \subseteq BOOLEAN
    /\ EnumeratesAs \subseteq Modes

Init ==
    /\ UsbInit
    /\ MgrInit
    /\ PowerInit
    /\ sms = 0
    /\ squeue = <<>>
    /\ left = MaxDisturbances
    /\ lapses = {}

-----------------------------------------------------------------------------
(* modem_core.c *)

(* AT commands reach the modem and are answered. *)
Answers == /\ usb.ready
           /\ usb.cdc # NoHandle
           /\ Reaches(usb.cdc)
           /\ device.mode = "modem"

sms_modem_ready == usb.ready /\ mgr.state = "READY"

(* queue_simple_event of sms_service.c *)
Notified(e) == Enqueue(squeue, ServiceDepth, e)

LostDropped == IF Len(squeue) < ServiceDepth THEN {} ELSE {"lost_dropped"}

(* usb_transport_event *)
usb_transport_event(ev) ==
    CASE ev = "none" ->
           /\ lapses' = IF worker.pc = "receive" /\ usb.cdc # NoHandle
                        THEN lapses \cup {"probed_twice"} ELSE lapses
           /\ UNCHANGED <<mqueue, squeue>>
      [] ev = "at_ready" ->
           /\ mqueue' = Queued(Event("ready"))
           /\ lapses' = IF Len(mqueue) < QueueDepth THEN lapses
                        ELSE lapses \cup {"ready_dropped"}
           /\ UNCHANGED squeue
      [] ev \in {"disconnected", "error"} ->
           /\ squeue' = Notified("lost")
           /\ mqueue' = QueuedFront(Event("lost"))
           /\ lapses' = lapses \cup LostDropped

(* manager_event: the edges into and out of READY. *)
manager_event ==
    IF mgr'.state = "READY" /\ mgr.state # "READY"
    THEN /\ squeue' = Notified("ready")
         /\ UNCHANGED lapses
    ELSE IF mgr'.state # "READY" /\ mgr.state = "READY"
    THEN /\ squeue' = Notified("lost")
         /\ lapses' = lapses \cup LostDropped
    ELSE UNCHANGED <<squeue, lapses>>

(* core_urc_dispatch *)
core_urc_dispatch(line) ==
    /\ Answers
    /\ mqueue' = Queued(StatusLine(line))
    /\ squeue' = Notified("urc")
    /\ UNCHANGED <<usbVars, mgr, powerVars, sms, lapses>>

-----------------------------------------------------------------------------
(* The tasks. *)

UsbWorker ==
    \E ev \in UsbEvents :
      /\ modem_usb_worker_task(ev)
      /\ usb_transport_event(ev)
      /\ UNCHANGED <<mgr, powerVars, sms, left>>

(* A full work queue drops what a callback sends: that a modem is there, or *)
(* that the one in use is gone.                                            *)
CdcDriver ==
    /\ CdcDriverTask
    /\ lapses' = IF /\ Len(work) = WorkDepth
                    /\ device' # device \/ \E h \in open \ open' : CurrentGeneration(h)
                 THEN lapses \cup {"work_dropped"} ELSE lapses
    /\ UNCHANGED <<mgrVars, powerVars, smsVars, left>>

(* A modem without power is off the bus. *)
BusPower ==
    /\ device' = IF power'.on THEN device ELSE NoDevice
    /\ UNCHANGED <<open, usb, bits, work, worker>>

(* Commands fail without an answer.  An answering modem may still miss one *)
(* (a timeout): that is a disturbance.                                     *)
Command(ok) == \/ ok = Answers /\ UNCHANGED left
               \/ Answers /\ ~ok /\ left > 0 /\ left' = left - 1

ManagerCommand ==
    \E ok \in BOOLEAN :
      /\ Command(ok)
      /\ \/ initialize_profile(ok)
         \/ \E sim \in SimReports : initialize_sim(ok, sim) \/ poll_sim(ok, sim)
         \/ \E reg \in NetworkReports : initialize_network(ok, reg)
         \/ \E reg \in NetworkReports, first \in BOOLEAN :
              (ok => first) /\ (first => Answers) /\ poll_network(first, ok, reg)
         \/ handle_sim_pin(ok)
      /\ UNCHANGED powerVars

ManagerEvent ==
    /\ \/ initialize_begin
       \/ handle_transport_ready
       \/ handle_transport_lost
       \/ handle_urc_line
    /\ UNCHANGED <<powerVars, left>>

(* manager_hard_reset switches VBUS off, and on again after a delay. *)
ManagerRecovers ==
    /\ \/ schedule_recovery
       \/ handle_manual_restart(Answers)
    /\ power' = IF HardResetBegins \/ (mgr'.pc = "manual" /\ mgr.pc = "receive")
                THEN PowerSet(power, FALSE) ELSE power
    /\ UNCHANGED <<overcurrent, left>>

ManagerPowersOn ==
    /\ \/ hard_reset_returns(PowerAccepted(power, TRUE))
       \/ manual_reset_returns(PowerAccepted(power, TRUE), Answers)
    /\ power' = PowerSet(power, TRUE)
    /\ UNCHANGED <<overcurrent, left>>

Manager ==
    /\ ManagerCommand \/ ManagerEvent \/ ManagerRecovers \/ ManagerPowersOn
    /\ manager_event
    /\ BusPower
    /\ UNCHANGED sms

PowerMonitor ==
    /\ power_monitor_task
    /\ BusPower
    /\ UNCHANGED <<mgrVars, smsVars, left, lapses>>

(* configure_pdu_mode: its commands pass execute(), which asks first       *)
(* whether there is a modem.                                               *)
Configured == IF sms_modem_ready /\ Answers THEN device.inst ELSE 0

service_event_KeepConfigured ==
    /\ squeue # <<>>
    /\ squeue' = Tail(squeue)
    /\ sms' = IF Head(squeue) = "ready" THEN Configured ELSE sms

service_event ==
    /\ squeue # <<>>
    /\ squeue' = Tail(squeue)
    /\ sms' = CASE Head(squeue) = "ready" -> Configured
                [] Head(squeue) = "lost"  -> 0
                [] Head(squeue) = "urc"   -> sms

retry_pdu_mode_if_needed ==
    /\ sms = 0
    /\ sms_modem_ready
    /\ sms' = Configured
    /\ UNCHANGED squeue

Service ==
    /\ service_event \/ retry_pdu_mode_if_needed
    /\ UNCHANGED <<usbVars, mgrVars, powerVars, left, lapses>>

-----------------------------------------------------------------------------
(* The outside. *)

(* The modem sits in its socket: with power it enumerates, at once or      *)
(* after its mode was switched.                                            *)
Enumerate ==
    /\ power.on
    /\ \E mode \in EnumeratesAs : Plug(mode, {sms})
    /\ UNCHANGED <<mgrVars, powerVars, smsVars, left, lapses>>

ModeSwitch ==
    /\ process_mode_switch_device(TRUE)
    /\ UNCHANGED <<mgrVars, powerVars, smsVars, left, lapses>>

OvercurrentBegins ==
    /\ ~overcurrent
    /\ overcurrent' = TRUE
    /\ UNCHANGED <<usbVars, mgrVars, power, smsVars, lapses>>

OvercurrentEnds ==
    /\ overcurrent
    /\ overcurrent' = FALSE
    /\ UNCHANGED <<usbVars, mgrVars, power, smsVars, left, lapses>>

CdcError ==
    /\ \E h \in open : cdc_device_error(h)
    /\ lapses' = lapses \cup {"cdc_error"}
    /\ UNCHANGED <<mgrVars, powerVars, smsVars>>

(* modem_manager_request_restart, modem_manager_submit_sim_pin *)
Request(id) ==
    /\ mqueue' = Queued(Event(id))
    /\ UNCHANGED <<usbVars, mgr, powerVars, smsVars, lapses>>

Disturbance ==
    /\ left > 0
    /\ left' = left - 1
    /\ \/ (Unplug \/ Hang \/ process_mode_switch_device(FALSE))
          /\ UNCHANGED <<mgrVars, powerVars, smsVars, lapses>>
       \/ CdcError
       \/ OvercurrentBegins
       \/ \E line \in StatusLines : core_urc_dispatch(line)
       \/ \E id \in {"restart", "pin"} : Request(id)

Next ==
    \/ UsbWorker \/ CdcDriver \/ Manager \/ PowerMonitor \/ Service
    \/ Enumerate \/ ModeSwitch
    \/ OvercurrentEnds \/ Disturbance

(* Every task runs, the driver and the bus report what happened, and an    *)
(* over-current ends.                                                      *)
Fairness ==
    /\ WF_vars(UsbWorker) /\ WF_vars(CdcDriver) /\ WF_vars(Manager)
    /\ WF_vars(PowerMonitor) /\ WF_vars(Service)
    /\ WF_vars(Enumerate) /\ WF_vars(ModeSwitch)
    /\ WF_vars(OvercurrentEnds)

Spec == Init /\ [][Next]_vars
FairSpec == Spec /\ Fairness

-----------------------------------------------------------------------------
TypeOK ==
    /\ UsbTypeOK /\ MgrTypeOK /\ PowerTypeOK
    /\ sms \in {0} \cup Devices
    /\ squeue \in Seq({"ready", "lost", "urc"}) /\ Len(squeue) <= ServiceDepth
    /\ left \in 0..MaxDisturbances
    /\ lapses \subseteq Lapses

(* The transport never forgets a handle: whatever the driver has open is   *)
(* the current handle, or the worker is about to close it (every path out  *)
(* of probe_candidate).  Two things break this: a CDC error, when the      *)
(* disconnect of the old session is handled after the second probe, and a  *)
(* modem that enumerates again while its first report waits in the queue:  *)
(* both reports then probe the same modem, the second one over the handle  *)
(* that the first left open.                                               *)
NoForgottenHandle ==
    \A h \in open :
      h.id = usb.cdc.id \/ lapses \cap {"cdc_error", "work_dropped", "probed_twice"} # {}

(* at_ready is backed by a modem: when that modem is gone, the disconnect  *)
(* is still on its way to the worker (a probe may succeed and announce the *)
(* modem in the moment it is pulled out).  A CDC error is the exception:   *)
(* one that belongs to an earlier handle closes the newer one and leaves   *)
(* at_ready set, although "stale callbacks from the old handle are         *)
(* ignored" (docs/at-engine.md).                                           *)
ReadyIsBacked ==
    usb.ready =>
      \/ "cdc_error" \in lapses
      \/ usb.cdc # NoHandle /\ Reaches(usb.cdc)
      \/ \E h \in open : ~h.told
      \/ \E i \in DOMAIN work : work[i].id = "disconnected"
      \/ "work_dropped" \in lapses

(* What the transport holds and what it tells agree with the bus, and the  *)
(* three queues stay within their depths (TypeOK).                         *)
HandleTracked == TypeOK /\ NoForgottenHandle /\ ReadyIsBacked

(* VBUS is off only while a power cycle of the manager is under way or the *)
(* over-current latch holds it off: however the two interleave, neither    *)
(* leaves the modem without power afterwards.                              *)
PowerComesBack ==
    ~power.on => power.latched \/ mgr.pc \in {"reset", "manual"}

(* Messages go to a modem that was put into PDU mode: the service takes    *)
(* itself for configured on another modem than the attached one only until *)
(* it has read the LOST in its queue, or for ever when the full queue      *)
(* dropped that, or none was sent because the modem was probed twice.      *)
SendsToConfigured ==
    (sms # 0 /\ sms_modem_ready /\ Answers /\ sms # device.inst) =>
      \/ "lost" \in Range(squeue)
      \/ lapses \cap {"lost_dropped", "probed_twice"} # {}

(* A modem that enumerates in the end is served in the end: the transport  *)
(* is ready and the manager has a session with it, after any mixture of    *)
(* unplugging, timeouts, over-current and restarts, and also when its      *)
(* firmware hangs during the session, for then the escalation ends in a    *)
(* power cycle.  (One that hangs while it is probed is given up for good.) *)
Served == usb.ready /\ Answers /\ mgr.ready /\ mgr.state \in Sessions

ModemComesBack ==
    <>[](device.mode = "modem" \/ (device.mode = "mute" /\ mgr.ready)) =>
      ([]<>Served \/ <>(lapses \cap {"cdc_error", "work_dropped", "ready_dropped",
                                 "probed_twice"} # {}))
=============================================================================
