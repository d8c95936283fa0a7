----------------------------- MODULE UsbTransport -----------------------------
(***************************************************************************)
(* The USB modem transport (usb_modem_transport.c): the callbacks that the *)
(* CDC driver runs in its own task, the worker task that opens and probes  *)
(* the serial interfaces of a modem, and the mode switch of a modem that   *)
(* enumerates as a memory stick.                                           *)
(*                                                                         *)
(* The driver, the bus and the modem are external.  A modem is known by    *)
(* the number of its enumeration; a handle of the driver by its address    *)
(* (id), which the heap may hand out again, the generation it was opened   *)
(* with, the enumeration and the interface (port) it belongs to.           *)
(* Generations and enumerations are only ever compared, so a new one is    *)
(* the least number that nothing refers to any more.                       *)
(***************************************************************************)
EXTENDS Naturals, Sequences, FiniteSets, Functions

CONSTANTS
    Ports,       \* candidate interfaces of the modem, 1 .. n, best score first
    AtPorts,     \* the ones that answer AT
    Handles,     \* addresses of driver handles
    WorkDepth,   \* MODEM_USB_WORK_QUEUE_DEPTH
    Retries,     \* CONFIG_GATEWAY_MODEM_USB_PROBE_RETRIES
    MaxDevices   \* bound: enumerations that are referred to at one time

VARIABLES
    device,      \* [inst, mode, announced]: what is on the bus
    open,        \* the handles the driver has open
    usb,         \* s_usb: ready, present, gen, cdc, last, probing
    bits,        \* s_usb.probe_events
    work,        \* s_usb.work_queue
    worker       \* where modem_usb_worker_task is

usbVars == <<device, open, usb, bits, work, worker>>

Devices == 1..MaxDevices
Modes == {"none", "storage", "unswitched", "modem", "mute"}
NoDevice == [inst |-> 0, mode |-> "none", announced |-> FALSE]
NoHandle == [id |-> "null", gen |-> 0, dev |-> 0, port |-> 0]
Idle == [pc |-> "receive", dev |-> 0, port |-> 1, attempt |-> 1]

UsbEvents == {"none", "at_ready", "disconnected", "error"}

UsbInit ==
    /\ device = NoDevice
    /\ open = {}
    /\ usb = [ready |-> FALSE, present |-> FALSE, gen |-> 0, cdc |-> NoHandle,
              last |-> 0, probing |-> FALSE]
    /\ bits = {}
    /\ work = <<>>
    /\ worker = Idle

-----------------------------------------------------------------------------
Least(S) == CHOOSE x \in S : \A y \in S : x <= y

(* A queue that is full drops what is sent to it. *)
Enqueue(queue, depth, item) ==
    IF Len(queue) < depth THEN Append(queue, item) ELSE queue

Found(dev) == [id |-> "found", dev |-> dev, gen |-> 0, handle |-> "null"]
Disconnected(h) == [id |-> "disconnected", dev |-> 0, gen |-> 0, handle |-> h.id]
TransportError(h) == [id |-> "error", dev |-> 0, gen |-> h.gen, handle |-> "null"]

Generations == {h.gen : h \in open} \cup {w.gen : w \in Range(work)} \cup {usb.gen}

(* The next value of next_generation, as far as anything can tell. *)
FreshGeneration == Least(1..(Cardinality(Generations) + 1) \ Generations)

Attached == device.mode # "none"

(* The modem that an open handle leads to is still on the bus. *)
Reaches(h) == h.dev = device.inst /\ device.mode \in {"modem", "mute"}

-----------------------------------------------------------------------------
(* The bus.  used: the enumerations that something else still refers to.   *)
Plug(mode, used) ==
    LET fresh == Devices \ ( used \cup {usb.last} \cup {h.dev : h \in open}
                                  \cup {w.dev : w \in Range(work)} )
    IN  /\ ~Attached
        /\ \A h \in open : h.told
        /\ fresh # {}
        /\ device' = [inst |-> Least(fresh), mode |-> mode, announced |-> FALSE]
        /\ UNCHANGED <<open, usb, bits, work, worker>>

Unplug ==
    /\ Attached
    /\ device' = NoDevice
    /\ UNCHANGED <<open, usb, bits, work, worker>>

(* The modem's firmware hangs: it stays on the bus and answers no command. *)
Hang ==
    /\ device.mode = "modem"
    /\ device' = [device EXCEPT !.mode = "mute"]
    /\ UNCHANGED <<open, usb, bits, work, worker>>

(* process_mode_switch_device: the message that turns the memory stick     *)
(* into a modem, which enumerates anew.  Nothing repeats a failed one.     *)
process_mode_switch_device(ok) ==
    /\ device.mode = "storage"
    /\ device' = [device EXCEPT !.mode = IF ok THEN "modem" ELSE "unswitched"]
    /\ UNCHANGED <<open, usb, bits, work, worker>>

-----------------------------------------------------------------------------
(* Callbacks of the CDC driver. *)

(* Only devices with the modem's product id are reported to the worker.    *)
new_usb_device_callback ==
    /\ device.mode \in {"modem", "mute"}
    /\ ~device.announced
    /\ device' = [device EXCEPT !.announced = TRUE]
    /\ work' = Enqueue(work, WorkDepth, Found(device.inst))
    /\ UNCHANGED <<open, usb, bits, worker>>

CurrentGeneration(h) == h.gen # 0 /\ h.gen = usb.gen

(* The driver tells the owner of each handle once that its device is gone. *)
cdc_device_disconnected(h) ==
    /\ h \in open
    /\ ~Reaches(h)
    /\ ~h.told
    /\ open' = (open \ {h}) \cup {[h EXCEPT !.told = TRUE]}
    /\ IF CurrentGeneration(h)
       THEN /\ usb' = [usb EXCEPT !.ready = FALSE, !.present = FALSE]
            /\ bits' = bits \cup {"gone"}
            /\ work' = Enqueue(work, WorkDepth, Disconnected(h))
       ELSE UNCHANGED <<usb, bits, work>>
    /\ UNCHANGED <<device, worker>>

cdc_device_error(h) ==
    /\ h \in open
    /\ Reaches(h)
    /\ IF CurrentGeneration(h)
       THEN /\ usb' = [usb EXCEPT !.ready = FALSE]
            /\ bits' = bits \cup {"error"}
            /\ work' = Enqueue(work, WorkDepth, TransportError(h))
       ELSE UNCHANGED <<usb, bits, work>>
    /\ UNCHANGED <<device, open, worker>>

(* The line OK arrives while a probe is waiting for it. *)
AnswerDue(h) ==
    /\ Reaches(h)
    /\ device.mode = "modem"
    /\ h.port \in AtPorts
    /\ CurrentGeneration(h)
    /\ usb.probing

cdc_rx_callback(h) ==
    /\ h \in open
    /\ AnswerDue(h)
    /\ "ok" \notin bits
    /\ bits' = bits \cup {"ok"}
    /\ UNCHANGED <<device, open, usb, work, worker>>

-----------------------------------------------------------------------------
(* The worker task.  ev is the event it emits in the step.                 *)

Same(h, id) == h.id = id

(* close_current_handle(id): usb and open after it; "null" closes any.     *)
Closes(id) == usb.cdc # NoHandle /\ id \in {"null", usb.cdc.id}

Closed(id) ==
    IF Closes(id) THEN [usb EXCEPT !.cdc = NoHandle, !.gen = 0] ELSE usb

OpenAfterClose(id) ==
    IF Closes(id) THEN {h \in open : ~Same(h, usb.cdc.id)} ELSE open

(* handle_device_found, up to the first candidate. *)
BeginProbe(dev, state) ==
    /\ bits' = bits \ {"gone"}
    /\ usb' = [state EXCEPT !.present = TRUE, !.ready = FALSE, !.last = dev]
    /\ worker' = [Idle EXCEPT !.pc = IF Ports = {} THEN "none" ELSE "open",
                              !.dev = dev]

worker_device_found(ev) ==
    /\ worker.pc = "receive"
    /\ work # <<>>
    /\ Head(work).id = "found"
    /\ ev = "none"
    /\ work' = Tail(work)
    /\ BeginProbe(Head(work).dev, usb)
    /\ UNCHANGED <<device, open>>

worker_disconnect_KeepReady(ev) ==
    /\ worker.pc = "receive"
    /\ work # <<>>
    /\ Head(work).id = "disconnected"
    /\ ev = "disconnected"
    /\ work' = Tail(work)
    /\ open' = OpenAfterClose(Head(work).handle)
    /\ usb' = [Closed(Head(work).handle) EXCEPT
                 !.probing = FALSE, !.present = FALSE, !.last = 0, !.gen = 0]
    /\ UNCHANGED <<device, bits, worker>>

(* handle_disconnect *)
worker_disconnect(ev) ==
    /\ worker.pc = "receive"
    /\ work # <<>>
    /\ Head(work).id = "disconnected"
    /\ ev = "disconnected"
    /\ work' = Tail(work)
    /\ open' = OpenAfterClose(Head(work).handle)
    /\ usb' = [Closed(Head(work).handle) EXCEPT
                 !.probing = FALSE, !.present = FALSE, !.ready = FALSE,
                 !.last = 0, !.gen = 0]
    /\ UNCHANGED <<device, bits, worker>>

(* WORK_EVENT_ERROR: the error of an older session still closes whatever   *)
(* handle is current, but only an error of the current one probes again.   *)
RetryAfterError(gen) == gen # 0 /\ gen = usb.gen /\ usb.last # 0

worker_error(ev) ==
    LET gen == Head(work).gen
    IN  /\ worker.pc = "receive"
        /\ work # <<>>
        /\ Head(work).id = "error"
        /\ ev = "error"
        /\ work' = Tail(work)
        /\ open' = OpenAfterClose("null")
        /\ usb' = Closed("null")
        /\ worker' = IF RetryAfterError(gen)
                     THEN [Idle EXCEPT !.pc = "pause", !.dev = usb.last]
                     ELSE Idle
        /\ UNCHANGED <<device, bits>>

(* vTaskDelay(250 ms), then handle_device_found(saved, false). *)
worker_probe_again(ev) ==
    /\ worker.pc = "pause"
    /\ ev = "none"
    /\ BeginProbe(worker.dev, usb)
    /\ UNCHANGED <<device, open, work>>

(* What handle_device_found does after a candidate that did not answer. *)
AfterCandidate(present) ==
    IF ~present THEN Idle
    ELSE IF worker.port + 1 \in Ports
         THEN [worker EXCEPT !.pc = "open", !.port = @ + 1, !.attempt = 1]
         ELSE [worker EXCEPT !.pc = "none"]

(* An interface can be opened while the modem is there and no other handle *)
(* has claimed it.                                                         *)
CanOpen == /\ device.mode \in {"modem", "mute"}
           /\ ~\E h \in open : h.dev = device.inst /\ h.port = worker.port

probe_open(ev) ==
    /\ worker.pc = "open"
    /\ ev = "none"
    /\ CanOpen
    /\ \E id \in Handles \ {h.id : h \in open} :
         LET h == [id |-> id, gen |-> FreshGeneration, dev |-> device.inst,
                   port |-> worker.port]
         IN  /\ open' = open \cup {[id |-> id, gen |-> h.gen, dev |-> h.dev,
                                    port |-> h.port, told |-> FALSE]}
             /\ usb' = [usb EXCEPT !.gen = h.gen, !.cdc = h]
    /\ worker' = [worker EXCEPT !.pc = "write"]
    /\ UNCHANGED <<device, bits, work>>

probe_open_failed(ev) ==
    /\ worker.pc = "open"
    /\ ev = "none"
    /\ ~CanOpen
    /\ usb' = [usb EXCEPT !.gen = 0]
    /\ worker' = AfterCandidate(usb.present)
    /\ UNCHANGED <<device, open, bits, work>>

(* stop_probe_parser, close_current_handle, return false *)
ProbeFails ==
    /\ open' = OpenAfterClose(usb.cdc.id)
    /\ usb' = [Closed(usb.cdc.id) EXCEPT !.probing = FALSE]
    /\ worker' = AfterCandidate(usb.present)

(* The next attempt on the same interface, or the end of the probe.        *)
NextAttempt(probing) ==
    IF worker.attempt < Retries
    THEN /\ worker' = [worker EXCEPT !.pc = "write", !.attempt = @ + 1]
         /\ usb' = [usb EXCEPT !.probing = probing]
         /\ UNCHANGED open
    ELSE ProbeFails

(* reset_probe_parser, then AT is written; that fails once the modem is    *)
(* gone, and then the bits are only looked at and stay set.                *)
probe_write(ev) ==
    /\ worker.pc = "write"
    /\ ev = "none"
    /\ bits' = bits \ {"ok"}
    /\ IF Reaches(usb.cdc)
       THEN /\ usb' = [usb EXCEPT !.probing = TRUE]
            /\ worker' = [worker EXCEPT !.pc = "wait"]
            /\ UNCHANGED open
       ELSE IF "gone" \in bits THEN ProbeFails ELSE NextAttempt(TRUE)
    /\ UNCHANGED <<device, work>>

(* xEventGroupWaitBits clears all three bits when it returns one. *)
probe_interrupted(ev) ==
    /\ worker.pc = "wait"
    /\ ev = "none"
    /\ bits \cap {"gone", "error"} # {}
    /\ bits' = {}
    /\ ProbeFails
    /\ UNCHANGED <<device, work>>

probe_answered(ev) ==
    /\ worker.pc = "wait"
    /\ ev = "none"
    /\ bits = {"ok"}
    /\ bits' = {}
    /\ usb' = [usb EXCEPT !.probing = FALSE]
    /\ worker' = [worker EXCEPT !.pc = "select"]
    /\ UNCHANGED <<device, open, work>>

(* The wait ends without a bit.  A modem that can answer does so in time.  *)
probe_timeout(ev) ==
    /\ worker.pc = "wait"
    /\ ev = "none"
    /\ bits = {}
    /\ ~\E h \in open : Same(h, usb.cdc.id) /\ AnswerDue(h)
    /\ NextAttempt(TRUE)
    /\ UNCHANGED <<device, bits, work>>

(* update_selected_candidate and AT_READY *)
probe_select(ev) ==
    /\ worker.pc = "select"
    /\ ev = "at_ready"
    /\ usb' = [usb EXCEPT !.present = TRUE, !.ready = TRUE]
    /\ worker' = Idle
    /\ UNCHANGED <<device, open, bits, work>>

(* No candidate, or none that answered. *)
probe_gives_up(ev) ==
    /\ worker.pc = "none"
    /\ ev = "error"
    /\ worker' = Idle
    /\ UNCHANGED <<device, open, usb, bits, work>>

modem_usb_worker_task(ev) ==
    \/ worker_device_found(ev)
    \/ worker_disconnect(ev)
    \/ worker_error(ev)
    \/ worker_probe_again(ev)
    \/ probe_open(ev)
    \/ probe_open_failed(ev)
    \/ probe_write(ev)
    \/ probe_interrupted(ev)
    \/ probe_answered(ev)
    \/ probe_timeout(ev)
    \/ probe_select(ev)
    \/ probe_gives_up(ev)

CdcDriverTask ==
    \/ new_usb_device_callback
    \/ \E h \in open : cdc_device_disconnected(h) \/ cdc_rx_callback(h)

UsbTypeOK ==
    /\ device \in [inst : {0} \cup Devices, mode : Modes, announced : BOOLEAN]
    /\ \A h \in open :
         h \in [id : Handles, gen : Nat, dev : Devices, port : Ports, told : BOOLEAN]
    /\ usb.cdc \in [id : Handles \cup {"null"}, gen : Nat, dev : {0} \cup Devices,
                    port : {0} \cup Ports]
    /\ usb.last \in {0} \cup Devices
    /\ bits \subseteq {"ok", "gone", "error"}
    /\ Len(work) <= WorkDepth
    /\ worker.pc \in {"receive", "pause", "open", "write", "wait", "select", "none"}
=============================================================================
