------------------------------ MODULE MqttReplay ------------------------------
(***************************************************************************)
(* Publishing received messages over MQTT (mqtt_service.c): a worker task  *)
(* that publishes one stored message at a time and advances a cursor in    *)
(* flash when the broker has acknowledged it, the event handler that runs  *)
(* in the client's own task, the reconfiguration that replaces the client  *)
(* under both, and the message store whose pruning the cursor holds back.  *)
(*                                                                         *)
(* The client library, the broker and the link are external.  The library  *)
(* keeps what it was given to publish in its outbox until the broker's     *)
(* acknowledgement, sends it again after a reconnect, and numbers it with  *)
(* a packet id.  Message 0 stands for everything else that is published    *)
(* (announcement, status, command results).  What a command does is the    *)
(* matter of Idempotency; here it is work that takes a place in the queue. *)
(***************************************************************************)
EXTENDS Naturals, Sequences, FiniteSets, FiniteSetsExt, SequencesExt

CONSTANTS
    MaxMessages,      \* bound: messages received
    Capacity,         \* SMS_STORE_MAX_RECORDS
    WorkDepth,        \* MQTT_WORK_QUEUE_DEPTH
    PacketIds,        \* packet ids of the library
    OutboxLimit,      \* outbox.limit, in messages
    MaxDisturbances   \* bound: faults, other work and reconfigurations

VARIABLES
    store,        \* [ids, next, protect, mark]: the records and what may be pruned
    saved,        \* rx_cursor in NVS
    setting,      \* s_config of gateway_settings has MQTT enabled
    stored,       \* so has its record in NVS
    mqtt,         \* [cursor, msg, pkt, connected, enabled, client]: the statics
    queue,        \* s_queue
    worker,       \* worker_task: [pc, msg, pkt]
    handler,      \* mqtt_event_handler, past its check of the client: [ev, pkt]
    reconfigure,  \* mqtt_service_reconfigure: where it is
    net,          \* external: [up, outbox, taken, subscribed]
    received,     \* external: the messages the broker has
    gone,         \* history: messages that may be missing
    left,         \* disturbances left
    lapses        \* history: what got lost on the way in this behaviour

vars == <<store, saved, setting, stored, mqtt, queue, worker, handler, reconfigure, net,
          received, gone, left, lapses>>

Messages == 1..MaxMessages
Offline == [up |-> FALSE, outbox |-> <<>>, taken |-> 0, subscribed |-> FALSE]
Quiet == [ev |-> "none", pkt |-> 0]
Receiving == [pc |-> "receive", msg |-> 0, pkt |-> 0, after |-> "receive"]
Scanning == [Receiving EXCEPT !.pc = "scan"]

ASSUME ReplayAssumption ==
    /\ MaxMessages \in Nat /\ MaxDisturbances \in Nat
    /\ Capacity > 0 /\ WorkDepth > 0 /\ OutboxLimit > 0
    /\ PacketIds \subseteq Nat \ {0}

(* mqtt_service_init, which ends in a first reconfiguration. *)
Started(cursor, enabled) ==
    [cursor |-> cursor, msg |-> 0, pkt |-> 0, connected |-> FALSE,
     enabled |-> enabled, client |-> enabled]

Init ==
    /\ store = [ids |-> {}, next |-> 1, protect |-> TRUE, mark |-> 0]
    /\ saved = 0
    /\ setting = TRUE
    /\ stored = TRUE
    /\ mqtt = Started(0, TRUE)
    /\ queue = <<>>
    /\ worker = Receiving
    /\ handler = Quiet
    /\ reconfigure = "idle"
    /\ net = Offline
    /\ received = {}
    /\ gone = {}
    /\ left = MaxDisturbances
    /\ lapses = {}

Disturb == left > 0 /\ left' = left - 1

-----------------------------------------------------------------------------
(* The work queue. *)

Work(type, msg) == [type |-> type, msg |-> msg]

(* queue_simple_work and the other senders: no room, no work. *)
Queued(w) == IF Len(queue) < WorkDepth THEN Append(queue, w) ELSE queue

-----------------------------------------------------------------------------
(* Received messages. *)

(* record_prunable *)
Prunable == {m \in store.ids : ~store.protect \/ m <= store.mark}

(* sms_store_save, as far as received messages go: a full store gives up   *)
(* its oldest prunable record, or refuses the message, which then stays in *)
(* the modem.  sms_event_callback queues the replay.                       *)
sms_received ==
    LET victims == IF Cardinality(store.ids) < Capacity THEN {} ELSE {Min(Prunable)}
    IN  /\ store.next <= MaxMessages
        /\ Cardinality(store.ids) < Capacity \/ Prunable # {}
        /\ store' = [store EXCEPT !.ids = (@ \ victims) \cup {store.next}, !.next = @ + 1]
        /\ gone' = IF mqtt.enabled THEN gone ELSE gone \cup victims
        /\ queue' = Queued(Work("replay", 0))
        /\ UNCHANGED <<saved, setting, stored, mqtt, worker, handler, reconfigure, net,
                       received, left, lapses>>

(* The operator deletes a message. *)
sms_deleted(m) ==
    /\ Disturb
    /\ m \in store.ids
    /\ store' = [store EXCEPT !.ids = @ \ {m}]
    /\ gone' = gone \cup {m}
    /\ UNCHANGED <<saved, setting, stored, mqtt, queue, worker, handler, reconfigure, net,
                   received, lapses>>

(* sms_event_callback for the status of an outbound message. *)
sms_status_event ==
    /\ Disturb
    /\ queue' = Queued(Work("event", 0))
    /\ UNCHANGED <<store, saved, setting, stored, mqtt, worker, handler, reconfigure, net,
                   received, gone, lapses>>

(* MQTT_EVENT_DATA: a command.  The library acknowledges it on its own,    *)
(* also when the full queue drops it.                                      *)
command_received ==
    /\ Disturb
    /\ mqtt.client
    /\ net.subscribed
    /\ handler = Quiet
    /\ queue' = Queued(Work("data", 0))
    /\ UNCHANGED <<store, saved, setting, stored, mqtt, worker, handler, reconfigure, net,
                   received, gone, lapses>>

-----------------------------------------------------------------------------
(* publish_raw, with the library's esp_mqtt_client_publish: an entry of    *)
(* the outbox with a packet id, or a failure.                              *)

CanPublish == /\ mqtt.client
              /\ mqtt.connected
              /\ Len(net.outbox) < OutboxLimit

(* The library's packet ids do not repeat as long as it refers to them.    *)
Free == PacketIds \ ({handler.pkt} \cup {o.pkt : o \in Range(net.outbox)})

Published(n, msg, pkt) ==
    [n EXCEPT !.outbox = Append(@, [msg |-> msg, pkt |-> pkt])]

(* publish_json_object: the result of publish_raw is not looked at. *)
PublishOther(n) ==
    IF CanPublish /\ Free # {}
    THEN \E pkt \in Free : net' = Published(n, 0, pkt)
    ELSE net' = n

-----------------------------------------------------------------------------
(* The worker.  It holds the runtime mutex from taking an item until it    *)
(* waits for the next one.                                                 *)

NotInFlight(state) == [state EXCEPT !.msg = 0, !.pkt = 0]

Taking(type) ==
    /\ worker.pc = "receive"
    /\ reconfigure = "idle"
    /\ queue # <<>>
    /\ Head(queue).type = type
    /\ queue' = Tail(queue)

(* subscribe_and_announce, then replay_next_inbound.  The library refuses  *)
(* to subscribe while it is not connected.                                 *)
work_connected ==
    /\ Taking("connected")
    /\ PublishOther([net EXCEPT !.subscribed = net.up /\ mqtt.client])
    /\ worker' = Scanning
    /\ UNCHANGED <<store, saved, setting, stored, mqtt, handler, reconfigure, received,
                   gone, left, lapses>>

publish_sms_event ==
    /\ Taking("event")
    /\ PublishOther(net)
    /\ UNCHANGED <<store, saved, setting, stored, mqtt, worker, handler, reconfigure,
                   received, gone, left, lapses>>

(* A command is rejected (a retained one, say), or carried out; what that  *)
(* does to messages and modem is modelled elsewhere.  Its result is        *)
(* published.                                                              *)
handle_data_work ==
    /\ Taking("data")
    /\ PublishOther(net) \/ net' = net
    /\ UNCHANGED <<store, saved, setting, stored, mqtt, worker, handler, reconfigure,
                   received, gone, left, lapses>>

work_replay ==
    /\ Taking("replay")
    /\ worker' = Scanning
    /\ UNCHANGED <<store, saved, setting, stored, mqtt, handler, reconfigure, net,
                   received, gone, left, lapses>>

(* Is the acknowledged message still the one in flight? *)
IsCurrent(msg) == msg # 0 /\ mqtt.msg = msg

(* handle_replay_ack with replay_cursor_store: the cursor goes to flash,   *)
(* then to memory and to the store; then the next message.                 *)
handle_replay_ack ==
    LET msg == Head(queue).msg
    IN  /\ Taking("ack")
        /\ IF IsCurrent(msg)
           THEN /\ saved' = msg
                /\ mqtt' = [NotInFlight(mqtt) EXCEPT !.cursor = msg]
                /\ store' = [store EXCEPT !.protect = TRUE, !.mark = msg]
                /\ lapses' = IF mqtt.enabled THEN lapses ELSE lapses \cup {"late_ack"}
                /\ worker' = Scanning
           ELSE UNCHANGED <<saved, mqtt, store, lapses, worker>>
        /\ UNCHANGED <<setting, stored, handler, reconfigure, net, received, gone, left>>

(* NVS fails, with or without having written: memory keeps the old cursor. *)
replay_cursor_store_failed ==
    LET msg == Head(queue).msg
    IN  /\ Disturb
        /\ Taking("ack")
        /\ IsCurrent(msg)
        /\ saved' \in {saved, msg}
        /\ mqtt' = NotInFlight(mqtt)
        /\ UNCHANGED <<store, setting, stored, worker, handler, reconfigure, net, received,
                       gone, lapses>>

(* The time-out of the queue: replay_watchdog, replay_next_inbound,        *)
(* publish_status.  An acknowledgement that can come has come by then,     *)
(* unless it is late, which is a disturbance; so what is still in flight   *)
(* is what the watchdog gives up.                                          *)
NothingDue == handler = Quiet /\ (net.up => net.outbox = <<>>)

worker_idle_NoWatchdog ==
    /\ worker.pc = "receive"
    /\ reconfigure = "idle"
    /\ queue = <<>>
    /\ mqtt.connected
    /\ IF NothingDue THEN UNCHANGED left ELSE Disturb
    /\ mqtt' = mqtt
    /\ worker' = [Scanning EXCEPT !.after = "status"]
    /\ UNCHANGED <<store, saved, setting, stored, queue, handler, reconfigure, net,
                   received, gone, lapses>>

worker_idle ==
    /\ worker.pc = "receive"
    /\ reconfigure = "idle"
    /\ queue = <<>>
    /\ mqtt.connected
    /\ IF NothingDue THEN UNCHANGED left ELSE Disturb
    /\ mqtt' = NotInFlight(mqtt)
    /\ worker' = [Scanning EXCEPT !.after = "status"]
    /\ UNCHANGED <<store, saved, setting, stored, queue, handler, reconfigure, net,
                   received, gone, lapses>>

(* replay_next_inbound up to publish_raw: the first received message after *)
(* the cursor, unless one is in flight.                                    *)
Pending == {m \in store.ids : m > mqtt.cursor}

replay_next_inbound ==
    /\ worker.pc = "scan"
    /\ IF mqtt.connected /\ mqtt.msg = 0 /\ Pending # {} /\ CanPublish /\ Free # {}
       THEN \E pkt \in Free :
              /\ net' = Published(net, Min(Pending), pkt)
              /\ worker' = [worker EXCEPT !.pc = "record", !.msg = Min(Pending),
                                       !.pkt = pkt]
       ELSE worker' = [Receiving EXCEPT !.pc = worker.after] /\ UNCHANGED net
    /\ UNCHANGED <<store, saved, setting, stored, mqtt, queue, handler, reconfigure,
                   received, gone, left, lapses>>

(* The rest of publish_inbound_replay. *)
publish_inbound_replay ==
    /\ worker.pc = "record"
    /\ mqtt' = [mqtt EXCEPT !.msg = worker.msg, !.pkt = worker.pkt]
    /\ worker' = [Receiving EXCEPT !.pc = worker.after]
    /\ UNCHANGED <<store, saved, setting, stored, queue, handler, reconfigure, net,
                   received, gone, left, lapses>>

publish_status ==
    /\ worker.pc = "status"
    /\ PublishOther(net)
    /\ worker' = Receiving
    /\ UNCHANGED <<store, saved, setting, stored, mqtt, queue, handler, reconfigure,
                   received, gone, left, lapses>>

(* The item was taken, but a reconfiguration kept the mutex too long. *)
work_dropped ==
    /\ Disturb
    /\ worker.pc = "receive"
    /\ reconfigure # "idle"
    /\ queue # <<>>
    /\ queue' = Tail(queue)
    /\ lapses' = IF Head(queue).type = "connected"
                 THEN lapses \cup {"unannounced"} ELSE lapses
    /\ UNCHANGED <<store, saved, setting, stored, mqtt, worker, handler, reconfigure, net,
                   received, gone>>

Worker ==
    \/ work_connected \/ handle_data_work \/ publish_sms_event \/ work_replay
    \/ handle_replay_ack
    \/ worker_idle \/ replay_next_inbound \/ publish_inbound_replay \/ publish_status

-----------------------------------------------------------------------------
(* The client's task.  Its events pass through mqtt_event_handler, which   *)
(* first compares the client with the active one and then acts: two steps, *)
(* for a reconfiguration may come between.                                 *)

Passes(ev, pkt) == IF mqtt.client THEN [ev |-> ev, pkt |-> pkt] ELSE Quiet

(* A client runs from its start until reconfigure has stopped it. *)
Running == mqtt.client \/ reconfigure = "stop"

client_connects ==
    /\ Running /\ handler = Quiet
    /\ ~net.up
    /\ net' = [net EXCEPT !.up = TRUE]
    /\ handler' = Passes("connected", 0)
    /\ UNCHANGED <<store, saved, setting, stored, mqtt, queue, worker, reconfigure,
                   received, gone, left, lapses>>

(* The link breaks; what was not acknowledged will be sent again.          *)
client_disconnects ==
    /\ Disturb
    /\ Running /\ handler = Quiet
    /\ net.up
    /\ net' = [net EXCEPT !.up = FALSE, !.subscribed = FALSE, !.taken = 0]
    /\ handler' = Passes("disconnected", 0)
    /\ UNCHANGED <<store, saved, setting, stored, mqtt, queue, worker, reconfigure,
                   received, gone, lapses>>

(* The broker takes the entries in their order and acknowledges them in    *)
(* it.                                                                     *)
broker_receives ==
    /\ Running
    /\ net.up
    /\ net.taken < Len(net.outbox)
    /\ net' = [net EXCEPT !.taken = @ + 1]
    /\ received' = received \cup ({net.outbox[net.taken + 1].msg} \ {0})
    /\ UNCHANGED <<store, saved, setting, stored, mqtt, queue, worker, handler, reconfigure,
                   gone, left, lapses>>

(* An acknowledgement that overtakes the note of its packet id needs a     *)
(* broker faster than a few instructions: that is a disturbance.           *)
client_acknowledged ==
    LET o == Head(net.outbox)
    IN  /\ Running /\ handler = Quiet
        /\ net.up
        /\ net.taken > 0
        /\ net' = [net EXCEPT !.outbox = Tail(@), !.taken = @ - 1]
        /\ handler' = Passes("published", o.pkt)
        /\ lapses' = IF o.pkt = mqtt.pkt /\ o.msg # mqtt.msg
                     THEN lapses \cup {"same_packet_id"} ELSE lapses
        /\ IF worker.pc = "record" /\ worker.pkt = o.pkt THEN Disturb ELSE UNCHANGED left
        /\ UNCHANGED <<store, saved, setting, stored, mqtt, queue, worker, reconfigure,
                       received, gone>>

(* The library gives up an entry that could not be sent in time. *)
outbox_expires ==
    /\ Disturb
    /\ Len(net.outbox) > net.taken
    /\ net' = [net EXCEPT !.outbox = RemoveAt(@, net.taken + 1)]
    /\ UNCHANGED <<store, saved, setting, stored, mqtt, queue, worker, handler, reconfigure,
                   received, gone, lapses>>

handle_connected_ReplayOnly ==
    /\ handler.ev = "connected"
    /\ handler' = Quiet
    /\ mqtt' = [mqtt EXCEPT !.connected = TRUE]
    /\ queue' = Queued(Work("replay", 0))
    /\ lapses' = IF queue' = queue THEN lapses \cup {"unannounced"} ELSE lapses
    /\ UNCHANGED <<store, saved, setting, stored, worker, reconfigure, net, received, gone, left>>

handle_connected ==
    /\ handler.ev = "connected"
    /\ handler' = Quiet
    /\ mqtt' = [mqtt EXCEPT !.connected = TRUE]
    /\ queue' = Queued(Work("connected", 0))
    /\ lapses' = IF queue' = queue THEN lapses \cup {"unannounced"} ELSE lapses
    /\ UNCHANGED <<store, saved, setting, stored, worker, reconfigure, net, received, gone, left>>

handle_disconnected ==
    /\ handler.ev = "disconnected"
    /\ handler' = Quiet
    /\ mqtt' = [NotInFlight(mqtt) EXCEPT !.connected = FALSE]
    /\ UNCHANGED <<store, saved, setting, stored, queue, worker, reconfigure, net, received,
                   gone, left, lapses>>

AckMatches_Any(pkt) == TRUE

AckMatches(pkt) == pkt = mqtt.pkt

handle_published ==
    /\ handler.ev = "published"
    /\ handler' = Quiet
    /\ queue' = IF AckMatches(handler.pkt) /\ mqtt.msg # 0
                THEN Queued(Work("ack", mqtt.msg)) ELSE queue
    /\ UNCHANGED <<store, saved, setting, stored, mqtt, worker, reconfigure, net, received,
                   gone, left, lapses>>

ClientTask ==
    \/ client_connects
    \/ handle_connected \/ handle_disconnected \/ handle_published
    \/ broker_receives
    \/ client_acknowledged

-----------------------------------------------------------------------------
(* gateway_settings_set_mqtt on its own: called by the portal's form, or   *)
(* with a reconfiguration that gives up before it touches the client, or   *)
(* failing in nvs_commit with the record already there.                    *)
gateway_settings_set_mqtt(enabled, ok) ==
    /\ Disturb
    /\ reconfigure = "idle"
    /\ setting' = IF ok THEN enabled ELSE setting
    /\ stored' = enabled
    /\ UNCHANGED <<store, saved, mqtt, queue, worker, handler, reconfigure, net, received,
                   gone, lapses>>

(* mqtt_service_reconfigure, called after new settings were stored.  It    *)
(* holds the runtime mutex throughout.  What is in flight stays.           *)

reconfigure_begin(enabled) ==
    /\ Disturb
    /\ reconfigure = "idle"
    /\ worker.pc = "receive"
    /\ reconfigure' = IF mqtt.client THEN "stop" ELSE "install"
    /\ setting' = enabled
    /\ stored' = enabled
    /\ mqtt' = [mqtt EXCEPT !.client = FALSE, !.connected = FALSE]
    /\ UNCHANGED <<store, saved, queue, worker, handler, net, received, gone, lapses>>

(* esp_mqtt_client_stop waits for the client's task, destroy frees it. *)
reconfigure_stop ==
    /\ reconfigure = "stop"
    /\ handler = Quiet
    /\ reconfigure' = "install"
    /\ net' = Offline
    /\ UNCHANGED <<store, saved, setting, stored, mqtt, queue, worker, handler, received,
                   gone, left, lapses>>

(* The watermark that goes with the configuration; UINT32_MAX protects     *)
(* nothing, as does protect = FALSE.                                       *)
Protected(enabled) ==
    [store EXCEPT !.protect = enabled, !.mark = IF enabled THEN mqtt.cursor ELSE @]

reconfigure_install ==
    /\ reconfigure = "install"
    /\ reconfigure' = "idle"
    /\ store' = Protected(setting)
    /\ mqtt' = [mqtt EXCEPT !.enabled = setting, !.client = setting]
    /\ UNCHANGED <<saved, setting, stored, queue, worker, handler, net, received, gone,
                   left, lapses>>

(* The configuration cannot be locked, or the new client not be started:   *)
(* there is no client until the next reconfiguration.                      *)
reconfigure_failed(installed) ==
    /\ Disturb
    /\ reconfigure = "install"
    /\ installed => setting
    /\ reconfigure' = "idle"
    /\ store' = IF installed THEN Protected(setting) ELSE store
    /\ mqtt' = IF installed THEN [mqtt EXCEPT !.enabled = setting] ELSE mqtt
    /\ UNCHANGED <<saved, setting, stored, queue, worker, handler, net, received, gone, lapses>>

-----------------------------------------------------------------------------
Crash ==
    /\ Disturb
    /\ setting' = stored
    /\ store' = [store EXCEPT !.protect = stored, !.mark = saved]
    /\ mqtt' = Started(saved, stored)
    /\ queue' = <<>>
    /\ worker' = Receiving
    /\ handler' = Quiet
    /\ reconfigure' = "idle"
    /\ net' = Offline
    /\ UNCHANGED <<saved, stored, received, gone, lapses>>

Faults ==
    \/ \E m \in Messages : sms_deleted(m)
    \/ sms_status_event
    \/ command_received
    \/ replay_cursor_store_failed
    \/ work_dropped
    \/ client_disconnects
    \/ outbox_expires
    \/ \E enabled \in BOOLEAN, ok \in BOOLEAN : gateway_settings_set_mqtt(enabled, ok)
    \/ \E enabled \in BOOLEAN : reconfigure_begin(enabled)
    \/ \E installed \in BOOLEAN : reconfigure_failed(installed)
    \/ Crash

Next ==
    \/ sms_received
    \/ Worker
    \/ ClientTask
    \/ reconfigure_stop
    \/ reconfigure_install
    \/ Faults

Spec == Init /\ [][Next]_vars

(* The tasks run, the library reconnects and resends, the broker answers,  *)
(* and a reconfiguration ends.                                             *)
Fairness ==
    /\ WF_vars(Worker)
    /\ WF_vars(client_connects)
    /\ WF_vars(handle_connected \/ handle_disconnected \/ handle_published)
    /\ WF_vars(broker_receives)
    /\ WF_vars(client_acknowledged)
    /\ WF_vars(reconfigure_stop)
    /\ WF_vars(reconfigure_install)

FairSpec == Spec /\ Fairness

-----------------------------------------------------------------------------
TypeOK ==
    /\ store.ids \subseteq Nat /\ store.next \in Nat \ {0} /\ store.mark \in Nat
    /\ saved \in Nat
    /\ setting \in BOOLEAN /\ stored \in BOOLEAN
    /\ mqtt.cursor \in Nat /\ mqtt.msg \in Nat /\ mqtt.enabled \in BOOLEAN
    /\ queue \in Seq([type : {"connected", "data", "event", "replay", "ack"}, msg : Nat])
    /\ net.outbox \in Seq([msg : Nat, pkt : PacketIds])
    /\ net.taken \in 0..Len(net.outbox)

(* Delivery is at least once (docs/mqtt.md): the cursor in flash never     *)
(* passes a message that the broker does not have, whatever is lost,       *)
(* repeated or replaced between the publication and its acknowledgement.   *)
(* The exception: a packet id that is still remembered although its        *)
(* publication is over (the client was replaced, the entry expired, or the *)
(* acknowledgement came too early) is used again for something else.       *)
CursorOnlyPassesPublished ==
    \A m \in 1..saved : m \in received \cup gone \/ "same_packet_id" \in lapses

(* While MQTT is enabled a received message is not pruned before it was    *)
(* published (docs/mqtt.md), also when the configuration changes, when     *)
(* the cursor cannot be saved and across resets.                           *)
NothingLost ==
    \A m \in 1..(store.next - 1) :
      m \in store.ids \cup received \cup gone \/ "same_packet_id" \in lapses

(* The store's protection follows the configuration, so that a gateway     *)
(* without MQTT does not fill up with messages it may not prune.  An       *)
(* acknowledgement that is handled after MQTT was switched off breaks it:  *)
(* replay_cursor_store switches the protection on again.                   *)
ProtectionFollowsConfig ==
    store.protect = mqtt.enabled \/ "late_ack" \in lapses

(* At-least-once delivery: the cursor is never ahead of the broker, and    *)
(* what it has yet to pass is still there to be published.                 *)
AtLeastOnce == CursorOnlyPassesPublished /\ NothingLost

(* Every message is published in the end, by the first attempt or by the   *)
(* watchdog's, when in the end there is a client and a link: also when its *)
(* acknowledgement came before the packet id was noted, was lost with the  *)
(* link, was dropped by the full queue, or could not be saved.             *)
EveryMessagePublished ==
    <>[](mqtt.client /\ net.up) =>
      \A m \in Messages :
        [](m \in store.ids => <>(m <= saved \/ m \notin store.ids))

(* A connected gateway listens to commands: CONNECTED leads to the         *)
(* subscriptions, unless the queue was full or the worker could not get    *)
(* the mutex; nothing repeats them before the next reconnect.              *)
ListensWhenConnected ==
    <>[](mqtt.client /\ net.up) => (<>[]net.subscribed \/ <>("unannounced" \in lapses))
=============================================================================
