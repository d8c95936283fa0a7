--------------------------- MODULE MqttReplayProofs ---------------------------
(***************************************************************************)
(* Proofs about MqttReplay for any number of messages, any capacity of the *)
(* store and the queues, any set of packet ids and any number of           *)
(* disturbances.                                                           *)
(***************************************************************************)
EXTENDS MqttReplay, WellFoundedInduction, SequenceTheorems, TLAPS

(* sms_store_next_after finds the first message after the cursor.          *)
LEMMA MinIn ==
    ASSUME NEW S \in SUBSET Nat, S # {}
    PROVE  Min(S) \in S /\ \A y \in S : Min(S) <= y
<1>1. \E x \in S : \A y \in S : ~(<<y, x>> \in OpToRel(<, Nat))
  BY NatLessThanWellFounded, WFMin
<1>2. PICK x \in S : \A y \in S : ~(<<y, x>> \in OpToRel(<, Nat))
  BY <1>1
<1>3. \A y \in S : ~(y < x)
  BY <1>2 DEF OpToRel
<1>4. x \in S /\ \A y \in S : x <= y
  BY <1>3
<1>5. \E z \in S : \A y \in S : z <= y
  BY <1>4
<1>6. QED
  BY <1>5 DEF Min

-----------------------------------------------------------------------------
(* The broker has the message, or it may be missing, or the behaviour has  *)
(* a packet id that was used again.                                        *)
Settled(m) == m \in received \cup gone \/ "same_packet_id" \in lapses

UpTo(n) == \A m \in 1..n : Settled(m)

(* What is settled stays so. *)
Grows == received \subseteq received' /\ gone \subseteq gone' /\ lapses \subseteq lapses'

(* So does a prefix of settled messages. *)
LEMMA SettledGrows ==
    ASSUME Grows
    PROVE  \A n : (Settled(n) => Settled(n)') /\ (UpTo(n) => UpTo(n)')
  BY DEF Grows, Settled, UpTo

StoreType ==
    /\ {"ids", "next", "protect", "mark"} \subseteq DOMAIN store
    /\ store.ids \in SUBSET Nat /\ store.next \in Nat \ {0} /\ store.mark \in Nat
    /\ \A m \in store.ids : 0 < m /\ m < store.next

MqttType ==
    /\ {"cursor", "msg", "pkt", "connected", "enabled", "client"} \subseteq DOMAIN mqtt
    /\ mqtt.cursor \in Nat /\ mqtt.msg \in Nat

WorkerType ==
    /\ {"pc", "msg", "pkt", "after"} \subseteq DOMAIN worker
    /\ worker.msg \in Nat
    /\ worker.after \in {"receive", "status"}

Entry == [msg : Nat, pkt : PacketIds]

NetType ==
    /\ {"up", "outbox", "taken", "subscribed"} \subseteq DOMAIN net
    /\ net.outbox \in Seq(Entry) /\ net.taken \in 0..Len(net.outbox)

WorkTypes == {"connected", "data", "event", "replay", "ack"}
Works == [type : WorkTypes, msg : Nat]

QueueType == queue \in Seq(Works)

(* The cursor in flash, the one in memory and the watermark of the store   *)
(* have only passed what is settled.                                       *)
CursorInv == saved \in Nat /\ UpTo(saved) /\ UpTo(mqtt.cursor) /\ UpTo(store.mark)

(* What was received is stored or settled, and only a gateway without MQTT *)
(* stores without protection.                                              *)
StoreInv ==
    /\ StoreType
    /\ \A m \in 1..(store.next - 1) : m \in store.ids \/ Settled(m)
    /\ store.protect \/ ~mqtt.enabled

(* All before the message in flight is settled, and the message itself     *)
(* when its acknowledgement has come.                                      *)
FlightInv ==
    /\ MqttType
    /\ \A m \in 1..(mqtt.msg - 1) : Settled(m)
    /\ (handler.ev = "published" /\ handler.pkt = mqtt.pkt /\ mqtt.msg # 0) => Settled(mqtt.msg)

(* The same of a message whose packet id is about to be noted. *)
WorkerInv ==
    /\ WorkerType
    /\ worker.pc = "record" =>
         /\ worker.msg # 0
         /\ \A m \in 1..(worker.msg - 1) : Settled(m)
         /\ (handler.ev = "published" /\ handler.pkt = worker.pkt) => Settled(worker.msg)
         /\ \A i \in 1..Len(net.outbox) :
              net.outbox[i].pkt = worker.pkt => net.outbox[i].msg = worker.msg

(* What the broker took it has. *)
NetInv ==
    /\ NetType
    /\ \A i \in 1..net.taken : net.outbox[i].msg \in received \cup {0}

(* An acknowledgement in the queue settles its message. *)
QueueInv ==
    /\ QueueType
    /\ \A i \in 1..Len(queue) : queue[i].type = "ack" => UpTo(queue[i].msg)

ReplayInv == CursorInv /\ StoreInv /\ FlightInv /\ WorkerInv /\ NetInv /\ QueueInv

-----------------------------------------------------------------------------
(* Adding to the queue. *)
LEMMA QueueAppend ==
    ASSUME QueueInv, Grows, NEW type \in WorkTypes,
           NEW m \in Nat, queue' \in {queue, Queued(Work(type, m))},
           type = "ack" => UpTo(m)
    PROVE  QueueInv'
<1>1. \A n : UpTo(n) => UpTo(n)'
  BY SettledGrows
<1>2. CASE queue' = queue
  BY <1>1, <1>2 DEF QueueInv, QueueType
<1>3. CASE queue' = Append(queue, Work(type, m))
  <2>1. Work(type, m).type = type /\ Work(type, m).msg = m
        /\ Work(type, m) \in Works
    BY DEF Work, Works
  <2>2. QueueType'
    BY <1>3, <2>1 DEF QueueInv, QueueType
  <2>3. ASSUME NEW i \in 1..Len(queue'), queue'[i].type = "ack"
        PROVE  \E n : n = queue'[i].msg /\ UpTo(n)
    BY <1>3, <2>1, <2>3 DEF QueueInv, QueueType
  <2>4. QED
    BY <1>1, <2>2, <2>3 DEF QueueInv
<1>4. QED
  BY <1>2, <1>3 DEF Queued

(* Taking the first work: an acknowledgement settles its message. *)
LEMMA QueueTail ==
    ASSUME QueueInv, Grows, queue # <<>>, queue' = Tail(queue)
    PROVE  /\ QueueInv'
           /\ Head(queue).msg \in Nat
           /\ Head(queue).type = "ack" => UpTo(Head(queue).msg)
<1>1. \A n : UpTo(n) => UpTo(n)'
  BY SettledGrows
<1>2. QueueType' /\ Head(queue).msg \in Nat
  <2>1. queue' \in Seq(Works) /\ Head(queue) \in Works
    BY DEF QueueInv, QueueType
  <2>2. QED
    BY <2>1 DEF QueueType, Works
<1>3. ASSUME NEW i \in 1..Len(queue') PROVE i + 1 \in 1..Len(queue) /\ queue'[i] = queue[i + 1]
  BY DEF QueueInv, QueueType
<1>4. ASSUME NEW i \in 1..Len(queue'), queue'[i].type = "ack"
      PROVE  \E n : n = queue'[i].msg /\ UpTo(n)
  BY <1>3, <1>4 DEF QueueInv
<1>5. 1 \in 1..Len(queue) /\ Head(queue) = queue[1]
  BY DEF QueueInv, QueueType
<1>6. QED
  BY <1>1, <1>2, <1>4, <1>5 DEF QueueInv

-----------------------------------------------------------------------------
(* The parts that a step leaves alone. *)
LEMMA CursorFrame ==
    ASSUME CursorInv, Grows, saved' = saved, mqtt'.cursor = mqtt.cursor,
           store'.mark = store.mark
    PROVE  CursorInv'
  BY SettledGrows DEF CursorInv, UpTo, Grows, Settled

(* The store and its protection. *)
LEMMA StoreFrame ==
    ASSUME StoreInv, Grows, store' = store, mqtt'.enabled = mqtt.enabled
    PROVE  StoreInv'
  BY DEF StoreInv, StoreType, Grows, Settled

(* The message in flight, when no acknowledgement passes the handler. *)
LEMMA FlightFrame ==
    ASSUME FlightInv, Grows, MqttType', mqtt'.msg = mqtt.msg, mqtt'.pkt = mqtt.pkt,
           handler' = handler \/ handler'.ev # "published"
    PROVE  FlightInv'
  BY DEF FlightInv, Grows, Settled

(* The worker, when no acknowledgement passes the handler. *)
LEMMA WorkerFrame ==
    ASSUME WorkerInv, Grows, worker' = worker, net'.outbox = net.outbox,
           handler' = handler \/ handler'.ev # "published"
    PROVE  WorkerInv'
  BY DEF WorkerInv, WorkerType, Grows, Settled

(* A worker that has no packet id to note. *)
LEMMA WorkerElsewhere ==
    ASSUME WorkerType', worker'.pc # "record"
    PROVE  WorkerInv'
  BY DEF WorkerInv

(* The outbox. *)
LEMMA NetFrame ==
    ASSUME NetInv, Grows, NetType', net'.outbox = net.outbox, net'.taken = net.taken
    PROVE  NetInv'
  BY DEF NetInv, Grows

(* publish_raw appends to it. *)
LEMMA NetAppend ==
    ASSUME NetInv, Grows, NEW n, {"up", "outbox", "taken", "subscribed"} \subseteq DOMAIN n,
           n.outbox = net.outbox, n.taken = net.taken,
           NEW m \in Nat, NEW pkt \in PacketIds, net' = Published(n, m, pkt)
    PROVE  /\ NetInv'
           /\ net'.outbox = Append(net.outbox, [msg |-> m, pkt |-> pkt])
<1>1. /\ {"up", "outbox", "taken", "subscribed"} \subseteq DOMAIN net'
      /\ net'.outbox = Append(net.outbox, [msg |-> m, pkt |-> pkt])
      /\ net'.taken = net.taken
  BY DEF Published
<1>2. [msg |-> m, pkt |-> pkt] \in Entry /\ net.outbox \in Seq(Entry)
      /\ net.taken \in 0..Len(net.outbox)
  BY DEF Entry, NetInv, NetType
<1>3. /\ net'.outbox \in Seq(Entry) /\ net'.taken \in 0..Len(net'.outbox)
      /\ \A i \in 1..net.taken : net'.outbox[i] = net.outbox[i]
  BY <1>1, <1>2
<1>4. QED
  BY <1>1, <1>3 DEF NetInv, NetType, Grows

(* So does everything that is not a received message. *)
LEMMA NetOther ==
    ASSUME NetInv, Grows, NEW n, {"up", "outbox", "taken", "subscribed"} \subseteq DOMAIN n,
           n.outbox = net.outbox, n.taken = net.taken, PublishOther(n)
    PROVE  NetInv'
<1>1. CASE net' = n
  <2>1. NetType'
    BY <1>1 DEF NetInv, NetType
  <2>2. QED
    BY <1>1, <2>1, NetFrame
<1>2. ASSUME NEW pkt \in Free, net' = Published(n, 0, pkt) PROVE NetInv'
  BY <1>2, NetAppend DEF Free
<1>3. QED
  BY <1>1, <1>2 DEF PublishOther

-----------------------------------------------------------------------------
(* A message is received, and may take the place of another. *)
LEMMA ReceiveStep ==
    ASSUME ReplayInv, sms_received
    PROVE  ReplayInv'
<1> DEFINE victims == IF Cardinality(store.ids) < Capacity THEN {} ELSE {Min(Prunable)}
<1>1. /\ store' = [store EXCEPT !.ids = (@ \ victims) \cup {store.next}, !.next = @ + 1]
      /\ gone' = IF mqtt.enabled THEN gone ELSE gone \cup victims
      /\ queue' = Queued(Work("replay", 0))
      /\ UNCHANGED <<saved, mqtt, worker, handler, net, received, lapses>>
      /\ Cardinality(store.ids) < Capacity \/ Prunable # {}
  BY DEF sms_received
<1>2. Grows
  BY <1>1 DEF Grows
<1>3. StoreInv /\ StoreType /\ CursorInv
  BY DEF ReplayInv, StoreInv
<1>4. \A v \in victims : v \in store.ids /\ (~mqtt.enabled \/ Settled(v))
  <2> SUFFICES ASSUME NEW v \in victims PROVE v \in store.ids /\ (~mqtt.enabled \/ Settled(v))
    OBVIOUS
  <2>1. v = Min(Prunable) /\ Prunable # {}
    BY <1>1
  <2>2. Prunable \in SUBSET Nat
    BY <1>3 DEF Prunable, StoreType
  <2>3. v \in Prunable
    BY <2>1, <2>2, MinIn
  <2>4. v \in store.ids /\ v \in Nat /\ 0 < v /\ (~store.protect \/ v <= store.mark)
    BY <1>3, <2>3 DEF Prunable, StoreType
  <2>5. QED
    BY <1>3, <2>4 DEF StoreInv, StoreType, CursorInv, UpTo
<1> HIDE DEF victims
<1>5. /\ {"ids", "next", "protect", "mark"} \subseteq DOMAIN store'
      /\ store'.ids = (store.ids \ victims) \cup {store.next}
      /\ store'.next = store.next + 1
      /\ store'.protect = store.protect /\ store'.mark = store.mark
  BY <1>1, <1>3 DEF StoreType
<1>6. StoreInv'
  <2>1. StoreType'
    BY <1>3, <1>5 DEF StoreType
  <2>2. ASSUME NEW m \in 1..(store'.next - 1) PROVE m \in store'.ids \/ Settled(m)'
    <3>1. CASE m = store.next
      BY <1>5, <3>1
    <3>2. CASE m # store.next
      <4>1. m \in store.ids \/ Settled(m)
        BY <1>3, <1>5, <3>2 DEF StoreInv, StoreType
      <4>2. m \in victims => Settled(m)'
        BY <1>1, <1>2, <1>4, SettledGrows DEF Settled
      <4>3. QED
        BY <1>2, <1>5, <4>1, <4>2, SettledGrows
    <3>3. QED
      BY <3>1, <3>2
  <2>3. store'.protect \/ ~mqtt'.enabled
    BY <1>1, <1>3, <1>5 DEF StoreInv
  <2>4. QED
    BY <2>1, <2>2, <2>3 DEF StoreInv
<1>7. CursorInv'
  BY <1>1, <1>2, <1>3, <1>5, CursorFrame
<1>8. FlightInv' /\ WorkerInv' /\ NetInv'
  <2>1. MqttType' /\ NetType'
    BY <1>1 DEF ReplayInv, FlightInv, MqttType, NetInv, NetType
  <2>2. QED
    BY <1>1, <1>2, <2>1, FlightFrame, WorkerFrame, NetFrame DEF ReplayInv
<1>9. QueueInv'
  <2>1. "replay" \in WorkTypes /\ 0 \in Nat
    BY DEF WorkTypes
  <2>2. QED
    BY <1>1, <1>2, <2>1, QueueAppend DEF ReplayInv
<1>10. QED
  BY <1>6, <1>7, <1>8, <1>9 DEF ReplayInv

(* What only adds to the queue: sms_event_callback and MQTT_EVENT_DATA. *)
LEMMA QueueOnlyStep ==
    ASSUME ReplayInv, sms_status_event \/ command_received
    PROVE  ReplayInv'
<1>1. /\ queue' \in {Queued(Work("event", 0)), Queued(Work("data", 0))}
      /\ UNCHANGED <<store, saved, mqtt, worker, handler, net, received, gone, lapses>>
  BY DEF sms_status_event, command_received
<1>2. Grows
  BY <1>1 DEF Grows
<1>3. QueueInv'
  <2>1. {"event", "data"} \subseteq WorkTypes /\ 0 \in Nat
    BY DEF WorkTypes
  <2>2. QED
    BY <1>1, <1>2, <2>1, QueueAppend DEF ReplayInv
<1>4. MqttType' /\ NetType'
  BY <1>1 DEF ReplayInv, FlightInv, MqttType, NetInv, NetType
<1>5. QED
  BY <1>1, <1>2, <1>3, <1>4, CursorFrame, StoreFrame, FlightFrame, WorkerFrame, NetFrame
     DEF ReplayInv

(* The operator deletes a message, which may then be missing. *)
LEMMA DeleteStep ==
    ASSUME ReplayInv, NEW m \in Messages, sms_deleted(m)
    PROVE  ReplayInv'
<1>1. /\ store' = [store EXCEPT !.ids = @ \ {m}] /\ gone' = gone \cup {m}
      /\ UNCHANGED <<saved, mqtt, queue, worker, handler, net, received, lapses>>
  BY DEF sms_deleted
<1>2. Grows
  BY <1>1 DEF Grows
<1>3. StoreType
  BY DEF ReplayInv, StoreInv
<1>4. /\ {"ids", "next", "protect", "mark"} \subseteq DOMAIN store'
      /\ store'.ids = store.ids \ {m} /\ store'.next = store.next
      /\ store'.protect = store.protect /\ store'.mark = store.mark
  BY <1>1, <1>3 DEF StoreType
<1>5. StoreInv'
  <2>1. StoreType'
    BY <1>3, <1>4 DEF StoreType
  <2>2. \A n \in 1..(store'.next - 1) : n \in store'.ids \/ Settled(n)'
    BY <1>1, <1>4 DEF ReplayInv, StoreInv, Settled
  <2>3. QED
    BY <1>1, <1>4, <2>1, <2>2 DEF ReplayInv, StoreInv
<1>6. MqttType' /\ NetType'
  BY <1>1 DEF ReplayInv, FlightInv, MqttType, NetInv, NetType
<1>7. QueueInv'
  <2>1. "event" \in WorkTypes /\ 0 \in Nat
    BY DEF WorkTypes
  <2>2. QED
    BY <1>1, <1>2, <2>1, QueueAppend DEF ReplayInv
<1>8. QED
  BY <1>1, <1>2, <1>4, <1>5, <1>6, <1>7, CursorFrame, FlightFrame, WorkerFrame, NetFrame
     DEF ReplayInv

(* The worker's places without a packet id. *)
LEMMA WorkerPlaces ==
    ASSUME WorkerType
    PROVE  /\ {"pc", "msg", "pkt", "after"} \subseteq DOMAIN Receiving
           /\ Receiving.pc = "receive" /\ Receiving.msg = 0 /\ Receiving.after = "receive"
           /\ {"pc", "msg", "pkt", "after"} \subseteq DOMAIN Scanning
           /\ Scanning.pc = "scan" /\ Scanning.msg = 0 /\ Scanning.after = "receive"
           /\ LET w == [Receiving EXCEPT !.pc = worker.after]
              IN  /\ {"pc", "msg", "pkt", "after"} \subseteq DOMAIN w
                  /\ w.pc # "record" /\ w.msg = 0 /\ w.after = "receive"
           /\ LET w == [Scanning EXCEPT !.after = "status"]
              IN  /\ {"pc", "msg", "pkt", "after"} \subseteq DOMAIN w
                  /\ w.pc = "scan" /\ w.msg = 0 /\ w.after = "status"
  BY DEF Receiving, Scanning, WorkerType

(* Work that publishes, or starts a replay, or is dropped. *)
LEMMA WorkStep ==
    ASSUME ReplayInv,
           work_connected \/ handle_data_work \/ publish_sms_event \/ work_replay \/ work_dropped
    PROVE  ReplayInv'
<1> DEFINE n == [net EXCEPT !.subscribed = net.up /\ mqtt.client]
<1>1. /\ queue # <<>> /\ queue' = Tail(queue) /\ worker.pc = "receive"
      /\ worker' \in {worker, Scanning}
      /\ UNCHANGED <<store, saved, mqtt, handler, received, gone>> /\ lapses \subseteq lapses'
  BY DEF work_connected, handle_data_work, publish_sms_event, work_replay, work_dropped, Taking
<1>2. PublishOther(n) \/ PublishOther(net) \/ net' = net
  BY DEF work_connected, handle_data_work, publish_sms_event, work_replay, work_dropped
<1>3. Grows
  BY <1>1 DEF Grows
<1>4. NetType /\ NetInv /\ WorkerType
  BY DEF ReplayInv, NetInv, WorkerInv
<1>5. NetInv'
  <2>1. CASE PublishOther(n)
    <3>1. /\ {"up", "outbox", "taken", "subscribed"} \subseteq DOMAIN n
          /\ n.outbox = net.outbox /\ n.taken = net.taken
      BY <1>4 DEF NetType
    <3>2. QED
      BY <1>3, <1>4, <2>1, <3>1, NetOther
  <2>2. CASE PublishOther(net)
    BY <1>3, <1>4, <2>2, NetOther DEF NetType
  <2>3. CASE net' = net
    <3>1. NetType'
      BY <1>4, <2>3 DEF NetType
    <3>2. QED
      BY <1>3, <1>4, <2>3, <3>1, NetFrame
  <2>4. QED
    BY <1>2, <2>1, <2>2, <2>3
<1>6. WorkerInv'
  <2>1. WorkerType' /\ worker'.pc # "record"
    BY <1>1, <1>4, WorkerPlaces DEF WorkerType
  <2>2. QED
    BY <2>1, WorkerElsewhere
<1>7. QueueInv'
  BY <1>1, <1>3, QueueTail DEF ReplayInv
<1>8. MqttType'
  BY <1>1 DEF ReplayInv, FlightInv, MqttType
<1>9. QED
  BY <1>1, <1>3, <1>5, <1>6, <1>7, <1>8, CursorFrame, StoreFrame, FlightFrame DEF ReplayInv

-----------------------------------------------------------------------------
(* Nothing is in flight. *)
LEMMA NotInFlightFields ==
    ASSUME MqttType
    PROVE  LET q == NotInFlight(mqtt)
           IN  /\ {"cursor", "msg", "pkt", "connected", "enabled", "client"} \subseteq DOMAIN q
               /\ q.cursor = mqtt.cursor /\ q.msg = 0 /\ q.enabled = mqtt.enabled
  BY DEF NotInFlight, MqttType

(* A message that is not in flight needs nothing. *)
LEMMA FlightNone ==
    ASSUME MqttType', mqtt'.msg = 0
    PROVE  FlightInv'
  BY DEF FlightInv

(* handle_replay_ack: the cursor moves to the acknowledged message, in     *)
(* flash only when saving it fails after the write.                        *)
LEMMA AckStep ==
    ASSUME ReplayInv, handle_replay_ack \/ replay_cursor_store_failed
    PROVE  ReplayInv'
<1> DEFINE msg == Head(queue).msg
<1>1. /\ queue # <<>> /\ queue' = Tail(queue) /\ Head(queue).type = "ack"
      /\ worker.pc = "receive" /\ worker' \in {worker, Scanning}
      /\ UNCHANGED <<handler, net, received, gone>> /\ lapses \subseteq lapses'
  BY DEF handle_replay_ack, replay_cursor_store_failed, Taking
<1>2. Grows
  BY <1>1 DEF Grows
<1>3. QueueInv' /\ msg \in Nat /\ UpTo(msg)
  BY <1>1, <1>2, QueueTail DEF ReplayInv
<1>4. NetType /\ NetInv /\ WorkerType /\ MqttType /\ StoreInv /\ StoreType /\ CursorInv /\ FlightInv
  BY DEF ReplayInv, NetInv, WorkerInv, FlightInv, StoreInv
<1>5. WorkerInv'
  <2>1. WorkerType' /\ worker'.pc # "record"
    BY <1>1, <1>4, WorkerPlaces DEF WorkerType
  <2>2. QED
    BY <2>1, WorkerElsewhere
<1>6. NetInv'
  <2>1. NetType'
    BY <1>1, <1>4 DEF NetType
  <2>2. QED
    BY <1>1, <1>2, <1>4, <2>1, NetFrame
<1>7. CASE /\ saved' = msg /\ mqtt' = [NotInFlight(mqtt) EXCEPT !.cursor = msg]
           /\ store' = [store EXCEPT !.protect = TRUE, !.mark = msg]
  <2> HIDE DEF msg
  <2>1. /\ {"cursor", "msg", "pkt", "connected", "enabled", "client"} \subseteq DOMAIN mqtt'
        /\ mqtt'.cursor = msg /\ mqtt'.msg = 0 /\ mqtt'.enabled = mqtt.enabled
    BY <1>4, <1>7, NotInFlightFields
  <2>2. /\ {"ids", "next", "protect", "mark"} \subseteq DOMAIN store'
        /\ store'.ids = store.ids /\ store'.next = store.next
        /\ store'.protect = TRUE /\ store'.mark = msg
    BY <1>4, <1>7 DEF StoreType
  <2>3. CursorInv'
    <3>1. \A m \in 1..msg : Settled(m)'
      BY <1>2, <1>3, SettledGrows DEF UpTo
    <3>2. QED
      BY <1>3, <1>7, <2>1, <2>2, <3>1 DEF CursorInv, UpTo
  <2>4. StoreInv'
    <3>1. StoreType'
      BY <1>3, <1>4, <2>2 DEF StoreType
    <3>2. \A m \in 1..(store'.next - 1) : m \in store'.ids \/ Settled(m)'
      BY <1>2, <1>4, <2>2, SettledGrows DEF StoreInv
    <3>3. QED
      BY <2>2, <3>1, <3>2 DEF StoreInv
  <2>5. FlightInv'
    <3>1. MqttType'
      BY <1>3, <2>1 DEF MqttType
    <3>2. QED
      BY <2>1, <3>1, FlightNone
  <2>6. QED
    BY <1>3, <1>5, <1>6, <2>3, <2>4, <2>5 DEF ReplayInv
<1>8. CASE UNCHANGED <<saved, mqtt, store>>
  <2>1. MqttType'
    BY <1>4, <1>8 DEF MqttType
  <2>2. QED
    BY <1>1, <1>2, <1>3, <1>4, <1>5, <1>6, <1>8, <2>1, CursorFrame, StoreFrame, FlightFrame
       DEF ReplayInv
<1>9. CASE saved' \in {saved, msg} /\ mqtt' = NotInFlight(mqtt) /\ store' = store
  <2> HIDE DEF msg
  <2>1. /\ MqttType' /\ mqtt'.msg = 0 /\ mqtt'.enabled = mqtt.enabled
        /\ mqtt'.cursor = mqtt.cursor
    BY <1>4, <1>9, NotInFlightFields DEF MqttType
  <2>2. FlightInv'
    BY <2>1, FlightNone
  <2>3. StoreInv'
    BY <1>2, <1>4, <1>9, <2>1, StoreFrame
  <2>4. CursorInv'
    <3>1. \A m \in 1..saved' : Settled(m)'
      BY <1>2, <1>3, <1>4, <1>9, SettledGrows DEF UpTo, CursorInv
    <3>2. QED
      BY <1>2, <1>3, <1>4, <1>9, <2>1, <3>1, SettledGrows DEF CursorInv, UpTo
  <2>5. QED
    BY <1>3, <1>5, <1>6, <2>2, <2>3, <2>4 DEF ReplayInv
<1>10. QED
  BY <1>7, <1>8, <1>9 DEF handle_replay_ack, replay_cursor_store_failed

(* The watchdog gives up what is in flight. *)
LEMMA IdleStep ==
    ASSUME ReplayInv, worker_idle
    PROVE  ReplayInv'
<1>1. /\ mqtt' = NotInFlight(mqtt) /\ worker' = [Scanning EXCEPT !.after = "status"]
      /\ UNCHANGED <<store, saved, queue, handler, net, received, gone, lapses>>
  BY DEF worker_idle
<1>2. Grows
  BY <1>1 DEF Grows
<1>3. MqttType /\ WorkerType /\ NetType
  BY DEF ReplayInv, FlightInv, WorkerInv, NetInv
<1>4. MqttType' /\ mqtt'.msg = 0 /\ mqtt'.enabled = mqtt.enabled /\ mqtt'.cursor = mqtt.cursor
  BY <1>1, <1>3, NotInFlightFields DEF MqttType
<1>5. WorkerType' /\ worker'.pc # "record" /\ NetType'
  BY <1>1, <1>3, WorkerPlaces DEF WorkerType, NetType
<1>6. QueueInv'
  <2>1. "event" \in WorkTypes /\ 0 \in Nat
    BY DEF WorkTypes
  <2>2. QED
    BY <1>1, <1>2, <2>1, QueueAppend DEF ReplayInv
<1>7. QED
  BY <1>1, <1>2, <1>4, <1>5, <1>6, CursorFrame, StoreFrame, FlightNone, WorkerElsewhere,
     NetFrame DEF ReplayInv

(* replay_next_inbound publishes the first message after the cursor: all   *)
(* before it is settled, and its packet id is no other's.                  *)
LEMMA ReplayStep ==
    ASSUME ReplayInv, replay_next_inbound
    PROVE  ReplayInv'
<1>1. UNCHANGED <<store, saved, mqtt, queue, handler, received, gone, lapses>>
  BY DEF replay_next_inbound
<1>2. Grows
  BY <1>1 DEF Grows
<1>3. /\ MqttType /\ WorkerType /\ NetType /\ NetInv /\ StoreInv /\ StoreType /\ CursorInv
  BY DEF ReplayInv, FlightInv, WorkerInv, NetInv, StoreInv
<1>4. QueueInv' /\ CursorInv' /\ StoreInv' /\ FlightInv'
  <2>1. "event" \in WorkTypes /\ 0 \in Nat /\ MqttType'
    BY <1>1, <1>3 DEF WorkTypes, MqttType
  <2>2. QED
    BY <1>1, <1>2, <2>1, QueueAppend, CursorFrame, StoreFrame, FlightFrame DEF ReplayInv
<1>5. ASSUME NEW pkt \in Free, Pending # {}, net' = Published(net, Min(Pending), pkt),
             worker' = [worker EXCEPT !.pc = "record", !.msg = Min(Pending), !.pkt = pkt]
      PROVE  WorkerInv' /\ NetInv'
  <2> DEFINE m == Min(Pending)
  <2>1. Pending \in SUBSET Nat
    BY <1>3 DEF Pending, StoreType
  <2>2. m \in Pending /\ \A y \in Pending : m <= y
    BY <1>5, <2>1, MinIn
  <2>3. m \in Nat /\ m \in store.ids /\ m # 0 /\ m < store.next /\ m > mqtt.cursor
    BY <1>3, <2>2 DEF Pending, StoreType
  <2>4. ASSUME NEW n \in 1..(m - 1) PROVE Settled(n)
    <3>1. CASE n <= mqtt.cursor
      BY <1>3, <3>1 DEF CursorInv, UpTo, MqttType
    <3>2. CASE ~(n <= mqtt.cursor)
      <4>1. n \notin store.ids
        BY <1>3, <2>2, <2>3, <3>2 DEF Pending, MqttType
      <4>2. n \in 1..(store.next - 1)
        BY <1>3, <2>3 DEF StoreType
      <4>3. QED
        BY <1>3, <4>1, <4>2 DEF StoreInv
    <3>3. QED
      BY <3>1, <3>2
  <2> HIDE DEF m
  <2>5. /\ {"pc", "msg", "pkt", "after"} \subseteq DOMAIN worker'
        /\ worker'.pc = "record" /\ worker'.msg = m /\ worker'.pkt = pkt
        /\ worker'.after = worker.after
    BY <1>3, <1>5 DEF WorkerType, m
  <2>6. /\ pkt \in PacketIds /\ pkt # handler.pkt
        /\ \A i \in 1..Len(net.outbox) : net.outbox[i].pkt # pkt
    <3>1. \A i \in 1..Len(net.outbox) : net.outbox[i] \in Range(net.outbox)
      BY <1>3 DEF NetType, Range
    <3>2. QED
      BY <3>1 DEF Free
  <2>7. NetInv' /\ net'.outbox = Append(net.outbox, [msg |-> m, pkt |-> pkt])
    BY <1>2, <1>3, <1>5, <2>3, <2>6, NetAppend DEF NetType, m
  <2>8. \A i \in 1..Len(net'.outbox) : net'.outbox[i].pkt = pkt => net'.outbox[i].msg = m
    BY <1>3, <2>6, <2>7 DEF NetType
  <2>9. \A n \in 1..(worker'.msg - 1) : Settled(n)'
    BY <1>2, <2>4, <2>5, SettledGrows
  <2>10. WorkerType'
    BY <1>3, <2>3, <2>5 DEF WorkerType
  <2>11. QED
    BY <1>1, <2>3, <2>5, <2>6, <2>7, <2>8, <2>9, <2>10 DEF WorkerInv
<1>6. CASE worker' = [Receiving EXCEPT !.pc = worker.after] /\ net' = net
  <2>1. WorkerType' /\ worker'.pc # "record" /\ NetType'
    BY <1>3, <1>6, WorkerPlaces DEF WorkerType, NetType
  <2>2. QED
    BY <1>2, <1>3, <1>4, <1>6, <2>1, WorkerElsewhere, NetFrame DEF ReplayInv
<1>7. QED
  BY <1>4, <1>5, <1>6 DEF ReplayInv, replay_next_inbound

(* The queue stays. *)
LEMMA QueueFrame ==
    ASSUME QueueInv, Grows, queue' = queue
    PROVE  QueueInv'
<1>1. "event" \in WorkTypes /\ 0 \in Nat
  BY DEF WorkTypes
<1>2. QED
  BY <1>1, QueueAppend

(* publish_inbound_replay notes the packet id; the acknowledgement may be  *)
(* there already.                                                          *)
LEMMA NoteStep ==
    ASSUME ReplayInv, publish_inbound_replay
    PROVE  ReplayInv'
<1>1. /\ worker.pc = "record" /\ mqtt' = [mqtt EXCEPT !.msg = worker.msg, !.pkt = worker.pkt]
      /\ worker' = [Receiving EXCEPT !.pc = worker.after]
      /\ UNCHANGED <<store, saved, queue, handler, net, received, gone, lapses>>
  BY DEF publish_inbound_replay
<1>2. Grows
  BY <1>1 DEF Grows
<1>3. MqttType /\ WorkerType /\ NetType /\ WorkerInv
  BY DEF ReplayInv, FlightInv, WorkerInv, NetInv
<1>4. /\ {"cursor", "msg", "pkt", "connected", "enabled", "client"} \subseteq DOMAIN mqtt'
      /\ mqtt'.cursor = mqtt.cursor /\ mqtt'.enabled = mqtt.enabled
      /\ mqtt'.msg = worker.msg /\ mqtt'.pkt = worker.pkt
  BY <1>1, <1>3 DEF MqttType
<1>5. FlightInv'
  BY <1>1, <1>3, <1>4 DEF FlightInv, MqttType, WorkerInv, WorkerType, Settled
<1>6. WorkerType' /\ worker'.pc # "record" /\ NetType'
  BY <1>1, <1>3, WorkerPlaces DEF WorkerType, NetType
<1>7. QED
  BY <1>1, <1>2, <1>4, <1>5, <1>6, CursorFrame, StoreFrame, WorkerElsewhere, NetFrame,
     QueueFrame DEF ReplayInv

(* The status that ends an idle round. *)
LEMMA StatusStep ==
    ASSUME ReplayInv, publish_status
    PROVE  ReplayInv'
<1>1. /\ PublishOther(net) /\ worker' = Receiving
      /\ UNCHANGED <<store, saved, mqtt, queue, handler, received, gone, lapses>>
  BY DEF publish_status
<1>2. Grows
  BY <1>1 DEF Grows
<1>3. MqttType' /\ WorkerType /\ NetType
  BY <1>1 DEF ReplayInv, FlightInv, MqttType, WorkerInv, NetInv
<1>4. NetInv'
  BY <1>1, <1>2, <1>3, NetOther DEF NetType, ReplayInv
<1>5. WorkerType' /\ worker'.pc # "record"
  BY <1>1, <1>3, WorkerPlaces DEF WorkerType
<1>6. QED
  BY <1>1, <1>2, <1>3, <1>4, <1>5, CursorFrame, StoreFrame, FlightFrame, WorkerElsewhere,
     QueueFrame DEF ReplayInv

-----------------------------------------------------------------------------
(* The link comes and goes. *)
LEMMA LinkStep ==
    ASSUME ReplayInv, client_connects \/ client_disconnects
    PROVE  ReplayInv'
<1>1. UNCHANGED <<store, saved, mqtt, queue, worker, received, gone, lapses>>
  BY DEF client_connects, client_disconnects
<1>2. Grows
  BY <1>1 DEF Grows
<1>3. MqttType' /\ NetType /\ NetInv
  BY <1>1 DEF ReplayInv, FlightInv, MqttType, NetInv
<1>4. handler'.ev # "published"
  BY DEF client_connects, client_disconnects, Passes, Quiet
<1>5. /\ {"up", "outbox", "taken", "subscribed"} \subseteq DOMAIN net'
      /\ net'.outbox = net.outbox /\ net'.taken \in {0, net.taken}
  <2>1. CASE client_connects
    BY <1>3, <2>1 DEF client_connects, NetType
  <2>2. CASE client_disconnects
    BY <1>3, <2>2 DEF client_disconnects, NetType
  <2>3. QED
    BY <2>1, <2>2
<1>6. NetInv'
  BY <1>1, <1>3, <1>5 DEF NetInv, NetType
<1>7. QED
  BY <1>1, <1>2, <1>3, <1>4, <1>5, <1>6, CursorFrame, StoreFrame, FlightFrame, WorkerFrame,
     QueueFrame DEF ReplayInv

(* The broker takes the next entry of the outbox. *)
LEMMA BrokerStep ==
    ASSUME ReplayInv, broker_receives
    PROVE  ReplayInv'
<1>1. /\ net' = [net EXCEPT !.taken = @ + 1] /\ net.taken < Len(net.outbox)
      /\ received' = received \cup ({net.outbox[net.taken + 1].msg} \ {0})
      /\ UNCHANGED <<store, saved, mqtt, queue, worker, handler, gone, lapses>>
  BY DEF broker_receives
<1>2. Grows
  BY <1>1 DEF Grows
<1>3. MqttType' /\ NetType /\ NetInv
  BY <1>1 DEF ReplayInv, FlightInv, MqttType, NetInv
<1>4. /\ {"up", "outbox", "taken", "subscribed"} \subseteq DOMAIN net'
      /\ net'.outbox = net.outbox /\ net'.taken = net.taken + 1
  BY <1>1, <1>3 DEF NetType
<1>5. NetInv'
  <2>1. NetType'
    BY <1>1, <1>3, <1>4 DEF NetType
  <2>2. ASSUME NEW i \in 1..net'.taken PROVE net'.outbox[i].msg \in received' \cup {0}
    <3>1. CASE i = net.taken + 1
      BY <1>1, <1>4, <3>1
    <3>2. CASE i # net.taken + 1
      <4>1. i \in 1..net.taken
        BY <1>3, <1>4, <3>2 DEF NetType
      <4>2. QED
        BY <1>1, <1>3, <1>4, <4>1 DEF NetInv
    <3>3. QED
      BY <3>1, <3>2
  <2>3. QED
    BY <2>1, <2>2 DEF NetInv
<1>6. QED
  BY <1>1, <1>2, <1>3, <1>4, <1>5, CursorFrame, StoreFrame, FlightFrame, WorkerFrame,
     QueueFrame DEF ReplayInv

(* The acknowledgement of the first entry reaches the handler: when its    *)
(* packet id is the one in flight, or the one about to be noted, it is     *)
(* that message's, or the id was used again.                               *)
LEMMA AcknowledgedStep ==
    ASSUME ReplayInv, client_acknowledged
    PROVE  ReplayInv'
<1> DEFINE o == Head(net.outbox)
<1>1. /\ net.taken > 0 /\ net' = [net EXCEPT !.outbox = Tail(@), !.taken = @ - 1]
      /\ handler' = Passes("published", o.pkt)
      /\ lapses' = IF o.pkt = mqtt.pkt /\ o.msg # mqtt.msg
                   THEN lapses \cup {"same_packet_id"} ELSE lapses
      /\ UNCHANGED <<store, saved, mqtt, queue, worker, received, gone>>
  BY DEF client_acknowledged
<1>2. Grows
  BY <1>1 DEF Grows
<1>3. MqttType' /\ MqttType /\ NetType /\ NetInv /\ WorkerInv /\ WorkerType /\ FlightInv
  BY <1>1 DEF ReplayInv, FlightInv, MqttType, NetInv, WorkerInv
<1>4. /\ net.outbox \in Seq(Entry) /\ net.outbox # <<>> /\ 1 \in 1..Len(net.outbox)
      /\ 1 \in 1..net.taken /\ o = net.outbox[1] /\ net.taken \in Nat
      /\ net.taken <= Len(net.outbox)
  BY <1>1, <1>3 DEF NetType
<1>5. o.msg \in received \cup {0}
  BY <1>3, <1>4 DEF NetInv
<1> HIDE DEF o
<1>6. /\ {"up", "outbox", "taken", "subscribed"} \subseteq DOMAIN net'
      /\ net'.outbox = Tail(net.outbox) /\ net'.taken = net.taken - 1
  BY <1>1, <1>3 DEF NetType
<1>7. /\ net'.outbox \in Seq(Entry) /\ Len(net'.outbox) = Len(net.outbox) - 1
      /\ \A i \in 1..Len(net'.outbox) :
           i + 1 \in 1..Len(net.outbox) /\ net'.outbox[i] = net.outbox[i + 1]
  BY <1>4, <1>6
<1>8. NetInv'
  <2>1. net'.taken \in 0..Len(net'.outbox)
    BY <1>1, <1>4, <1>6, <1>7
  <2>2. \A i \in 1..net'.taken : i + 1 \in 1..net.taken /\ i \in 1..Len(net'.outbox)
    BY <1>1, <1>4, <1>6, <1>7
  <2>3. \A i \in 1..net'.taken : net'.outbox[i].msg \in received' \cup {0}
    BY <1>1, <1>3, <1>7, <2>2 DEF NetInv
  <2>4. QED
    BY <1>6, <1>7, <2>1, <2>3 DEF NetInv, NetType
<1>9. handler'.ev = "published" => handler'.pkt = o.pkt
  BY <1>1 DEF Passes, Quiet
<1>10. FlightInv'
  <2>1. \A m \in 1..(mqtt'.msg - 1) : Settled(m)'
    BY <1>1, <1>2, <1>3, SettledGrows DEF FlightInv
  <2>2. (o.pkt = mqtt.pkt /\ mqtt.msg # 0) => Settled(mqtt.msg)'
    BY <1>1, <1>5 DEF Settled
  <2>3. QED
    BY <1>1, <1>3, <1>9, <2>1, <2>2 DEF FlightInv, Settled
<1>11. WorkerInv'
  <2>1. CASE worker.pc # "record"
    BY <1>1, <1>3, <2>1 DEF WorkerInv, WorkerType
  <2>2. CASE worker.pc = "record"
    <3>1. o.pkt = worker.pkt => Settled(worker.msg)
      BY <1>3, <1>4, <1>5, <2>2 DEF WorkerInv, Settled
    <3>2. \A m \in 1..(worker.msg - 1) : Settled(m)'
      BY <1>2, <1>3, <2>2, SettledGrows DEF WorkerInv
    <3>3. \A i \in 1..Len(net'.outbox) :
            net'.outbox[i].pkt = worker.pkt => net'.outbox[i].msg = worker.msg
      BY <1>3, <1>7, <2>2 DEF WorkerInv
    <3>4. WorkerType' /\ worker'.msg # 0
      BY <1>1, <1>3, <2>2 DEF WorkerInv, WorkerType
    <3>5. o.pkt = worker.pkt => Settled(worker.msg)'
      BY <1>1, <3>1 DEF Settled
    <3>6. QED
      BY <1>1, <1>9, <3>2, <3>3, <3>4, <3>5 DEF WorkerInv, Settled
  <2>3. QED
    BY <2>1, <2>2
<1>12. QED
  BY <1>1, <1>2, <1>3, <1>8, <1>10, <1>11, CursorFrame, StoreFrame, QueueFrame DEF ReplayInv

(* A sequence without one of its elements. *)
LEMMA RemoveAtFacts ==
    ASSUME NEW S, NEW q \in Seq(S), NEW k \in 1..Len(q)
    PROVE  /\ RemoveAt(q, k) \in Seq(S) /\ Len(RemoveAt(q, k)) = Len(q) - 1
           /\ \A i \in 1..(k - 1) : RemoveAt(q, k)[i] = q[i]
           /\ \A i \in k..(Len(q) - 1) : RemoveAt(q, k)[i] = q[i + 1]
<1> DEFINE a == SubSeq(q, 1, k - 1)
           b == SubSeq(q, k + 1, Len(q))
<1>1. Len(q) \in Nat /\ k \in Nat /\ 0 < k /\ k <= Len(q)
  OBVIOUS
<1>2. a \in Seq(S) /\ Len(a) = k - 1 /\ \A i \in 1..(k - 1) : a[i] = q[i]
  <2>1. \A i \in 1..(k - 1) : q[i] \in S
    BY <1>1
  <2>2. /\ a \in Seq(S) /\ Len(a) = IF 1 <= k - 1 THEN (k - 1) - 1 + 1 ELSE 0
        /\ \A i \in 1..((k - 1) - 1 + 1) : a[i] = q[1 + i - 1]
    BY <1>1, <2>1, SubSeqProperties
  <2> HIDE DEF a
  <2>3. Len(a) = k - 1
    BY <1>1, <2>2
  <2>4. ASSUME NEW i \in 1..(k - 1) PROVE a[i] = q[i]
    <3>1. i \in 1..((k - 1) - 1 + 1) /\ 1 + i - 1 = i
      BY <1>1
    <3>2. QED
      BY <2>2, <3>1
  <2>5. QED
    BY <2>2, <2>3, <2>4
<1>3. b \in Seq(S) /\ Len(b) = Len(q) - k /\ \A i \in 1..(Len(q) - k) : b[i] = q[k + i]
  <2>1. \A i \in (k + 1)..Len(q) : q[i] \in S
    BY <1>1
  <2>2. /\ b \in Seq(S) /\ Len(b) = IF k + 1 <= Len(q) THEN Len(q) - (k + 1) + 1 ELSE 0
        /\ \A i \in 1..(Len(q) - (k + 1) + 1) : b[i] = q[(k + 1) + i - 1]
    BY <1>1, <2>1, SubSeqProperties
  <2> HIDE DEF b
  <2>3. QED
    BY <1>1, <2>2
<1>4. RemoveAt(q, k) = a \o b
  BY DEF RemoveAt
<1> HIDE DEF a, b
<1>5. /\ a \o b \in Seq(S) /\ Len(a \o b) = Len(a) + Len(b)
      /\ \A i \in 1..(Len(a) + Len(b)) :
           (a \o b)[i] = IF i <= Len(a) THEN a[i] ELSE b[i - Len(a)]
  BY <1>2, <1>3, ConcatProperties
<1>6. ASSUME NEW i \in 1..(k - 1) PROVE (a \o b)[i] = q[i]
  BY <1>1, <1>2, <1>3, <1>5
<1>7. ASSUME NEW i \in k..(Len(q) - 1) PROVE (a \o b)[i] = q[i + 1]
  <2>1. (a \o b)[i] = b[i - (k - 1)] /\ i - (k - 1) \in 1..(Len(q) - k)
    BY <1>1, <1>2, <1>3, <1>5
  <2>2. b[i - (k - 1)] = q[k + (i - (k - 1))] /\ k + (i - (k - 1)) = i + 1
    BY <1>1, <1>3, <2>1
  <2>3. QED
    BY <2>1, <2>2
<1>8. QED
  BY <1>1, <1>2, <1>3, <1>4, <1>5, <1>6, <1>7

(* The library gives up an entry that the broker has not taken. *)
LEMMA ExpireStep ==
    ASSUME ReplayInv, outbox_expires
    PROVE  ReplayInv'
<1> DEFINE k == net.taken + 1
           q == net.outbox
<1>1. /\ Len(q) > net.taken /\ net' = [net EXCEPT !.outbox = RemoveAt(@, k)]
      /\ UNCHANGED <<store, saved, mqtt, queue, worker, handler, received, gone, lapses>>
  BY DEF outbox_expires
<1>2. Grows
  BY <1>1 DEF Grows
<1>3. MqttType' /\ NetType /\ NetInv /\ WorkerInv
  BY <1>1 DEF ReplayInv, FlightInv, MqttType, NetInv
<1>4. /\ {"up", "outbox", "taken", "subscribed"} \subseteq DOMAIN net'
      /\ net'.outbox = RemoveAt(q, k) /\ net'.taken = net.taken
  BY <1>1, <1>3 DEF NetType
<1>5. q \in Seq(Entry) /\ k \in 1..Len(q) /\ net.taken \in Nat /\ Len(q) \in Nat
  BY <1>1, <1>3 DEF NetType
<1> HIDE DEF k, q
<1>6. /\ RemoveAt(q, k) \in Seq(Entry) /\ Len(RemoveAt(q, k)) = Len(q) - 1
      /\ \A i \in 1..(k - 1) : RemoveAt(q, k)[i] = q[i]
      /\ \A i \in k..(Len(q) - 1) : RemoveAt(q, k)[i] = q[i + 1]
  BY <1>5, RemoveAtFacts
<1>7. NetInv'
  <2>1. net'.taken \in 0..Len(net'.outbox) /\ k - 1 = net.taken
    BY <1>1, <1>4, <1>5, <1>6 DEF k, q
  <2>2. \A i \in 1..net'.taken : net'.outbox[i] = q[i]
    BY <1>4, <1>6, <2>1
  <2>3. QED
    BY <1>1, <1>3, <1>4, <1>6, <2>1, <2>2 DEF NetInv, NetType, q
<1>8. ASSUME NEW i \in 1..Len(net'.outbox)
       PROVE  \E j \in 1..Len(q) : net'.outbox[i] = q[j]
  <2>1. CASE i < k
    <3>1. i \in 1..(k - 1) /\ i \in 1..Len(q)
      BY <1>4, <1>5, <1>6, <2>1
    <3>2. QED
      BY <1>4, <1>6, <3>1
  <2>2. CASE ~(i < k)
    <3>1. i \in k..(Len(q) - 1) /\ i + 1 \in 1..Len(q)
      BY <1>4, <1>5, <1>6, <2>2
    <3>2. QED
      BY <1>4, <1>6, <3>1
  <2>3. QED
    BY <2>1, <2>2
<1>9. WorkerInv'
  BY <1>1, <1>3, <1>8 DEF WorkerInv, WorkerType, Settled, q
<1>10. QED
  BY <1>1, <1>2, <1>3, <1>4, <1>7, <1>9, CursorFrame, StoreFrame, FlightFrame, QueueFrame
     DEF ReplayInv

-----------------------------------------------------------------------------
(* mqtt_event_handler *)
LEMMA HandlerStep ==
    ASSUME ReplayInv, handle_connected \/ handle_disconnected \/ handle_published
    PROVE  ReplayInv'
<1>1. /\ handler' = Quiet /\ lapses \subseteq lapses'
      /\ UNCHANGED <<store, saved, worker, net, received, gone>>
  BY DEF handle_connected, handle_disconnected, handle_published
<1>2. Grows /\ handler'.ev # "published"
  BY <1>1 DEF Grows, Quiet
<1>3. MqttType /\ FlightInv /\ NetType
  BY DEF ReplayInv, FlightInv, NetInv
<1>4. /\ {"cursor", "msg", "pkt", "connected", "enabled", "client"} \subseteq DOMAIN mqtt'
      /\ mqtt'.cursor = mqtt.cursor /\ mqtt'.enabled = mqtt.enabled
      /\ mqtt'.msg \in {0, mqtt.msg}
  <2>1. CASE mqtt' = [mqtt EXCEPT !.connected = TRUE]
    BY <1>3, <2>1 DEF MqttType
  <2>2. CASE mqtt' = [NotInFlight(mqtt) EXCEPT !.connected = FALSE]
    BY <1>3, <2>2, NotInFlightFields
  <2>3. CASE mqtt' = mqtt
    BY <1>3, <2>3 DEF MqttType
  <2>4. QED
    BY <2>1, <2>2, <2>3 DEF handle_connected, handle_disconnected, handle_published
<1>5. FlightInv'
  BY <1>2, <1>3, <1>4, SettledGrows DEF FlightInv, MqttType
<1>6. QueueInv'
  <2>1. CASE queue' \in {queue, Queued(Work("connected", 0))}
    <3>1. "connected" \in WorkTypes /\ 0 \in Nat
      BY DEF WorkTypes
    <3>2. QED
      BY <1>2, <2>1, <3>1, QueueAppend DEF ReplayInv
  <2>2. CASE handle_published /\ AckMatches(handler.pkt) /\ mqtt.msg # 0
    <3>1. queue' = Queued(Work("ack", mqtt.msg)) /\ mqtt.msg \in Nat /\ "ack" \in WorkTypes
      BY <1>3, <2>2 DEF handle_published, MqttType, WorkTypes
    <3>2. UpTo(mqtt.msg)
      <4>1. Settled(mqtt.msg)
        BY <1>3, <2>2 DEF FlightInv, handle_published, AckMatches
      <4>2. ASSUME NEW m \in 1..mqtt.msg PROVE Settled(m)
        <5>1. m = mqtt.msg \/ m \in 1..(mqtt.msg - 1)
          BY <3>1
        <5>2. QED
          BY <1>3, <4>1, <5>1 DEF FlightInv
      <4>3. QED
        BY <4>2 DEF UpTo
    <3>3. QED
      BY <1>2, <3>1, <3>2, QueueAppend DEF ReplayInv
  <2>3. QED
    BY <2>1, <2>2 DEF handle_connected, handle_disconnected, handle_published
<1>7. NetType'
  BY <1>1, <1>3 DEF NetType
<1>8. QED
  BY <1>1, <1>2, <1>4, <1>5, <1>6, <1>7, CursorFrame, StoreFrame, WorkerFrame, NetFrame
     DEF ReplayInv

(* mqtt_service_reconfigure, its steps and its failures. *)
LEMMA ReconfigureStep ==
    ASSUME ReplayInv,
           \/ \E enabled \in BOOLEAN : reconfigure_begin(enabled)
           \/ reconfigure_stop \/ reconfigure_install
           \/ \E installed \in BOOLEAN : reconfigure_failed(installed)
    PROVE  ReplayInv'
<1>1. UNCHANGED <<saved, queue, worker, handler, received, gone, lapses>>
  BY DEF reconfigure_begin, reconfigure_stop, reconfigure_install, reconfigure_failed
<1>2. Grows
  BY <1>1 DEF Grows
<1>3. /\ MqttType /\ FlightInv /\ NetType /\ NetInv /\ StoreInv /\ StoreType /\ CursorInv
      /\ WorkerInv
  BY DEF ReplayInv, FlightInv, NetInv, StoreInv
<1>4. net' \in {net, Offline}
  BY DEF reconfigure_begin, reconfigure_stop, reconfigure_install, reconfigure_failed
<1>5. NetInv' /\ (net'.outbox = net.outbox \/ net'.outbox = <<>>)
  <2>1. CASE net' = net
    BY <1>1, <1>3, <2>1 DEF NetInv, NetType
  <2>2. CASE net' = Offline
    <3>1. /\ {"up", "outbox", "taken", "subscribed"} \subseteq DOMAIN Offline
          /\ Offline.outbox = <<>> /\ Offline.taken = 0
      BY DEF Offline
    <3>2. <<>> \in Seq(Entry) /\ 0 \in 0..Len(<<>>) /\ 1..0 = {}
      OBVIOUS
    <3>3. QED
      BY <2>2, <3>1, <3>2 DEF NetInv, NetType
  <2>3. QED
    BY <1>4, <2>1, <2>2
<1>6. WorkerInv'
  BY <1>1, <1>3, <1>5 DEF WorkerInv, WorkerType, Settled
<1>7. \/ /\ store' = store
         /\ \/ mqtt' = mqtt \/ mqtt' = [mqtt EXCEPT !.client = FALSE, !.connected = FALSE]
      \/ /\ store' = Protected(setting)
         /\ \/ mqtt' = [mqtt EXCEPT !.enabled = setting, !.client = setting]
            \/ mqtt' = [mqtt EXCEPT !.enabled = setting]
  BY DEF reconfigure_begin, reconfigure_stop, reconfigure_install, reconfigure_failed
<1>8. /\ {"cursor", "msg", "pkt", "connected", "enabled", "client"} \subseteq DOMAIN mqtt'
      /\ mqtt'.cursor = mqtt.cursor /\ mqtt'.msg = mqtt.msg /\ mqtt'.pkt = mqtt.pkt
      /\ \/ store' = store /\ mqtt'.enabled = mqtt.enabled
         \/ store' = Protected(setting) /\ mqtt'.enabled = setting
  BY <1>3, <1>7 DEF MqttType
<1>9. FlightInv'
  <2>1. MqttType'
    BY <1>3, <1>8 DEF MqttType
  <2>2. QED
    BY <1>1, <1>2, <1>3, <1>8, <2>1, FlightFrame
<1>10. StoreInv' /\ CursorInv'
  <2>1. CASE store' = store /\ mqtt'.enabled = mqtt.enabled
    BY <1>1, <1>2, <1>3, <1>8, <2>1, StoreFrame, CursorFrame
  <2>2. CASE store' = Protected(setting) /\ mqtt'.enabled = setting
    <3>1. /\ {"ids", "next", "protect", "mark"} \subseteq DOMAIN store'
          /\ store'.ids = store.ids /\ store'.next = store.next
          /\ store'.protect = setting /\ store'.mark \in {store.mark, mqtt.cursor}
      BY <1>3, <2>2 DEF Protected, StoreType
    <3>2. StoreType'
      BY <1>3, <3>1 DEF StoreType, MqttType
    <3>3. StoreInv'
      BY <1>1, <1>3, <2>2, <3>1, <3>2 DEF StoreInv, Settled
    <3>4. CursorInv'
      BY <1>1, <1>3, <1>8, <3>1 DEF CursorInv, UpTo, Settled
    <3>5. QED
      BY <3>3, <3>4
  <2>3. QED
    BY <1>8, <2>1, <2>2
<1>11. QED
  BY <1>1, <1>2, <1>5, <1>6, <1>9, <1>10, QueueFrame DEF ReplayInv

(* What a reset and the start leave, but for the store. *)
LEMMA Restarted ==
    ASSUME NEW c \in Nat, NEW e, mqtt' = Started(c, e), queue' = <<>>, worker' = Receiving,
           handler' = Quiet, net' = Offline
    PROVE  /\ FlightInv' /\ WorkerInv' /\ NetInv' /\ QueueInv'
           /\ mqtt'.cursor = c /\ mqtt'.enabled = e
<1>1. FlightInv' /\ mqtt'.cursor = c /\ mqtt'.enabled = e
  BY DEF FlightInv, MqttType, Started, Quiet
<1>2. WorkerInv'
  BY DEF WorkerInv, WorkerType, Receiving
<1>3. NetInv'
  <2>1. /\ {"up", "outbox", "taken", "subscribed"} \subseteq DOMAIN Offline
        /\ Offline.outbox = <<>> /\ Offline.taken = 0
    BY DEF Offline
  <2>2. <<>> \in Seq(Entry) /\ 0 \in 0..Len(<<>>) /\ 1..0 = {}
    OBVIOUS
  <2>3. QED
    BY <2>1, <2>2 DEF NetInv, NetType
<1>4. QueueInv'
  <2>1. <<>> \in Seq(Works) /\ 1..Len(<<>>) = {}
    OBVIOUS
  <2>2. QED
    BY <2>1 DEF QueueInv, QueueType
<1>5. QED
  BY <1>1, <1>2, <1>3, <1>4

(* gateway_settings_set_mqtt changes nothing that runs. *)
LEMMA SettingsStep ==
    ASSUME ReplayInv,
           UNCHANGED <<store, saved, mqtt, queue, worker, handler, net, received, gone, lapses>>
    PROVE  ReplayInv'
<1>1. Grows
  BY DEF Grows
<1>2. MqttType' /\ NetType'
  BY DEF ReplayInv, FlightInv, MqttType, NetInv, NetType
<1>3. QED
  BY <1>1, <1>2, CursorFrame, StoreFrame, FlightFrame, WorkerFrame, NetFrame, QueueFrame
     DEF ReplayInv

(* A reset: the store and the cursor come back from flash. *)
LEMMA CrashStep ==
    ASSUME ReplayInv, Crash
    PROVE  ReplayInv'
<1>1. /\ store' = [store EXCEPT !.protect = stored, !.mark = saved]
      /\ mqtt' = Started(saved, stored) /\ queue' = <<>> /\ worker' = Receiving
      /\ handler' = Quiet /\ net' = Offline
      /\ UNCHANGED <<saved, received, gone, lapses>>
  BY DEF Crash
<1>2. saved \in Nat /\ CursorInv /\ StoreInv /\ StoreType
  BY DEF ReplayInv, CursorInv, StoreInv
<1>3. /\ FlightInv' /\ WorkerInv' /\ NetInv' /\ QueueInv'
      /\ mqtt'.cursor = saved /\ mqtt'.enabled = stored
  BY <1>1, <1>2, Restarted
<1>4. /\ {"ids", "next", "protect", "mark"} \subseteq DOMAIN store'
      /\ store'.ids = store.ids /\ store'.next = store.next
      /\ store'.protect = stored /\ store'.mark = saved
  BY <1>1, <1>2 DEF StoreType
<1>5. StoreType'
  BY <1>2, <1>4 DEF StoreType
<1>6. StoreInv'
  BY <1>1, <1>2, <1>3, <1>4, <1>5 DEF StoreInv, Settled
<1>7. CursorInv'
  BY <1>1, <1>2, <1>3, <1>4 DEF CursorInv, UpTo, Settled
<1>8. QED
  BY <1>3, <1>6, <1>7 DEF ReplayInv

-----------------------------------------------------------------------------
(* Nothing was received yet. *)
LEMMA InitReplayInv == Init => ReplayInv
<1> SUFFICES ASSUME Init PROVE ReplayInv
  OBVIOUS
<1>1. FlightInv
  BY DEF Init, FlightInv, MqttType, Started, Quiet
<1>2. WorkerInv
  BY DEF Init, WorkerInv, WorkerType, Receiving
<1>3. NetInv
  <2>1. /\ {"up", "outbox", "taken", "subscribed"} \subseteq DOMAIN Offline
        /\ Offline.outbox = <<>> /\ Offline.taken = 0
    BY DEF Offline
  <2>2. <<>> \in Seq(Entry) /\ 0 \in 0..Len(<<>>) /\ 1..0 = {}
    OBVIOUS
  <2>3. QED
    BY <2>1, <2>2 DEF Init, NetInv, NetType
<1>4. QueueInv
  <2>1. <<>> \in Seq(Works) /\ 1..Len(<<>>) = {}
    OBVIOUS
  <2>2. QED
    BY <2>1 DEF Init, QueueInv, QueueType
<1>5. /\ {"ids", "next", "protect", "mark"} \subseteq DOMAIN store
      /\ store.ids = {} /\ store.next = 1 /\ store.mark = 0 /\ store.protect
      /\ mqtt.cursor = 0 /\ saved = 0
  BY DEF Init, Started
<1>6. StoreInv
  BY <1>5 DEF StoreInv, StoreType
<1>7. CursorInv
  BY <1>5 DEF CursorInv, UpTo
<1>8. QED
  BY <1>1, <1>2, <1>3, <1>4, <1>6, <1>7 DEF ReplayInv

(* One step per action. *)
LEMMA StepReplayInv == ReplayInv /\ [Next]_vars => ReplayInv'
<1> SUFFICES ASSUME ReplayInv, [Next]_vars PROVE ReplayInv'
  OBVIOUS
<1>1. CASE sms_received
  BY <1>1, ReceiveStep
<1>2. CASE Worker
  BY <1>2, WorkStep, AckStep, IdleStep, ReplayStep, NoteStep, StatusStep DEF Worker
<1>3. CASE ClientTask
  BY <1>3, LinkStep, HandlerStep, BrokerStep, AcknowledgedStep DEF ClientTask
<1>4. CASE reconfigure_stop \/ reconfigure_install
  BY <1>4, ReconfigureStep
<1>5. CASE Faults
  <2>1. CASE \E m \in Messages : sms_deleted(m)
    BY <2>1, DeleteStep
  <2>2. CASE sms_status_event \/ command_received
    BY <2>2, QueueOnlyStep
  <2>3. CASE replay_cursor_store_failed
    BY <2>3, AckStep
  <2>4. CASE work_dropped
    BY <2>4, WorkStep
  <2>5. CASE client_disconnects
    BY <2>5, LinkStep
  <2>6. CASE outbox_expires
    BY <2>6, ExpireStep
  <2>7. CASE \/ \E enabled \in BOOLEAN : reconfigure_begin(enabled)
             \/ \E installed \in BOOLEAN : reconfigure_failed(installed)
    BY <2>7, ReconfigureStep
  <2>8. CASE Crash
    BY <2>8, CrashStep
  <2>9. ASSUME NEW enabled \in BOOLEAN, NEW ok \in BOOLEAN,
               gateway_settings_set_mqtt(enabled, ok)
        PROVE  ReplayInv'
    BY <2>9, SettingsStep DEF gateway_settings_set_mqtt
  <2>10. QED
    BY <1>5, <2>1, <2>2, <2>3, <2>4, <2>5, <2>6, <2>7, <2>8, <2>9 DEF Faults
<1>6. CASE UNCHANGED vars
  BY <1>6, SettingsStep DEF vars
<1>7. QED
  BY <1>1, <1>2, <1>3, <1>4, <1>5, <1>6 DEF Next

(* The invariant holds in every behaviour. *)
LEMMA ReplayInvariant == Spec => []ReplayInv
  BY InitReplayInv, StepReplayInv, PTL DEF Spec

-----------------------------------------------------------------------------
(* The cursor in flash never passes a message that the broker does not     *)
(* have, unless the operator deleted it, MQTT was off, or a packet id was  *)
(* used again (replay_cursor_store, mqtt_event_handler).                   *)
THEOREM CursorSound == Spec => []CursorOnlyPassesPublished
<1>1. ReplayInv => CursorOnlyPassesPublished
  BY DEF ReplayInv, CursorInv, UpTo, Settled, CursorOnlyPassesPublished
<1>2. QED
  BY <1>1, ReplayInvariant, PTL

(* While MQTT is enabled no received message is pruned before it was       *)
(* published (record_prunable, mqtt_service_reconfigure).                  *)
THEOREM NoMessageLost == Spec => []NothingLost
<1>1. ReplayInv => NothingLost
  BY DEF ReplayInv, StoreInv, Settled, NothingLost
<1>2. QED
  BY <1>1, ReplayInvariant, PTL

(* Both together: every received message is in the store, with the broker  *)
(* or accounted for, whatever replay_cursor_store, the handler of PUBLISHED,   *)
(* mqtt_service_reconfigure and resets do in between.                      *)
THEOREM DeliveredAtLeastOnce == Spec => []AtLeastOnce
  BY CursorSound, NoMessageLost, PTL DEF AtLeastOnce

-----------------------------------------------------------------------------
(* The setting and its copy are Booleans, and the protection follows. *)
ProtectInv ==
    /\ setting \in BOOLEAN /\ stored \in BOOLEAN /\ mqtt.enabled \in BOOLEAN
    /\ ProtectionFollowsConfig

(* Only an acknowledgement and a reconfiguration touch the protection. *)
LEMMA StepProtectInv == ReplayInv /\ ProtectInv /\ [Next]_vars => ProtectInv'
<1> SUFFICES ASSUME ReplayInv, ProtectInv, [Next]_vars PROVE ProtectInv'
  OBVIOUS
<1>1. StoreType /\ MqttType
  BY DEF ReplayInv, StoreInv, FlightInv
<1>2. ASSUME setting' = setting, stored' = stored, mqtt'.enabled = mqtt.enabled,
             store'.protect = store.protect, lapses \subseteq lapses'
      PROVE  ProtectInv'
  BY <1>2 DEF ProtectInv, ProtectionFollowsConfig
<1>3. ASSUME setting' \in BOOLEAN, stored' \in BOOLEAN, mqtt'.enabled = setting',
             store'.protect = setting'
      PROVE  ProtectInv'
  BY <1>3 DEF ProtectInv, ProtectionFollowsConfig
<1>4. /\ NotInFlight(mqtt).enabled = mqtt.enabled
      /\ \A b : [mqtt EXCEPT !.connected = b].enabled = mqtt.enabled
      /\ \A b, c : [mqtt EXCEPT !.msg = b, !.pkt = c].enabled = mqtt.enabled
      /\ [mqtt EXCEPT !.client = FALSE, !.connected = FALSE].enabled = mqtt.enabled
      /\ [NotInFlight(mqtt) EXCEPT !.connected = FALSE].enabled = mqtt.enabled
      /\ \A c : [NotInFlight(mqtt) EXCEPT !.cursor = c].enabled = mqtt.enabled
  BY <1>1 DEF MqttType, NotInFlight
<1>5. CASE sms_received
  <2>1. store'.protect = store.protect
    BY <1>1, <1>5 DEF sms_received, StoreType
  <2>2. QED
    BY <1>2, <1>5, <2>1 DEF sms_received
<1>6. CASE Worker
  <2>1. CASE handle_replay_ack
    <3>1. CASE IsCurrent(Head(queue).msg)
      <4>1. /\ mqtt'.enabled = mqtt.enabled /\ setting' = setting /\ stored' = stored
            /\ lapses' = IF mqtt.enabled THEN lapses ELSE lapses \cup {"late_ack"}
        BY <1>4, <2>1, <3>1 DEF handle_replay_ack
      <4>2. store'.protect = TRUE
        BY <1>1, <2>1, <3>1 DEF handle_replay_ack, StoreType
      <4>3. CASE mqtt.enabled = TRUE
        BY <4>1, <4>2, <4>3 DEF ProtectInv, ProtectionFollowsConfig
      <4>4. CASE mqtt.enabled = FALSE
        BY <4>1, <4>4 DEF ProtectInv, ProtectionFollowsConfig
      <4>5. QED
        BY <4>3, <4>4 DEF ProtectInv
    <3>2. CASE ~IsCurrent(Head(queue).msg)
      BY <1>2, <2>1, <3>2 DEF handle_replay_ack
    <3>3. QED
      BY <3>1, <3>2
  <2>2. CASE worker_idle
    BY <1>2, <1>4, <2>2 DEF worker_idle
  <2>3. CASE publish_inbound_replay
    BY <1>2, <1>4, <2>3 DEF publish_inbound_replay
  <2>4. CASE work_connected \/ handle_data_work \/ publish_sms_event \/ work_replay
             \/ replay_next_inbound \/ publish_status
    BY <1>2, <2>4 DEF work_connected, handle_data_work, publish_sms_event, work_replay,
       replay_next_inbound, publish_status
  <2>5. QED
    BY <1>6, <2>1, <2>2, <2>3, <2>4 DEF Worker
<1>7. CASE ClientTask
  <2>1. CASE handle_connected \/ handle_disconnected \/ handle_published
    BY <1>2, <1>4, <2>1 DEF handle_connected, handle_disconnected, handle_published
  <2>2. CASE client_connects \/ broker_receives \/ client_acknowledged
    BY <1>2, <2>2 DEF client_connects, broker_receives, client_acknowledged
  <2>3. QED
    BY <1>7, <2>1, <2>2 DEF ClientTask
<1>8. Protected(setting).protect = setting
  BY <1>1 DEF Protected, StoreType
<1>9. CASE reconfigure_stop
  BY <1>2, <1>9 DEF reconfigure_stop
<1>10. CASE reconfigure_install
  <2>1. /\ mqtt'.enabled = setting /\ store'.protect = setting /\ setting' = setting
        /\ stored' = stored
    BY <1>1, <1>8, <1>10 DEF reconfigure_install, MqttType
  <2>2. QED
    BY <1>3, <2>1 DEF ProtectInv
<1>11. CASE Faults
  <2>1. ASSUME NEW m \in Messages, sms_deleted(m) PROVE ProtectInv'
    <3>1. store'.protect = store.protect
      BY <1>1, <2>1 DEF sms_deleted, StoreType
    <3>2. QED
      BY <1>2, <2>1, <3>1 DEF sms_deleted
  <2>2. CASE sms_status_event \/ command_received \/ work_dropped \/ client_disconnects
             \/ outbox_expires
    BY <1>2, <2>2 DEF sms_status_event, command_received, work_dropped, client_disconnects,
       outbox_expires
  <2>3. CASE replay_cursor_store_failed
    BY <1>2, <1>4, <2>3 DEF replay_cursor_store_failed
  <2>4. ASSUME NEW enabled \in BOOLEAN, reconfigure_begin(enabled) PROVE ProtectInv'
    <3>1. /\ setting' \in BOOLEAN /\ stored' \in BOOLEAN /\ mqtt'.enabled = mqtt.enabled
          /\ UNCHANGED <<store, lapses>>
      BY <1>4, <2>4 DEF reconfigure_begin
    <3>2. QED
      BY <3>1 DEF ProtectInv, ProtectionFollowsConfig
  <2>5. ASSUME NEW installed \in BOOLEAN, reconfigure_failed(installed) PROVE ProtectInv'
    <3>1. CASE installed
      <4>1. /\ mqtt'.enabled = setting /\ store'.protect = setting /\ setting' = setting
            /\ stored' = stored
        BY <1>1, <1>8, <2>5, <3>1 DEF reconfigure_failed, MqttType
      <4>2. QED
        BY <1>3, <4>1 DEF ProtectInv
    <3>2. CASE ~installed
      BY <1>2, <2>5, <3>2 DEF reconfigure_failed
    <3>3. QED
      BY <3>1, <3>2
  <2>6. CASE Crash
    <3>1. /\ mqtt'.enabled = stored /\ store'.protect = stored /\ setting' = stored
          /\ stored' = stored
      BY <1>1, <2>6 DEF Crash, Started, StoreType
    <3>2. QED
      BY <1>3, <3>1 DEF ProtectInv
  <2>7. ASSUME NEW enabled \in BOOLEAN, NEW ok \in BOOLEAN,
               gateway_settings_set_mqtt(enabled, ok)
        PROVE  ProtectInv'
    <3>1. setting' \in BOOLEAN /\ stored' \in BOOLEAN /\ UNCHANGED <<mqtt, store, lapses>>
      BY <2>7 DEF gateway_settings_set_mqtt, ProtectInv
    <3>2. QED
      BY <3>1 DEF ProtectInv, ProtectionFollowsConfig
  <2>8. QED
    BY <1>11, <2>1, <2>2, <2>3, <2>4, <2>5, <2>6, <2>7 DEF Faults
<1>12. CASE UNCHANGED vars
  BY <1>2, <1>12 DEF vars
<1>13. QED
  BY <1>5, <1>6, <1>7, <1>9, <1>10, <1>11, <1>12 DEF Next

(* The store's protection follows the configuration, unless an             *)
(* acknowledgement was handled after MQTT was switched off                 *)
(* (replay_cursor_store, mqtt_service_reconfigure).                        *)
THEOREM ProtectionExact == Spec => []ProtectionFollowsConfig
<1>1. Init => ProtectInv
  BY DEF Init, Started, ProtectInv, ProtectionFollowsConfig
<1>2. ProtectInv => ProtectionFollowsConfig
  BY DEF ProtectInv
<1>3. QED
  BY <1>1, <1>2, StepProtectInv, ReplayInvariant, PTL DEF Spec

(* Type correctness of the store's counters, the cursors, the queue and    *)
(* the client's outbox.                                                    *)
THEOREM TypeCorrect == Spec => []TypeOK
<1>1. Init => ProtectInv
  BY DEF Init, Started, ProtectInv, ProtectionFollowsConfig
<1>2. ReplayInv /\ ProtectInv => TypeOK
  BY DEF ReplayInv, ProtectInv, CursorInv, StoreInv, StoreType, FlightInv, MqttType, NetInv,
     NetType, Entry, QueueInv, QueueType, Works, WorkTypes, TypeOK
<1>3. QED
  BY <1>1, <1>2, StepProtectInv, ReplayInvariant, PTL DEF Spec
=============================================================================
