----------------------------- MODULE SmsInbound -----------------------------
(***************************************************************************)
(* Inbound messages from the modem's message storage to the journal: the    *)
(* service task of components/sms_service reads PDUs, stores them, puts     *)
(* multipart messages together and deletes the modem's copies.  Meanwhile   *)
(* the API deletes records, MQTT moves the replay watermark, and resets and *)
(* failures come between any two store calls or AT commands.                *)
(***************************************************************************)
EXTENDS SmsRecords, Sequences

CONSTANTS
    Pdus,         \* the PDUs the network delivers, see PduType
    Indexes,      \* message storage indexes of the modem, from 1
    Batch,        \* messages that fit into one bounded AT+CMGL response
    MaxArrivals,  \* bound on deliveries of one PDU (a network may repeat one)
    MaxDeletes,   \* bound on API deletes
    MaxFaults,    \* bound on failing flash writes and AT+CMGD commands
    MaxCrashes    \* bound on resets

\* kind: "text"; "binary" (8-bit data); "invalid" (any other PDU the service
\* cannot use: malformed, with a national language shift, with too many parts, a
\* delivery report that matches nothing).
\* net says which message of the network the PDU belongs to.  It is history; a
\* message has one text for each of its parts.
PduType(p) ==
    /\ p.kind \in {"text", "binary", "invalid"}
    /\ p.total \in Nat \ {0}
    /\ p.part \in 1 .. p.total

ASSUME InboundAssumption ==
    /\ \A p \in Pdus : PduType(p)
    /\ \A p, q \in Pdus : p.net = q.net /\ p.part = q.part => p.text = q.text
    /\ Indexes \subseteq Nat \ {0}
    /\ Batch \in Nat \ {0}
    /\ MaxArrivals \in Nat
    /\ MaxDeletes \in Nat
    /\ MaxFaults \in Nat
    /\ MaxCrashes \in Nat

VARIABLES
    journal, next_id,   \* flash
    replay_watermark,
    inbox,              \* the modem's message storage
    pc,                 \* where the service task is
    batch,              \* the entries [index, pdu] it still has to process
    scanning,           \* the entries come from AT+CMGL
    processed,          \* an entry of this batch was processed successfully
    doomed,             \* ids of partial records it still has to delete
    created,            \* the message it has just put together, or NoRecord
    arrivals, deletes, faults, crashes,
    handed_over,        \* history: PDUs whose modem copy was deleted
    discarded,          \* history: texts whose record was deleted or pruned
    received_events     \* history: how many RECEIVED events each message had

flash   == <<journal, next_id>>
service == <<pc, batch, scanning, processed, doomed, created>>
bounds  == <<arrivals, deletes, faults, crashes>>
history == <<handed_over, discarded, received_events>>
vars    == <<flash, replay_watermark, inbox, service, bounds, history>>

NoPdu == [kind |-> "none"]

\* A record: text is the sequence of the part texts it contains.
InRecord(status, p, text) ==
    [status |-> status, sender |-> p.sender, ts |-> p.ts, ref |-> p.ref,
     total |-> p.total, part |-> p.part, text |-> text]

Init ==
    /\ journal = [id \in Ids |-> NoRecord]
    /\ next_id = 1
    /\ replay_watermark = 0
    /\ inbox = [i \in Indexes |-> NoPdu]
    /\ pc = "idle" /\ batch = {} /\ scanning = FALSE /\ processed = FALSE
    /\ doomed = <<>> /\ created = NoRecord
    /\ arrivals = [p \in Pdus |-> 0]
    /\ deletes = 0 /\ faults = 0 /\ crashes = 0
    /\ handed_over = {} /\ discarded = {}
    /\ received_events = [m \in {} |-> 0]

-----------------------------------------------------------------------------
(* Store calls.                                                             *)

Fault == faults < MaxFaults /\ faults' = faults + 1

Texts(r) == {r.text[i] : i \in DOMAIN r.text}

\* The texts that the step from j to k removes from the journal.
Dropped(j, k) ==
    UNION {Texts(j[id]) : id \in {i \in Stored(j) : k[i].status = "EMPTY"}}

\* sms_store_save of a new record; ok is what the caller sees.  A failing call
\* may have pruned a record, spent an id or left the record behind.
save_new(r, ok) ==
    LET room  == MakeRoom(journal, TRUE, replay_watermark)
        added == [room EXCEPT ![next_id] = r]
        can   == HasRoom(journal, TRUE, replay_watermark)
    IN
    /\ next_id < IdMax
    /\ \/ /\ can /\ ok
          /\ journal' = added /\ next_id' = NextId(next_id)
          /\ discarded' = discarded \cup Dropped(journal, room)
          /\ UNCHANGED faults
       \/ /\ can /\ ~ok
          /\ Fault
          /\ \/ journal' \in {journal, room} /\ next_id' = next_id
             \/ journal' \in {room, added} /\ next_id' = NextId(next_id)
          /\ discarded' = discarded \cup Dropped(journal, journal')
       \/ /\ ~can /\ ~ok
          /\ UNCHANGED <<flash, faults, discarded>>

\* Mutant: the part number is not compared.
find_partial_AnyPart(p, part) ==
    {id \in Stored(journal) :
        /\ journal[id].status = "PARTIAL"
        /\ journal[id].sender = p.sender
        /\ journal[id].ref = p.ref
        /\ journal[id].total = p.total}

find_partial(p, part) ==
    {id \in Stored(journal) :
        /\ journal[id].status = "PARTIAL"
        /\ journal[id].sender = p.sender
        /\ journal[id].ref = p.ref
        /\ journal[id].total = p.total
        /\ journal[id].part = part}

\* Mutant: no duplicate is ever found.
find_inbound_identity_Never(sender, ts, text) == {}

find_inbound_identity(sender, ts, text) ==
    {id \in Stored(journal) :
        /\ journal[id].status = "RECEIVED"
        /\ journal[id].sender = sender
        /\ journal[id].ts = ts
        /\ journal[id].text = text}

find_inbound_raw_pdu(p) ==
    {id \in Stored(journal) :
        journal[id].status = "UNSUPPORTED" /\ journal[id].text = <<p.text>>}

-----------------------------------------------------------------------------
(* The service task.                                                        *)

\* The entries are processed in the order of the response, by index.
Entry == CHOOSE e \in batch : \A f \in batch : e.index <= f.index

Current == Entry.pdu

\* process_any_pdu returned; ok is its result.  The scan goes on with the next
\* entry, and lists the storage again when this batch made progress.
Return(ok) ==
    LET progress == processed \/ ok IN
    /\ batch' = batch \ {Entry}
    /\ doomed' = <<>> /\ created' = NoRecord
    /\ IF batch' # {}
       THEN pc' = "persist" /\ processed' = progress /\ UNCHANGED scanning
       ELSE /\ pc' = IF scanning /\ progress THEN "scan" ELSE "idle"
            /\ processed' = FALSE /\ scanning' = FALSE

Goto(label) == pc' = label /\ UNCHANGED <<batch, scanning, processed, doomed, created>>

\* poll_inbox_if_due, or the scan when the modem becomes ready.
poll_inbox ==
    /\ pc = "idle"
    /\ Goto("scan")
    /\ UNCHANGED <<flash, replay_watermark, inbox, bounds, history>>

\* AT+CMGL=4: the first messages of the storage, as many as the response holds.
\* The command can also fail, which ends the scan.
scan_stored_messages ==
    LET used  == {i \in Indexes : inbox[i] # NoPdu}
        first == {i \in used : Cardinality({k \in used : k < i}) < Batch}
    IN
    /\ pc = "scan"
    /\ \/ /\ used # {}
          /\ pc' = "persist" /\ scanning' = TRUE
          /\ batch' = {[index |-> i, pdu |-> inbox[i]] : i \in first}
          /\ UNCHANGED <<processed, doomed, created, faults>>
       \/ /\ used = {}
          /\ Goto("idle")
          /\ UNCHANGED faults
       \/ /\ Fault
          /\ Goto("idle")
    /\ UNCHANGED <<flash, replay_watermark, inbox, arrivals, deletes, crashes, history>>

\* +CMTI or +CDSI: one message is read.
read_modem_index(i) ==
    /\ pc = "idle"
    /\ inbox[i] # NoPdu
    /\ pc' = "persist" /\ batch' = {[index |-> i, pdu |-> inbox[i]]}
    /\ UNCHANGED <<scanning, processed, doomed, created>>
    /\ UNCHANGED <<flash, replay_watermark, inbox, bounds, history>>

\* +CMT: the PDU comes with the indication, the modem keeps no copy (index 0).
handle_direct_urc(p) ==
    /\ pc = "idle"
    /\ arrivals[p] < MaxArrivals
    /\ arrivals' = [arrivals EXCEPT ![p] = @ + 1]
    /\ pc' = "persist" /\ batch' = {[index |-> 0, pdu |-> p]}
    /\ UNCHANGED <<scanning, processed, doomed, created>>
    /\ UNCHANGED <<flash, replay_watermark, inbox, deletes, faults, crashes, history>>

\* What find_inbound_identity tells messages apart by.
Message(r) == [sender |-> r.sender, ts |-> r.ts, text |-> r.text]

Events(m) == IF m \in DOMAIN received_events THEN received_events[m] ELSE 0

Notify(r) ==
    received_events' = [m \in DOMAIN received_events \cup {Message(r)} |->
                           IF m = Message(r) THEN Events(m) + 1 ELSE received_events[m]]

\* A PDU that decodes to nothing usable is reported as an error and stays.
process_undecodable ==
    /\ pc = "persist"
    /\ Current.kind = "invalid"
    /\ Return(FALSE)
    /\ UNCHANGED <<flash, replay_watermark, inbox, bounds, history>>

persist_unsupported_deliver ==
    /\ pc = "persist"
    /\ Current.kind = "binary"
    /\ \/ /\ find_inbound_raw_pdu(Current) # {}
          /\ Goto("cmgd")
          /\ UNCHANGED <<flash, faults, discarded>>
       \/ /\ find_inbound_raw_pdu(Current) = {}
          /\ \E ok \in BOOLEAN :
                /\ save_new(InRecord("UNSUPPORTED", Current, <<Current.text>>), ok)
                /\ IF ok THEN Goto("cmgd") ELSE Return(FALSE)
    /\ UNCHANGED <<replay_watermark, inbox, arrivals, deletes, crashes,
                   handed_over, received_events>>

\* No memory for a record, or a scan of the store fails: the PDU stays where it is.
process_fails ==
    /\ pc \in {"persist", "assemble"}
    /\ Fault
    /\ Return(FALSE)
    /\ UNCHANGED <<flash, replay_watermark, inbox, arrivals, deletes, crashes, history>>

\* Mutant: a message that is known already is an error.
persist_single_KnownFails ==
    LET text == <<Current.text>> IN
    /\ pc = "persist"
    /\ Current.kind = "text" /\ Current.total = 1
    /\ IF find_inbound_identity(Current.sender, Current.ts, text) # {}
       THEN Return(FALSE) /\ UNCHANGED <<flash, faults, discarded, received_events>>
       ELSE \E ok \in BOOLEAN :
               /\ save_new(InRecord("RECEIVED", Current, text), ok)
               /\ IF ok THEN Goto("cmgd") /\ Notify(InRecord("RECEIVED", Current, text))
                        ELSE Return(FALSE) /\ UNCHANGED received_events
    /\ UNCHANGED <<replay_watermark, inbox, arrivals, deletes, crashes, handed_over>>

\* A message of one part.
persist_single ==
    LET text == <<Current.text>>
        r    == InRecord("RECEIVED", Current, text)
    IN
    /\ pc = "persist"
    /\ Current.kind = "text" /\ Current.total = 1
    /\ \/ /\ find_inbound_identity(Current.sender, Current.ts, text) # {}
          /\ Goto("cmgd")
          /\ UNCHANGED <<flash, faults, discarded, received_events>>
       \/ /\ find_inbound_identity(Current.sender, Current.ts, text) = {}
          /\ \E ok \in BOOLEAN :
                /\ save_new(r, ok)
                /\ IF ok THEN Goto("cmgd") /\ Notify(r)
                         ELSE Return(FALSE) /\ UNCHANGED received_events
    /\ UNCHANGED <<replay_watermark, inbox, arrivals, deletes, crashes, handed_over>>

\* Mutant: a failed save is ignored.
persist_part_IgnoresFailure ==
    /\ pc = "persist"
    /\ Current.kind = "text" /\ Current.total > 1
    /\ find_partial(Current, Current.part) = {}
    /\ \E ok \in BOOLEAN : save_new(InRecord("PARTIAL", Current, <<Current.text>>), ok)
    /\ Goto("assemble")
    /\ UNCHANGED <<replay_watermark, inbox, arrivals, deletes, crashes,
                   handed_over, received_events>>

\* A part: known, changed (the record is overwritten), or new.
persist_part ==
    LET found == find_partial(Current, Current.part)
        id    == Oldest(found)
        r     == InRecord("PARTIAL", Current, <<Current.text>>)
        over  == [journal EXCEPT ![id] = r]
    IN
    /\ pc = "persist"
    /\ Current.kind = "text" /\ Current.total > 1
    /\ \/ /\ found # {} /\ journal[id].text = <<Current.text>>
          /\ Goto("assemble")
          /\ UNCHANGED <<flash, faults, discarded>>
       \/ /\ found # {} /\ journal[id].text # <<Current.text>>
          /\ \/ journal' = over /\ Goto("assemble") /\ UNCHANGED faults
             \/ journal' \in {journal, over} /\ Return(FALSE) /\ Fault
          /\ UNCHANGED <<next_id, discarded>>
       \/ /\ found = {}
          /\ \E ok \in BOOLEAN :
                save_new(r, ok) /\ IF ok THEN Goto("assemble") ELSE Return(FALSE)
    /\ UNCHANGED <<replay_watermark, inbox, arrivals, deletes, crashes,
                   handed_over, received_events>>

\* The records to delete once the message that p completes is stored.
partial_ids(p) == [i \in 1 .. p.total |-> Oldest(find_partial(p, i))]

\* With all parts there, the whole message is stored, unless it already is, and
\* then the parts are deleted.  The time stamp is that of part 1.
assemble_if_complete ==
    LET parts   == 1 .. Current.total
        part(i) == journal[Oldest(find_partial(Current, i))]
        text    == [i \in parts |-> part(i).text[1]]
        whole   == [InRecord("RECEIVED", Current, text) EXCEPT !.ts = part(1).ts]
        known   == find_inbound_identity(Current.sender, whole.ts, text)
        Drop(m) == /\ pc' = "drop" /\ created' = m
                   /\ doomed' = partial_ids(Current)
                   /\ UNCHANGED <<batch, scanning, processed>>
    IN
    /\ pc = "assemble"
    /\ \/ /\ \E i \in parts : find_partial(Current, i) = {}
          /\ Goto("cmgd")
          /\ UNCHANGED <<flash, faults, discarded>>
       \/ /\ \A i \in parts : find_partial(Current, i) # {}
          /\ \/ /\ known # {}
                /\ Drop(NoRecord)
                /\ UNCHANGED <<flash, faults, discarded>>
             \/ /\ known = {}
                /\ \E ok \in BOOLEAN :
                      /\ save_new(whole, ok)
                      /\ IF ok THEN Drop(whole) ELSE Return(FALSE)
    /\ UNCHANGED <<replay_watermark, inbox, arrivals, deletes, crashes,
                   handed_over, received_events>>

\* The parts go one by one; a failure to delete one is ignored, whether or not
\* the key was erased.  The RECEIVED event of a message that was not known before
\* follows the last one.
delete_partial ==
    LET erased == [journal EXCEPT ![Head(doomed)] = NoRecord] IN
    /\ pc = "drop"
    /\ \/ journal' = erased /\ UNCHANGED faults
       \/ journal' \in {journal, erased} /\ Fault
    /\ doomed' = Tail(doomed)
    /\ IF Tail(doomed) # <<>>
       THEN pc' = "drop" /\ UNCHANGED <<created, received_events>>
       ELSE /\ pc' = "cmgd" /\ created' = NoRecord
            /\ IF created # NoRecord THEN Notify(created) ELSE UNCHANGED received_events
    /\ UNCHANGED <<next_id, replay_watermark, inbox, batch, scanning, processed,
                   arrivals, deletes, crashes, handed_over, discarded>>

\* AT+CMGD.  A failed command may or may not have deleted the copy; the PDU
\* counts as processed either way.
delete_modem_index ==
    LET i    == Entry.index
        gone == [inbox EXCEPT ![i] = NoPdu]
    IN
    /\ pc = "cmgd"
    /\ \/ i = 0 /\ inbox' = inbox /\ UNCHANGED faults
       \/ i # 0 /\ inbox' = gone /\ UNCHANGED faults
       \/ i # 0 /\ inbox' \in {inbox, gone} /\ Fault
    /\ handed_over' = IF i # 0 /\ inbox' = inbox THEN handed_over
                      ELSE handed_over \cup {Current}
    /\ Return(TRUE)
    /\ UNCHANGED <<flash, replay_watermark, arrivals, deletes, crashes,
                   discarded, received_events>>

-----------------------------------------------------------------------------
(* The other tasks, the network and resets.                                 *)

sms_service_delete(id) ==
    /\ deletes < MaxDeletes
    /\ id \in Stored(journal)
    /\ deletes' = deletes + 1
    /\ journal' = [journal EXCEPT ![id] = NoRecord]
    /\ discarded' = discarded \cup Texts(journal[id])
    /\ UNCHANGED <<next_id, replay_watermark, inbox, service, arrivals, faults,
                   crashes, handed_over, received_events>>

\* MQTT has published everything up to id.
set_replay_watermark(id) ==
    /\ id \in Stored(journal)
    /\ journal[id].status = "RECEIVED"
    /\ id > replay_watermark
    /\ replay_watermark' = id
    /\ UNCHANGED <<flash, inbox, service, bounds, history>>

\* The network delivers a PDU into a free storage index.
Arrive(p, i) ==
    /\ arrivals[p] < MaxArrivals
    /\ inbox[i] = NoPdu
    /\ arrivals' = [arrivals EXCEPT ![p] = @ + 1]
    /\ inbox' = [inbox EXCEPT ![i] = p]
    /\ UNCHANGED <<flash, replay_watermark, service, deletes, faults, crashes, history>>

Crash ==
    /\ crashes < MaxCrashes
    /\ crashes' = crashes + 1
    /\ replay_watermark' = 0
    /\ pc' = "idle" /\ batch' = {} /\ scanning' = FALSE /\ processed' = FALSE
    /\ doomed' = <<>> /\ created' = NoRecord
    /\ UNCHANGED <<flash, inbox, arrivals, deletes, faults, history>>

ServiceStep ==
    \/ scan_stored_messages
    \/ process_undecodable
    \/ process_fails
    \/ persist_unsupported_deliver
    \/ persist_single
    \/ persist_part
    \/ assemble_if_complete
    \/ delete_partial
    \/ delete_modem_index

Next ==
    \/ poll_inbox
    \/ ServiceStep
    \/ \E i \in Indexes : read_modem_index(i)
    \/ \E p \in Pdus : handle_direct_urc(p)
    \/ \E id \in Ids : sms_service_delete(id) \/ set_replay_watermark(id)
    \/ \E p \in Pdus, i \in Indexes : Arrive(p, i)
    \/ Crash

Spec == Init /\ [][Next]_vars

\* Every round of the task's loop ends with poll_inbox_if_due, also when indications
\* keep coming, and the task does not stop in the middle of a scan.
FairSpec == Spec /\ SF_vars(poll_inbox) /\ WF_vars(ServiceStep)

-----------------------------------------------------------------------------
(* Properties.                                                              *)

TypeOK ==
    /\ \A id \in Ids :
          journal[id] # NoRecord =>
              journal[id].status \in {"PARTIAL", "RECEIVED", "UNSUPPORTED"}
    /\ next_id \in Ids
    /\ replay_watermark \in 0 .. IdMax
    /\ inbox \in [Indexes -> Pdus \cup {NoPdu}]
    /\ pc \in {"idle", "scan", "persist", "assemble", "drop", "cmgd"}
    /\ batch \subseteq [index : Indexes \cup {0}, pdu : Pdus]
    /\ scanning \in BOOLEAN /\ processed \in BOOLEAN
    /\ doomed \in Seq(Ids)
    /\ arrivals \in [Pdus -> 0 .. MaxArrivals]
    /\ deletes \in 0 .. MaxDeletes
    /\ faults \in 0 .. MaxFaults /\ crashes \in 0 .. MaxCrashes
    /\ handed_over \subseteq Pdus

Received == {id \in Stored(journal) : journal[id].status = "RECEIVED"}

\* p and q count as parts of one message: nothing else tells messages apart.
SameReference(p, q) == p.sender = q.sender /\ p.ref = q.ref /\ p.total = q.total

\* No silent loss: once the modem's copy of a PDU is gone, its text is in the
\* journal (as a part, within a message, or in quarantine), unless somebody
\* deleted the record, it was pruned, or the same part of another message with
\* that reference replaced it.  "Delete from SIM/ME only after durable
\* persistence/assembly state exists" (process_deliver_pdu).
HandedOverKept ==
    \A p \in handed_over :
        \/ p.text \in discarded
        \/ \E id \in Stored(journal) : p.text \in Texts(journal[id])
        \/ \E q \in Pdus : /\ SameReference(p, q) /\ q.part = p.part
                          /\ q.net # p.net /\ arrivals[q] > 0

\* A message is in the journal once, however often its PDUs are read again
\* after a reset or a failed AT+CMGD (find_inbound_identity).
OneRecordPerMessage ==
    \A a, b \in Received :
        /\ journal[a].sender = journal[b].sender
        /\ journal[a].ts = journal[b].ts
        /\ journal[a].text = journal[b].text
        => a = b

\* A message in the journal is complete: all its parts, in order, and of one
\* message of the network unless the sender used a reference for two of them
\* (assemble_if_complete).
WholeMessages ==
    \A id \in Received :
        \E p \in Pdus :
            /\ Len(journal[id].text) = p.total
            /\ \A i \in 1 .. p.total :
                  \E q \in Pdus : /\ SameReference(p, q) /\ q.part = i
                                  /\ q.text = journal[id].text[i]

\* What the journal shows as received is what was sent: complete, and once.
MessagesIntact == WholeMessages /\ OneRecordPerMessage

\* A message is announced again only if its record was deleted or pruned.
AnnouncedOnce ==
    \A m \in DOMAIN received_events :
        received_events[m] > 1 => \E i \in DOMAIN m.text : m.text[i] \in discarded

\* Backpressure: records that are not prunable are removed only by the API or
\* by the assembly they were parts of (docs/sms-subsystem.md, Storage).
OnlyPublishedPruned ==
    [][\A id \in Received :
          journal'[id] = NoRecord /\ deletes' = deletes => id <= replay_watermark]_vars

\* Every usable PDU in the modem's storage is read and deleted there
\* (scan_stored_messages), also through a full store, as long as what is
\* received is published sooner or later and so becomes prunable.
InboxDrained ==
    []<>(\A id \in Received : id <= replay_watermark) =>
        \A i \in Indexes, p \in Pdus :
            (inbox[i] = p /\ p.kind \in {"text", "binary"}) ~> (inbox[i] # p)
=============================================================================
