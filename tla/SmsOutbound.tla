---------------------------- MODULE SmsOutbound -----------------------------
(***************************************************************************)
(* Outbound messages from acceptance to delivery report: the service task   *)
(* of components/sms_service, the HTTP server task that retries and deletes *)
(* messages, the MQTT and HTTP producers, the modem, and power failures.    *)
(*                                                                          *)
(* The service task and the HTTP task run concurrently.  Each works on its  *)
(* own copy of a record and the store's mutex covers single calls only, so  *)
(* a read and the save that follows it are two steps.                       *)
(***************************************************************************)
EXTENDS SmsRecords

CONSTANTS
    MaxSegments,   \* SMS_MAX_SEGMENTS
    Recipients,    \* phone numbers
    RefMax,        \* largest TP-MR of the modem (8 bits in reality)
    ReportKinds,   \* delivery report outcomes that occur
    MaxRetries,    \* bound on the operator's retries
    MaxFaults,     \* bound on failing flash writes and allocations
    MaxCrashes     \* bound on resets

ASSUME OutboundAssumption ==
    /\ MaxSegments \in Nat \ {0}
    /\ Recipients # {}
    /\ RefMax \in Nat
    /\ ReportKinds \subseteq {"delivered", "permanent", "temporary"}
    /\ MaxRetries \in Nat
    /\ MaxFaults \in Nat
    /\ MaxCrashes \in Nat

VARIABLES
    journal,     \* the records in flash
    next_id,     \* the id counter in flash
    ready,       \* modem_ready() and PDU mode configured
    next_ref,    \* the modem's TP-MR counter
    reports,     \* delivery reports on their way to, or stored in, the modem
    pc,          \* where the service task is
    mid,         \* id of the record the service task works on
    msg,         \* its copy of that record
    seg,         \* the segment it submits
    hpc,         \* where the HTTP task is
    hid,         \* id of the record the HTTP task works on
    hmsg,        \* its copy of that record
    faults,      \* failures so far
    crashes,     \* resets so far
    submitted,   \* history: times the network took each segment
    approvals,   \* history: retries that accepted to repeat a segment
    confirmed    \* history: segments the network reported delivered

flash   == <<journal, next_id>>
modem   == <<ready, next_ref, reports>>
service == <<pc, mid, msg, seg>>
http    == <<hpc, hid, hmsg>>
bounds  == <<faults, crashes>>
history == <<submitted, approvals, confirmed>>
vars    == <<flash, modem, service, http, bounds, history>>

Segments == 1 .. MaxSegments
Refs     == 0 .. RefMax

OutStatus == {"QUEUED", "SENDING", "SENT", "DELIVERED", "FAILED", "UNCERTAIN"}

Record ==
    [status    : OutStatus,
     recipient : Recipients,
     report    : BOOLEAN,
     count     : Segments,
     sent      : SUBSET Segments,
     delivered : SUBSET Segments,
     failed    : SUBSET Segments,
     ref       : [Segments -> Refs],
     inflight  : 0 .. MaxSegments]

Report == [recipient : Recipients, ref : Refs, kind : ReportKinds]

SegmentsOf(m) == 1 .. m.count

Unsent(m) == SegmentsOf(m) \ m.sent

\* The modem counts its references modulo RefMax + 1.
NextRef(ref) == IF ref = RefMax THEN 0 ELSE ref + 1

Least(S) == CHOOSE i \in S : \A k \in S : i <= k

\* Where the service task has a record in its hands that it may submit.
SendingPcs == {"save_failed", "save_sending", "cmgs", "save_requeued",
               "save_uncertain", "save_untransmitted", "save_segment", "save_sent"}

\* Where the segment in its hands is the one marked in flight.
InFlightPcs == {"cmgs", "save_requeued", "save_uncertain", "save_untransmitted",
                "save_segment"}

TypeOK ==
    /\ journal \in [Ids -> Record \cup {NoRecord}]
    /\ next_id \in Ids
    /\ ready \in BOOLEAN
    /\ next_ref \in Refs
    /\ reports \subseteq Report
    /\ pc \in SendingPcs \cup {"boot", "idle", "save_report"}
    /\ mid \in 0 .. IdMax /\ msg \in Record \cup {NoRecord} /\ seg \in 0 .. MaxSegments
    /\ pc \in SendingPcs \cup {"save_report"} => mid \in Ids /\ msg \in Record
    /\ pc \in InFlightPcs \cup {"save_sending"} => seg \in Segments
    /\ hpc \in {"idle", "retry", "delete"}
    /\ hid \in 0 .. IdMax /\ hmsg \in Record \cup {NoRecord}
    /\ hpc # "idle" => hid \in Ids
    /\ hpc = "retry" => hmsg \in Record
    /\ faults \in 0 .. MaxFaults
    /\ crashes \in 0 .. MaxCrashes
    /\ submitted \in [Ids -> [Segments -> Nat]]
    /\ approvals \in [Ids -> [Segments -> Nat]]
    /\ confirmed \in [Ids -> SUBSET Segments]

Init ==
    /\ journal = [id \in Ids |-> NoRecord]
    /\ next_id = 1
    /\ ready = FALSE
    /\ next_ref = 0
    /\ reports = {}
    /\ pc = "boot" /\ mid = 0 /\ msg = NoRecord /\ seg = 0
    /\ hpc = "idle" /\ hid = 0 /\ hmsg = NoRecord
    /\ faults = 0 /\ crashes = 0
    /\ submitted = [id \in Ids |-> [s \in Segments |-> 0]]
    /\ approvals = [id \in Ids |-> [s \in Segments |-> 0]]
    /\ confirmed = [id \in Ids |-> {}]

-----------------------------------------------------------------------------
(* Flash.  A save of a record that has an id replaces it, or creates it     *)
(* again when it is gone and a slot is empty.  It can fail before the blob  *)
(* is set (nothing changes) or in nvs_commit (the new value is there).      *)

\* One more failure of flash or of an allocation.
Fault == faults < MaxFaults /\ faults' = faults + 1

sms_store_save(id, r, ok) ==
    LET room == journal[id].status # "EMPTY" \/ ~Full(journal) IN
    \/ /\ room /\ ok
       /\ journal' = [journal EXCEPT ![id] = r]
       /\ UNCHANGED faults
    \/ /\ room /\ ~ok
       /\ Fault
       /\ journal' \in {journal, [journal EXCEPT ![id] = r]}
    \/ /\ ~room /\ ~ok
       /\ UNCHANGED <<journal, faults>>

\* sms_service_send from the HTTP handler or the MQTT worker: one new record.
\* A failing save may already have pruned a record, spent an id, or left the
\* record behind (nvs_commit failed) although the caller gets an error.
NewRecord(recipient, report, count) ==
    [status |-> "QUEUED", recipient |-> recipient, report |-> report,
     count |-> count, sent |-> {}, delivered |-> {}, failed |-> {},
     ref |-> [s \in Segments |-> RefMax], inflight |-> 0]

sms_service_send(recipient, report, count) ==
    LET r     == NewRecord(recipient, report, count)
        room  == MakeRoom(journal, TRUE, 0)
        added == [room EXCEPT ![next_id] = r]
    IN
    /\ next_id < IdMax
    /\ HasRoom(journal, TRUE, 0)
    /\ \/ /\ journal' = added
          /\ next_id' = NextId(next_id)
          /\ UNCHANGED faults
       \/ /\ Fault
          /\ \/ journal' \in {journal, room} /\ next_id' = next_id
             \/ journal' \in {room, added} /\ next_id' = NextId(next_id)
    /\ UNCHANGED <<modem, service, http, crashes, history>>

-----------------------------------------------------------------------------
(* The service task.                                                        *)

ServiceIdle == pc' = "idle" /\ mid' = 0 /\ msg' = NoRecord /\ seg' = 0

\* Mutant: only records with a segment in flight are marked.
mark_interrupted_sends_uncertain_InFlight ==
    /\ pc = "boot"
    /\ LET later == {id \in Stored(journal) : id > mid} IN
       \/ /\ later = {}
          /\ ServiceIdle
          /\ UNCHANGED journal
       \/ /\ later # {}
          /\ mid' = Oldest(later)
          /\ UNCHANGED <<pc, msg, seg>>
          /\ LET m == journal[mid'] IN
             journal' = IF m.status = "SENDING" /\ m.inflight # 0
                        THEN [journal EXCEPT ![mid'].status = "UNCERTAIN"]
                        ELSE journal
    /\ UNCHANGED <<next_id, modem, http, bounds, history>>

\* After a reset every record left SENDING becomes UNCERTAIN.  mid is the
\* cursor of sms_store_list.  Nothing else writes a SENDING record, so the
\* read and the save are one step.  A failed save is ignored; a failed read or
\* allocation ends the pass.
mark_interrupted_sends_uncertain ==
    /\ pc = "boot"
    /\ LET later == {id \in Stored(journal) : id > mid} IN
       \/ /\ later = {}
          /\ ServiceIdle
          /\ UNCHANGED <<journal, faults>>
       \/ /\ later # {}
          /\ mid' = Oldest(later)
          /\ UNCHANGED <<pc, msg, seg>>
          /\ IF journal[mid'].status = "SENDING"
             THEN \E ok \in BOOLEAN :
                    sms_store_save(mid', [journal[mid'] EXCEPT !.status = "UNCERTAIN"], ok)
             ELSE UNCHANGED <<journal, faults>>
       \/ /\ Fault
          /\ ServiceIdle
          /\ UNCHANGED journal
    /\ UNCHANGED <<next_id, modem, http, crashes, history>>

\* Where the loop over the segments of m goes next.
ContinueWith(id, m) ==
    /\ mid' = id /\ msg' = m
    /\ IF Unsent(m) = {}
       THEN pc' = "save_sent" /\ seg' = 0
       ELSE pc' = "save_sending" /\ seg' = Least(Unsent(m))

\* The oldest queued message is taken.  Encoding it again can disagree with the
\* segment count stored when it was queued (another firmware wrote the record).
process_one_outbound ==
    /\ pc = "idle" /\ ready
    /\ WithStatus(journal, "QUEUED") # {}
    /\ LET id == Oldest(WithStatus(journal, "QUEUED")) IN
       \/ /\ ContinueWith(id, journal[id])
          /\ UNCHANGED faults
       \/ /\ Fault
          /\ mid' = id /\ msg' = [journal[id] EXCEPT !.status = "FAILED"]
          /\ pc' = "save_failed" /\ seg' = 0
    /\ UNCHANGED <<flash, modem, http, crashes, history>>

\* The service task saves m, its updated copy; next says where it goes when
\* the save succeeds.  After a failure it goes back to its loop.
ServiceSave(m, next) ==
    /\ \/ sms_store_save(mid, m, TRUE) /\ next
       \/ sms_store_save(mid, m, FALSE) /\ ServiceIdle
    /\ UNCHANGED <<next_id, modem, http, crashes, history>>

save_failed == pc = "save_failed" /\ ServiceSave(msg, ServiceIdle)

\* send_segment, first part: the intent is durable before AT+CMGS.
send_segment_begin ==
    /\ pc = "save_sending"
    /\ LET m == [msg EXCEPT !.status = "SENDING", !.inflight = seg]
       IN  ServiceSave(m, pc' = "cmgs" /\ msg' = m /\ UNCHANGED <<mid, seg>>)

\* No memory for the payload: the message goes back to the queue.
send_segment_no_buffer ==
    /\ pc = "cmgs"
    /\ Fault
    /\ pc' = "save_requeued"
    /\ UNCHANGED <<flash, modem, mid, msg, seg, http, crashes, history>>

send_segment_requeue ==
    /\ pc = "save_requeued"
    /\ ServiceSave([msg EXCEPT !.status = "QUEUED", !.inflight = 0], ServiceIdle)

\* AT+CMGS did not take place: the modem is gone, or it answered with an error
\* or not at all before the payload was transmitted.
cmgs_not_transmitted ==
    /\ pc = "cmgs"
    /\ pc' = "save_untransmitted"
    /\ UNCHANGED <<flash, modem, mid, msg, seg, http, bounds, history>>

\* The PDU reached the modem and the network refused it.
cmgs_refused ==
    /\ pc = "cmgs" /\ ready
    /\ pc' = "save_uncertain"
    /\ UNCHANGED <<flash, modem, mid, msg, seg, http, bounds, history>>

\* Mutant: the reference in the modem's answer is not taken over.
cmgs_accepted_NoReference ==
    /\ pc = "cmgs" /\ ready
    /\ submitted' = [submitted EXCEPT ![mid][seg] = @ + 1]
    /\ next_ref' = NextRef(next_ref)
    /\ \/ UNCHANGED <<reports, confirmed>>
       \/ /\ msg.report
          /\ reports' = reports \cup
                {[recipient |-> msg.recipient, ref |-> next_ref, kind |-> "delivered"]}
          /\ confirmed' = [confirmed EXCEPT ![mid] = @ \cup {seg}]
    /\ pc' = "save_segment"
    /\ msg' = [msg EXCEPT !.ref[seg] = 0]
    /\ UNCHANGED <<flash, ready, mid, seg, http, bounds, approvals>>

\* The network took the segment.  The confirmation with the TP-MR reaches the
\* gateway, or is lost.  A requested report may follow at any time.
cmgs_accepted ==
    /\ pc = "cmgs" /\ ready
    /\ submitted' = [submitted EXCEPT ![mid][seg] = @ + 1]
    /\ next_ref' = NextRef(next_ref)
    /\ \/ UNCHANGED <<reports, confirmed>>
       \/ /\ msg.report
          /\ \E kind \in ReportKinds :
                /\ reports' = reports \cup
                      {[recipient |-> msg.recipient, ref |-> next_ref, kind |-> kind]}
                /\ confirmed' = IF kind = "delivered"
                                THEN [confirmed EXCEPT ![mid] = @ \cup {seg}]
                                ELSE confirmed
    /\ \/ /\ pc' = "save_segment"
          /\ msg' = [msg EXCEPT !.ref[seg] = next_ref]
       \/ /\ pc' = "save_uncertain"
          /\ UNCHANGED msg
    /\ UNCHANGED <<flash, ready, mid, seg, http, bounds, approvals>>

\* Mutant: an ambiguous submission is queued again.
send_segment_uncertain_Requeues ==
    /\ pc \in {"save_uncertain", "save_untransmitted"}
    /\ ServiceSave([msg EXCEPT !.status = "QUEUED", !.inflight = 0], ServiceIdle)

send_segment_uncertain ==
    /\ pc \in {"save_uncertain", "save_untransmitted"}
    /\ ServiceSave([msg EXCEPT !.status = "UNCERTAIN"], ServiceIdle)

send_segment_confirmed ==
    /\ pc = "save_segment"
    /\ LET m == [msg EXCEPT !.sent = @ \cup {seg}, !.inflight = 0]
       IN  ServiceSave(m, ContinueWith(mid, m))

save_sent ==
    /\ pc = "save_sent"
    /\ ServiceSave([msg EXCEPT !.status = "SENT", !.inflight = 0], ServiceIdle)

\* The newest outbound record with a sent segment that has this TP-MR.
find_outbound_reference(recipient, ref) ==
    {id \in Stored(journal) :
        /\ journal[id].recipient = recipient
        /\ \E s \in journal[id].sent : journal[id].ref[s] = ref}

\* Mutant: a temporary error counts as delivered.
ApplyReport_Temporary(m, s, kind) ==
    LET delivered == IF kind # "permanent" THEN m.delivered \cup {s} ELSE m.delivered
        failed    == IF kind = "permanent" THEN m.failed \cup {s} ELSE m.failed
    IN  [m EXCEPT !.delivered = delivered,
                  !.failed = failed,
                  !.status = IF SegmentsOf(m) \subseteq delivered THEN "DELIVERED"
                             ELSE IF failed # {} THEN "FAILED" ELSE @]

ApplyReport(m, s, kind) ==
    LET delivered == IF kind = "delivered" THEN m.delivered \cup {s} ELSE m.delivered
        failed    == IF kind = "permanent" THEN m.failed \cup {s} ELSE m.failed
    IN  [m EXCEPT !.delivered = delivered,
                  !.failed = failed,
                  !.status = IF SegmentsOf(m) \subseteq delivered THEN "DELIVERED"
                             ELSE IF failed # {} THEN "FAILED" ELSE @]

\* A report is read from the modem or arrives as a URC.  The modem keeps its
\* copy when deleting it fails or the save below fails.
process_status_report_pdu(r) ==
    LET found == find_outbound_reference(r.recipient, r.ref)
        m     == journal[Newest(found)]
        s     == Least({i \in m.sent : m.ref[i] = r.ref})
    IN
    /\ pc = "idle"
    /\ found # {}
    /\ mid' = Newest(found)
    /\ msg' = ApplyReport(m, s, r.kind)
    /\ pc' = "save_report" /\ seg' = s
    /\ reports' \in {reports, reports \ {r}}
    /\ UNCHANGED <<flash, ready, next_ref, http, bounds, history>>

save_report == pc = "save_report" /\ ServiceSave(msg, ServiceIdle)

\* A report that is dropped on its way, or that matches no record when it
\* arrives as a URC.
lose_report(r) ==
    /\ reports' = reports \ {r}
    /\ UNCHANGED <<flash, ready, next_ref, service, http, bounds, history>>

-----------------------------------------------------------------------------
(* The HTTP task.  It runs one request at a time.                           *)

\* Mutant: the status is not checked.
sms_service_retry_uncertain_Any(id) ==
    /\ hpc = "idle"
    /\ journal[id].status # "EMPTY"
    /\ \A s \in Segments : approvals[id][s] < MaxRetries
    /\ hpc' = "retry" /\ hid' = id /\ hmsg' = journal[id]
    /\ UNCHANGED <<flash, modem, service, bounds, history>>

sms_service_retry_uncertain(id) ==
    /\ hpc = "idle"
    /\ journal[id].status = "UNCERTAIN"
    /\ \A s \in Segments : approvals[id][s] < MaxRetries
    /\ hpc' = "retry" /\ hid' = id /\ hmsg' = journal[id]
    /\ UNCHANGED <<flash, modem, service, bounds, history>>

HttpIdle == hpc' = "idle" /\ hid' = 0 /\ hmsg' = NoRecord

retry_save ==
    /\ hpc = "retry"
    /\ LET m == [hmsg EXCEPT !.status = "QUEUED", !.inflight = 0] IN
       /\ \E ok \in BOOLEAN : sms_store_save(hid, m, ok)
       /\ approvals' =
            IF journal'[hid] = m /\ hmsg.inflight # 0
            THEN [approvals EXCEPT ![hid][hmsg.inflight] = @ + 1]
            ELSE approvals
    /\ HttpIdle
    /\ UNCHANGED <<next_id, modem, service, crashes, submitted, confirmed>>

sms_service_delete(id) ==
    /\ hpc = "idle"
    /\ journal[id].status \notin {"EMPTY", "QUEUED", "SENDING"}
    /\ hpc' = "delete" /\ hid' = id
    /\ UNCHANGED <<flash, modem, service, hmsg, bounds, history>>

sms_store_delete ==
    /\ hpc = "delete"
    /\ \/ /\ journal' = [journal EXCEPT ![hid] = NoRecord]
          /\ UNCHANGED faults
       \/ /\ Fault
          /\ journal' \in {journal, [journal EXCEPT ![hid] = NoRecord]}
    /\ HttpIdle
    /\ UNCHANGED <<next_id, modem, service, crashes, history>>

-----------------------------------------------------------------------------
(* The environment.                                                         *)

ModemReady ==
    /\ ~ready
    /\ ready' = TRUE
    /\ UNCHANGED <<flash, next_ref, reports, service, http, bounds, history>>

ModemLost ==
    /\ ready
    /\ ready' = FALSE
    /\ UNCHANGED <<flash, next_ref, reports, service, http, bounds, history>>

\* Power loss, panic or reboot: flash survives, the tasks start again.
Crash ==
    /\ crashes < MaxCrashes
    /\ crashes' = crashes + 1
    /\ ready' = FALSE
    /\ pc' = "boot" /\ mid' = 0 /\ msg' = NoRecord /\ seg' = 0
    /\ HttpIdle
    /\ UNCHANGED <<flash, next_ref, reports, faults, history>>

ServiceStep ==
    \/ mark_interrupted_sends_uncertain
    \/ save_failed
    \/ send_segment_begin
    \/ send_segment_no_buffer
    \/ send_segment_requeue
    \/ cmgs_not_transmitted
    \/ cmgs_refused
    \/ cmgs_accepted
    \/ send_segment_uncertain
    \/ send_segment_confirmed
    \/ save_sent
    \/ save_report

HttpStep == retry_save \/ sms_store_delete

Next ==
    \/ \E recipient \in Recipients, report \in BOOLEAN, count \in Segments :
          sms_service_send(recipient, report, count)
    \/ ServiceStep
    \/ process_one_outbound
    \/ \E r \in reports : process_status_report_pdu(r) \/ lose_report(r)
    \/ \E id \in Ids : sms_service_retry_uncertain(id) \/ sms_service_delete(id)
    \/ HttpStep
    \/ ModemReady
    \/ ModemLost
    \/ Crash

Spec == Init /\ [][Next]_vars

\* The tasks do not stop; process_one_outbound is called in every round of the
\* service task's loop, also when reports keep arriving.
FairSpec ==
    /\ Spec
    /\ WF_vars(ServiceStep)
    /\ SF_vars(process_one_outbound)
    /\ WF_vars(HttpStep)

-----------------------------------------------------------------------------
(* Properties.                                                              *)

\* send_segment and mark_interrupted_sends_uncertain: whatever fails or
\* crashes, the network takes a segment at most once, plus once for every
\* retry in which the operator accepted to repeat that very segment.
AtMostOncePerApproval ==
    \A id \in Ids, s \in Segments :
        submitted[id][s] <= 1 + approvals[id][s]

\* process_one_outbound, process_status_report_pdu: a stored record claims no
\* more than what happened.  Segments marked sent were taken by the network,
\* SENT means all of them were, a delivery bit is set only for a segment the
\* network reported delivered (docs/sms-subsystem.md, "Delivery reports"), and
\* DELIVERED means that each has its bit.
StatusTruthful ==
    \A id \in Stored(journal) :
        LET m == journal[id] IN
        /\ m.sent \subseteq {s \in SegmentsOf(m) : submitted[id][s] >= 1}
        /\ m.status = "SENT" => m.sent = SegmentsOf(m)
        /\ m.delivered \subseteq m.sent \cap confirmed[id]
        /\ m.status = "DELIVERED" => m.delivered = SegmentsOf(m)

\* sms_service_delete ("Sending/in-flight messages cannot be deleted") and the
\* pruning in sms_store_save: a message that is queued, being sent or uncertain
\* never disappears, except an uncertain one that the operator deletes.
UnfinishedNeverLost ==
    [][\A id \in Stored(journal) :
          /\ journal[id].status \in {"QUEUED", "SENDING", "UNCERTAIN"}
          /\ id \notin Stored(journal)'
          => journal[id].status = "UNCERTAIN" /\ hpc = "delete" /\ hid = id]_vars

\* A final state is left only by a retry that read the record while it was
\* still uncertain: sms_service_retry_uncertain checks the status in one store
\* call and saves in another, a report can be recorded between the two.
FinalStatusLeftByStaleRetryOnly ==
    [][\A id \in Stored(journal) :
          /\ journal[id].status \in {"DELIVERED", "FAILED", "SENT"}
          /\ journal'[id].status \in {"QUEUED", "SENDING", "UNCERTAIN"}
          => hpc = "retry" /\ hid = id /\ hmsg.status = "UNCERTAIN"]_vars

\* service_task: when the modem stays ready and no write fails, every accepted
\* message is submitted, refused or declared uncertain; it waits neither in the
\* queue nor in the middle of sending for ever.
AcceptedIsSettled ==
    <>[]ready /\ [](faults = 0) =>
        \A id \in Ids :
            journal[id].status \in {"QUEUED", "SENDING"}
                ~> journal[id].status \notin {"QUEUED", "SENDING"}

-----------------------------------------------------------------------------
(* The inductive invariant behind AtMostOncePerApproval.                    *)

\* Another submission of segment s is covered by an approval, or is the first.
MaySubmit(id, s) == submitted[id][s] <= approvals[id][s]

\* A copy of record id: all segments may be submitted but the ones it marks
\* sent and the one it marks in flight.  In a queued copy none is in flight.
CopyOK(id, m) ==
    /\ \A s \in Segments : s \in m.sent \/ s = m.inflight \/ MaySubmit(id, s)
    /\ m.status = "QUEUED" => m.inflight = 0

Busy(id) == id \in Ids /\ journal[id].status \in {"QUEUED", "SENDING"}

\* The copies in the hands of the service task.
ServiceCopyOK ==
    /\ pc \in SendingPcs =>
          /\ Busy(mid) /\ CopyOK(mid, msg)
    /\ pc = "save_report" =>
          /\ mid \in Ids /\ CopyOK(mid, msg)
          /\ msg.status \in {"QUEUED", "SENDING"} => journal[mid].status = msg.status
    /\ pc = "save_failed" => msg.status = "FAILED"
    /\ pc \in {"save_sending", "save_sent"} => msg.inflight = 0
    /\ pc \in InFlightPcs =>
          msg.status = "SENDING" /\ msg.inflight = seg /\ journal[mid].inflight = seg
    /\ pc \in {"save_sending", "cmgs", "save_requeued"} => MaySubmit(mid, seg)

\* The HTTP task holds a record that is neither queued nor being sent.
HttpCopyOK ==
    hpc # "idle" =>
        /\ hid \in Ids /\ hid < next_id /\ ~Busy(hid)
        /\ hpc = "retry" => hmsg.status = "UNCERTAIN" /\ CopyOK(hid, hmsg)

StoredCopiesOK == \A id \in Stored(journal) : CopyOK(id, journal[id])

\* Ids that were not handed out are unused.
UnusedIds ==
    /\ mid < next_id
    /\ \A id \in Ids : id >= next_id =>
          journal[id] = NoRecord /\ \A s \in Segments : submitted[id][s] = 0

\* Whatever copy of a record survives a reset, a lost race or a failed write,
\* submitting what it calls unsent exceeds no approval.
SubmissionInv ==
    /\ AtMostOncePerApproval
    /\ StoredCopiesOK
    /\ ServiceCopyOK
    /\ HttpCopyOK
    /\ UnusedIds
=============================================================================
