-------------------------- MODULE SmsOutboundProofs --------------------------
(***************************************************************************)
(* What holds of SmsOutbound for every capacity, id range, segment limit    *)
(* and number of faults, resets and retries: its types, the limit on        *)
(* submissions, the truth of what stored records claim, and what a step may *)
(* do to a stored record.                                                   *)
(***************************************************************************)
EXTENDS SmsOutbound, TLAPS, WellFoundedInduction

\* A non-empty set of natural numbers has a least element.
LEMMA LeastExists ==
    ASSUME NEW S \in SUBSET Nat, S # {}
    PROVE  \E x \in S : \A y \in S : x <= y
<1>1. \E x \in S : \A y \in S : ~(<<y, x>> \in OpToRel(<, Nat))
  BY NatLessThanWellFounded, WFMin
<1>2. PICK x \in S : \A y \in S : ~(<<y, x>> \in OpToRel(<, Nat))
  BY <1>1
<1>3. \A y \in S : ~(y < x)
  BY <1>2 DEF OpToRel
<1> QED
  BY <1>3

\* So has a non-empty set of ids a largest one.
LEMMA NewestExists ==
    ASSUME NEW S \in SUBSET Ids, S # {}
    PROVE  \E x \in S : \A y \in S : y <= x
<1> DEFINE T == {IdMax - x : x \in S}
<1>0. IdMax \in Nat /\ \A x \in S : x \in Nat /\ x <= IdMax
  BY RecordsAssumption DEF Ids
<1>1. T \in SUBSET Nat /\ T # {}
  <2>1. \A x \in S : IdMax - x \in Nat
    BY <1>0
  <2>2. PICK x \in S : TRUE
    OBVIOUS
  <2>3. IdMax - x \in T
    BY <2>2
  <2> QED
    BY <2>1, <2>3
<1>2. PICK t \in T : \A u \in T : t <= u
  BY <1>1, LeastExists
<1>3. PICK x \in S : t = IdMax - x
  BY <1>2
<1>4. \A y \in S : IdMax - x <= IdMax - y
  BY <1>2, <1>3
<1> QED
  BY <1>0, <1>3, <1>4

\* The scans of the store return an element of what they search.
LEMMA OldestIn ==
    ASSUME NEW S \in SUBSET Ids, S # {}
    PROVE  Oldest(S) \in S
<1>1. S \in SUBSET Nat
  BY RecordsAssumption DEF Ids
<1>2. \E x \in S : \A y \in S : x <= y
  BY <1>1, LeastExists
<1> QED
  BY <1>2 DEF Oldest

\* find_outbound_reference returns an element of what it searches.
LEMMA NewestIn ==
    ASSUME NEW S \in SUBSET Ids, S # {}
    PROVE  Newest(S) \in S
<1>1. \E x \in S : \A y \in S : y <= x
  BY NewestExists
<1> QED
  BY <1>1 DEF Newest

\* So does the search for the segment of a report, and for the next to send.
LEMMA LeastIn ==
    ASSUME NEW S \in SUBSET Segments, S # {}
    PROVE  Least(S) \in S
<1>1. S \in SUBSET Nat
  BY OutboundAssumption DEF Segments
<1>2. \E x \in S : \A y \in S : x <= y
  BY <1>1, LeastExists
<1> QED
  BY <1>2 DEF Least

\* Making room drops nothing but a prunable record.
LEMMA MakeRoomKeeps ==
    ASSUME NEW j \in [Ids -> Record \cup {NoRecord}], HasRoom(j, TRUE, 0)
    PROVE  /\ MakeRoom(j, TRUE, 0) \in [Ids -> Record \cup {NoRecord}]
           /\ \A id \in Ids :
                 \/ MakeRoom(j, TRUE, 0)[id] = j[id]
                 \/ /\ MakeRoom(j, TRUE, 0)[id] = NoRecord
                    /\ j[id].status \in {"RECEIVED", "SENT", "DELIVERED", "FAILED", "UNSUPPORTED"}
<1> DEFINE P == Prunable(j, TRUE, 0)
<1>1. CASE ~Full(j)
  BY <1>1 DEF MakeRoom
<1>2. CASE Full(j)
  <2>1. P \in SUBSET Ids /\ P # {}
    BY <1>2 DEF HasRoom, Prunable, Stored
  <2>2. Oldest(P) \in P
    BY <2>1, OldestIn
  <2>3. j[Oldest(P)].status \in {"RECEIVED", "SENT", "DELIVERED", "FAILED", "UNSUPPORTED"}
    BY <2>2 DEF Prunable, record_prunable
  <2>4. MakeRoom(j, TRUE, 0) = [j EXCEPT ![Oldest(P)] = NoRecord]
    BY <1>2 DEF MakeRoom
  <2> QED
    BY <2>1, <2>2, <2>3, <2>4
<1> QED
  BY <1>1, <1>2

-----------------------------------------------------------------------------
(* Types.                                                                   *)

\* The field updates of send_segment and process_one_outbound keep a record's type.
LEMMA RecordUpdates ==
    ASSUME NEW m \in Record
    PROVE  /\ \A st \in OutStatus : [m EXCEPT !.status = st] \in Record
           /\ \A st \in OutStatus, i \in 0 .. MaxSegments :
                 [m EXCEPT !.status = st, !.inflight = i] \in Record
           /\ \A s \in Segments, ref \in Refs : [m EXCEPT !.ref[s] = ref] \in Record
           /\ \A s \in Segments : [m EXCEPT !.sent = @ \cup {s}, !.inflight = 0] \in Record
<1>1. 0 \in 0 .. MaxSegments
  BY OutboundAssumption
<1>2. \A st \in OutStatus : [m EXCEPT !.status = st] \in Record
  BY DEF Record
<1>3. \A st \in OutStatus, i \in 0 .. MaxSegments :
         [m EXCEPT !.status = st, !.inflight = i] \in Record
  BY DEF Record
<1>4. \A s \in Segments, ref \in Refs : [m EXCEPT !.ref[s] = ref] \in Record
  BY DEF Record
<1>5. \A s \in Segments : [m EXCEPT !.sent = @ \cup {s}, !.inflight = 0] \in Record
  BY <1>1 DEF Record
<1> QED
  BY <1>2, <1>3, <1>4, <1>5

\* So does a delivery report.
LEMMA ApplyReportType ==
    ASSUME NEW m \in Record, NEW s \in Segments, NEW kind
    PROVE  ApplyReport(m, s, kind) \in Record
<1> DEFINE delivered == IF kind = "delivered" THEN m.delivered \cup {s} ELSE m.delivered
           failed    == IF kind = "permanent" THEN m.failed \cup {s} ELSE m.failed
           status    == IF SegmentsOf(m) \subseteq delivered THEN "DELIVERED"
                        ELSE IF failed # {} THEN "FAILED" ELSE m.status
<1>1. delivered \in SUBSET Segments /\ failed \in SUBSET Segments
  BY DEF Record
<1>2. status \in OutStatus
  BY DEF Record, OutStatus
<1>3. ApplyReport(m, s, kind) =
         [m EXCEPT !.delivered = delivered, !.failed = failed, !.status = status]
  BY DEF ApplyReport, Record
<1> HIDE DEF delivered, failed, status
<1> QED
  BY <1>1, <1>2, <1>3 DEF Record

\* Counting one more submission or approval.
LEMMA CountType ==
    ASSUME NEW f \in [Ids -> [Segments -> Nat]], NEW id \in Ids, NEW s \in Segments
    PROVE  [f EXCEPT ![id][s] = @ + 1] \in [Ids -> [Segments -> Nat]]
OBVIOUS

\* The statuses the code assigns are statuses of outbound records.
LEMMA StatusNames ==
    /\ {"QUEUED", "SENDING", "SENT", "FAILED", "UNCERTAIN"} \subseteq OutStatus
    /\ "EMPTY" \notin OutStatus
BY DEF OutStatus

\* A slot that is not empty holds a record.
LEMMA StoredIsRecord ==
    ASSUME TypeOK, NEW id \in Ids, journal[id].status # "EMPTY"
    PROVE  journal[id] \in Record
BY DEF TypeOK, NoRecord

\* The number of faults stays within its bound.
LEMMA FaultType ==
    ASSUME TypeOK, Fault
    PROVE  faults' \in 0 .. MaxFaults
BY OutboundAssumption DEF TypeOK, Fault

\* sms_store_save of a record keeps the journal's type.
LEMMA SaveType ==
    ASSUME TypeOK, NEW id \in Ids, NEW r \in Record, NEW ok, sms_store_save(id, r, ok)
    PROVE  /\ journal' \in [Ids -> Record \cup {NoRecord}]
           /\ faults' \in 0 .. MaxFaults
<1>1. faults' \in 0 .. MaxFaults
  BY OutboundAssumption DEF TypeOK, sms_store_save, Fault
<1>2. journal' \in [Ids -> Record \cup {NoRecord}]
  BY DEF TypeOK, sms_store_save
<1>3. QED
  BY <1>1, <1>2

\* What the tasks' other steps do to the locals of the service task.
LEMMA ServiceIdleType ==
    ASSUME ServiceIdle
    PROVE  /\ pc' = "idle" /\ mid' \in 0 .. IdMax
           /\ msg' \in Record \cup {NoRecord} /\ seg' \in 0 .. MaxSegments
BY RecordsAssumption, OutboundAssumption DEF ServiceIdle

\* Where the loop over the segments of m goes next: a segment that is unsent, or
\* save_sent when there is none.
LEMMA ContinueType ==
    ASSUME NEW id \in Ids, NEW m \in Record, ContinueWith(id, m)
    PROVE  /\ mid' = id /\ msg' = m
           /\ \/ pc' = "save_sent" /\ seg' = 0
              \/ pc' = "save_sending" /\ seg' \in Segments /\ seg' \in Unsent(m)
<1>1. Unsent(m) \in SUBSET Segments
  BY OutboundAssumption DEF Unsent, SegmentsOf, Record, Segments
<1>2. Unsent(m) # {} => Least(Unsent(m)) \in Unsent(m)
  BY <1>1, LeastIn
<1> QED
  BY <1>1, <1>2 DEF ContinueWith

\* A save of the service task after which it returns to its loop.
LEMMA SaveThenIdleType ==
    ASSUME TypeOK, mid \in Ids, NEW m \in Record, ServiceSave(m, ServiceIdle)
    PROVE  TypeOK'
<1>1. /\ sms_store_save(mid, m, TRUE) \/ sms_store_save(mid, m, FALSE)
      /\ ServiceIdle
      /\ UNCHANGED <<next_id, modem, http, crashes, history>>
  BY DEF ServiceSave
<1>2. journal' \in [Ids -> Record \cup {NoRecord}] /\ faults' \in 0 .. MaxFaults
  BY <1>1, SaveType
<1> QED
  BY <1>1, <1>2, ServiceIdleType DEF TypeOK, SendingPcs, InFlightPcs, modem, http, history

\* sms_service.c keeps its records, ids, masks and references in range: every
\* reachable state satisfies the type invariant.
THEOREM TypeCorrect == Spec => []TypeOK
<1>1. Init => TypeOK
  <2> SUFFICES ASSUME Init PROVE TypeOK
    OBVIOUS
  <2>1. /\ journal \in [Ids -> Record \cup {NoRecord}]
        /\ next_id \in Ids /\ next_ref \in Refs
    BY RecordsAssumption, OutboundAssumption DEF Init, Ids, Refs
  <2>2. ready \in BOOLEAN /\ reports \subseteq Report
    BY DEF Init
  <2>3. /\ pc \in SendingPcs \cup {"boot", "idle", "save_report"}
        /\ pc \notin SendingPcs \cup {"save_report"}
        /\ pc \notin InFlightPcs \cup {"save_sending"}
    BY DEF Init, SendingPcs, InFlightPcs
  <2>4. /\ mid \in 0 .. IdMax /\ msg \in Record \cup {NoRecord} /\ seg \in 0 .. MaxSegments
        /\ hpc \in {"idle", "retry", "delete"}
        /\ hid \in 0 .. IdMax /\ hmsg \in Record \cup {NoRecord}
        /\ hpc = "idle"
    BY RecordsAssumption, OutboundAssumption DEF Init
  <2>5. faults \in 0 .. MaxFaults /\ crashes \in 0 .. MaxCrashes
    BY OutboundAssumption DEF Init
  <2>6. /\ submitted \in [Ids -> [Segments -> Nat]]
        /\ approvals \in [Ids -> [Segments -> Nat]]
        /\ confirmed \in [Ids -> SUBSET Segments]
    BY DEF Init
  <2> QED
    BY <2>1, <2>2, <2>3, <2>4, <2>5, <2>6 DEF TypeOK
<1>2. TypeOK /\ [Next]_vars => TypeOK'
  <2> SUFFICES ASSUME TypeOK, [Next]_vars
               PROVE  TypeOK'
    OBVIOUS
  <2> USE RecordsAssumption, OutboundAssumption
  <2>1. ASSUME NEW recipient \in Recipients, NEW report \in BOOLEAN, NEW count \in Segments,
               sms_service_send(recipient, report, count)
        PROVE  TypeOK'
    <3>1. NewRecord(recipient, report, count) \in Record
      BY DEF NewRecord, Record, OutStatus, Segments, Refs
    <3>2. MakeRoom(journal, TRUE, 0) \in [Ids -> Record \cup {NoRecord}]
      BY <2>1, MakeRoomKeeps DEF sms_service_send, TypeOK
    <3>3. journal' \in [Ids -> Record \cup {NoRecord}]
      BY <2>1, <3>1, <3>2 DEF sms_service_send, TypeOK, Ids
    <3>4. next_id \in 1 .. IdMax /\ NextId(next_id) \in 1 .. IdMax
      BY DEF TypeOK, Ids, NextId
    <3>5. next_id' \in Ids
      BY <2>1, <3>4 DEF sms_service_send, Ids
    <3>6. faults' \in 0 .. MaxFaults
      BY <2>1, FaultType DEF sms_service_send, TypeOK
    <3> QED
      BY <2>1, <3>3, <3>5, <3>6 DEF sms_service_send, TypeOK, modem, service, http, history
  <2>2. CASE mark_interrupted_sends_uncertain
    <3> DEFINE later == {id \in Stored(journal) : id > mid}
    <3>1. later # {} => Oldest(later) \in Ids
      BY OldestIn DEF Stored
    <3>2. \A id \in Ids : journal[id].status = "SENDING" =>
             journal[id] \in Record /\ [journal[id] EXCEPT !.status = "UNCERTAIN"] \in Record
      BY StoredIsRecord, RecordUpdates, StatusNames
    <3>3. /\ journal' \in [Ids -> Record \cup {NoRecord}]
          /\ faults' \in 0 .. MaxFaults
      <4>1. CASE UNCHANGED <<journal, faults>>
        BY <4>1 DEF TypeOK
      <4>2. CASE Fault /\ UNCHANGED journal
        BY <4>2, FaultType DEF TypeOK
      <4>3. ASSUME later # {}, mid' = Oldest(later), journal[mid'].status = "SENDING",
                   NEW ok \in BOOLEAN,
                   sms_store_save(mid', [journal[mid'] EXCEPT !.status = "UNCERTAIN"], ok)
            PROVE  /\ journal' \in [Ids -> Record \cup {NoRecord}]
                   /\ faults' \in 0 .. MaxFaults
        <5>1. PICK id \in Ids : id = mid'
          BY <3>1, <4>3
        <5>2. [journal[id] EXCEPT !.status = "UNCERTAIN"] \in Record
          BY <3>2, <4>3, <5>1
        <5> QED
          BY <4>3, <5>1, <5>2, SaveType
      <4> QED
        BY <2>2, <4>1, <4>2, <4>3 DEF mark_interrupted_sends_uncertain
    <3>4. /\ pc' \in {"boot", "idle"} /\ mid' \in 0 .. IdMax
          /\ msg' \in Record \cup {NoRecord} /\ seg' \in 0 .. MaxSegments
      BY <2>2, <3>1, ServiceIdleType DEF mark_interrupted_sends_uncertain, TypeOK, Ids
    <3> QED
      BY <2>2, <3>3, <3>4
      DEF mark_interrupted_sends_uncertain, TypeOK, SendingPcs, InFlightPcs, modem, http, history
  <2>3. CASE save_failed
    <3>1. mid \in Ids /\ msg \in Record
      BY <2>3 DEF save_failed, TypeOK, SendingPcs, InFlightPcs, Record, OutStatus
    <3>2. ServiceSave(msg, ServiceIdle)
      BY <2>3 DEF save_failed
    <3> QED
      BY <3>1, <3>2, SaveThenIdleType
  <2>4. CASE send_segment_begin
    <3> DEFINE m == [msg EXCEPT !.status = "SENDING", !.inflight = seg]
    <3>1. mid \in Ids /\ m \in Record /\ seg \in Segments
      BY <2>4 DEF send_segment_begin, TypeOK, SendingPcs, Record, OutStatus
    <3>2. /\ sms_store_save(mid, m, TRUE) \/ sms_store_save(mid, m, FALSE)
          /\ \/ pc' = "cmgs" /\ msg' = m /\ UNCHANGED <<mid, seg>>
             \/ ServiceIdle
          /\ UNCHANGED <<next_id, modem, http, crashes, history>>
      BY <2>4 DEF send_segment_begin, ServiceSave
    <3>3. journal' \in [Ids -> Record \cup {NoRecord}] /\ faults' \in 0 .. MaxFaults
      BY <3>1, <3>2, SaveType
    <3> QED
      BY <3>1, <3>2, <3>3, ServiceIdleType
      DEF TypeOK, SendingPcs, InFlightPcs, modem, http, history
  <2>5. CASE send_segment_no_buffer
    BY <2>5 DEF send_segment_no_buffer, TypeOK, Fault, SendingPcs, InFlightPcs, flash, modem, http, bounds, history
  <2>6. CASE send_segment_requeue
    <3>0. mid \in Ids /\ msg \in Record /\ 0 \in 0 .. MaxSegments
      BY <2>6 DEF send_segment_requeue, TypeOK, SendingPcs
    <3>1. mid \in Ids /\ [msg EXCEPT !.status = "QUEUED", !.inflight = 0] \in Record
      BY <3>0, RecordUpdates, StatusNames
    <3>2. ServiceSave([msg EXCEPT !.status = "QUEUED", !.inflight = 0], ServiceIdle)
      BY <2>6 DEF send_segment_requeue
    <3> QED
      BY <3>1, <3>2, SaveThenIdleType
  <2>7. CASE cmgs_not_transmitted
    BY <2>7 DEF cmgs_not_transmitted, TypeOK, Fault, SendingPcs, InFlightPcs, flash, modem, http, bounds, history
  <2>8. CASE cmgs_refused
    BY <2>8 DEF cmgs_refused, TypeOK, Fault, SendingPcs, InFlightPcs, flash, modem, http, bounds, history
  <2>9. CASE cmgs_accepted
    <3>1. mid \in Ids /\ seg \in Segments /\ msg \in Record
      BY <2>9 DEF cmgs_accepted, TypeOK, SendingPcs, InFlightPcs
    <3>2. submitted' \in [Ids -> [Segments -> Nat]]
      BY <2>9, <3>1 DEF cmgs_accepted, TypeOK
    <3>3. next_ref' \in Refs
      <4>1. next_ref \in 0 .. RefMax /\ next_ref' = NextRef(next_ref)
        BY <2>9 DEF cmgs_accepted, TypeOK, Refs
      <4> QED
        BY <4>1 DEF Refs, NextRef
    <3>4. reports' \subseteq Report
      BY <2>9, <3>1 DEF cmgs_accepted, TypeOK, Report, Record
    <3>5. confirmed' \in [Ids -> SUBSET Segments]
      <4>1. [confirmed EXCEPT ![mid] = @ \cup {seg}] \in [Ids -> SUBSET Segments]
        BY <3>1 DEF TypeOK
      <4>2. confirmed' = confirmed \/ confirmed' = [confirmed EXCEPT ![mid] = @ \cup {seg}]
        BY <2>9 DEF cmgs_accepted
      <4> QED
        BY <4>1, <4>2 DEF TypeOK
    <3>6. msg' \in Record
      <4>1. next_ref \in Refs /\ (msg' = msg \/ msg' = [msg EXCEPT !.ref[seg] = next_ref])
        BY <2>9 DEF cmgs_accepted, TypeOK
      <4>2. [msg EXCEPT !.ref[seg] = next_ref] \in Record
        BY <3>1, <4>1 DEF Record
      <4> QED
        BY <3>1, <4>1, <4>2
    <3>7. pc' \in {"save_segment", "save_uncertain"}
      BY <2>9 DEF cmgs_accepted
    <3> QED
      BY <2>9, <3>1, <3>2, <3>3, <3>4, <3>5, <3>6, <3>7
      DEF cmgs_accepted, TypeOK, SendingPcs, InFlightPcs, flash, http, bounds
  <2>10. CASE send_segment_uncertain
    <3>1. mid \in Ids /\ [msg EXCEPT !.status = "UNCERTAIN"] \in Record
      BY <2>10 DEF send_segment_uncertain, TypeOK, SendingPcs, InFlightPcs, Record, OutStatus
    <3>2. ServiceSave([msg EXCEPT !.status = "UNCERTAIN"], ServiceIdle)
      BY <2>10 DEF send_segment_uncertain
    <3> QED
      BY <3>1, <3>2, SaveThenIdleType
  <2>11. CASE send_segment_confirmed
    <3> DEFINE m == [msg EXCEPT !.sent = @ \cup {seg}, !.inflight = 0]
    <3>0. mid \in Ids /\ msg \in Record /\ seg \in Segments
      BY <2>11 DEF send_segment_confirmed, TypeOK, SendingPcs, InFlightPcs
    <3>1. mid \in Ids /\ m \in Record
      BY <3>0, RecordUpdates
    <3>2. /\ sms_store_save(mid, m, TRUE) \/ sms_store_save(mid, m, FALSE)
          /\ ContinueWith(mid, m) \/ ServiceIdle
          /\ UNCHANGED <<next_id, modem, http, crashes, history>>
      BY <2>11 DEF send_segment_confirmed, ServiceSave
    <3>3. journal' \in [Ids -> Record \cup {NoRecord}] /\ faults' \in 0 .. MaxFaults
      BY <3>1, <3>2, SaveType
    <3>4. /\ pc' \in {"idle", "save_sending", "save_sent"} /\ mid' \in 0 .. IdMax
          /\ msg' \in Record \cup {NoRecord} /\ seg' \in 0 .. MaxSegments
          /\ pc' # "idle" => mid' \in Ids /\ msg' \in Record
          /\ pc' = "save_sending" => seg' \in Segments
      <4>1. CASE ServiceIdle
        BY <4>1, ServiceIdleType
      <4>2. CASE ContinueWith(mid, m)
        BY <4>2, <3>1, ContinueType DEF Ids, Segments
      <4> QED
        BY <3>2, <4>1, <4>2
    <3> HIDE DEF m
    <3> QED
      BY <3>2, <3>3, <3>4 DEF TypeOK, SendingPcs, InFlightPcs, modem, http, history
  <2>12. CASE save_sent
    <3>0. mid \in Ids /\ msg \in Record /\ 0 \in 0 .. MaxSegments
      BY <2>12 DEF save_sent, TypeOK, SendingPcs
    <3>1. mid \in Ids /\ [msg EXCEPT !.status = "SENT", !.inflight = 0] \in Record
      BY <3>0, RecordUpdates, StatusNames
    <3>2. ServiceSave([msg EXCEPT !.status = "SENT", !.inflight = 0], ServiceIdle)
      BY <2>12 DEF save_sent
    <3> QED
      BY <3>1, <3>2, SaveThenIdleType
  <2>13. CASE save_report
    <3>1. mid \in Ids /\ msg \in Record
      BY <2>13 DEF save_report, TypeOK, SendingPcs, InFlightPcs, Record, OutStatus
    <3>2. ServiceSave(msg, ServiceIdle)
      BY <2>13 DEF save_report
    <3> QED
      BY <3>1, <3>2, SaveThenIdleType
  <2>14. CASE process_one_outbound
    <3> DEFINE id == Oldest(WithStatus(journal, "QUEUED"))
    <3>1. id \in WithStatus(journal, "QUEUED") /\ id \in Ids
      BY <2>14, OldestIn DEF process_one_outbound, WithStatus, Stored
    <3>2. journal[id] \in Record /\ [journal[id] EXCEPT !.status = "FAILED"] \in Record
      BY <3>1, StoredIsRecord, RecordUpdates, StatusNames DEF WithStatus
    <3>3. /\ mid' \in Ids /\ msg' \in Record /\ seg' \in 0 .. MaxSegments
          /\ pc' \in {"save_sent", "save_sending", "save_failed"}
          /\ pc' = "save_sending" => seg' \in Segments
      BY <2>14, <3>1, <3>2, ContinueType DEF process_one_outbound, Segments
    <3>4. faults' \in 0 .. MaxFaults
      BY <2>14 DEF process_one_outbound, TypeOK, Fault
    <3>5. mid' \in 0 .. IdMax
      BY <3>3 DEF Ids
    <3> HIDE DEF id
    <3> QED
      BY <2>14, <3>3, <3>4, <3>5
      DEF process_one_outbound, TypeOK, SendingPcs, InFlightPcs, flash, modem, http, history
  <2>15. ASSUME NEW r \in reports, process_status_report_pdu(r)
         PROVE  TypeOK'
    <3> DEFINE found == find_outbound_reference(r.recipient, r.ref)
               m     == journal[Newest(found)]
               s     == Least({i \in m.sent : m.ref[i] = r.ref})
    <3>1. Newest(found) \in found /\ Newest(found) \in Ids
      BY <2>15, NewestIn DEF process_status_report_pdu, find_outbound_reference, Stored
    <3>2. m \in Record
      BY <3>1, StoredIsRecord DEF find_outbound_reference, Stored
    <3>3. s \in Segments
      <4> DEFINE S == {i \in m.sent : m.ref[i] = r.ref}
      <4>1. m.sent \in SUBSET Segments
        BY <3>2 DEF Record
      <4>2. S # {}
        BY <3>1 DEF find_outbound_reference
      <4> QED
        BY <4>1, <4>2, LeastIn
    <3>4. ApplyReport(m, s, r.kind) \in Record
      BY <3>2, <3>3, ApplyReportType
    <3>5. reports' \subseteq Report
      BY <2>15 DEF process_status_report_pdu, TypeOK
    <3>6. /\ pc' = "save_report" /\ mid' \in Ids /\ mid' \in 0 .. IdMax
          /\ msg' \in Record /\ seg' \in 0 .. MaxSegments
      <4>1. /\ pc' = "save_report" /\ mid' = Newest(found)
            /\ msg' = ApplyReport(m, s, r.kind) /\ seg' = s
        BY <2>15, Zenon DEF process_status_report_pdu
      <4>2. mid' \in Ids /\ msg' \in Record /\ seg' \in Segments
        BY <4>1, <3>1, <3>3, <3>4, Zenon
      <4>3. mid' \in 0 .. IdMax
        BY <4>2, RecordsAssumption DEF Ids
      <4>4. seg' \in 0 .. MaxSegments
        BY <4>2, OutboundAssumption DEF Segments
      <4> QED
        BY <4>1, <4>2, <4>3, <4>4, Zenon
    <3> QED
      BY <2>15, <3>5, <3>6
      DEF process_status_report_pdu, TypeOK, SendingPcs, InFlightPcs,
          flash, http, bounds, history
  <2>16. ASSUME NEW r \in reports, lose_report(r)
         PROVE  TypeOK'
    BY <2>16 DEF lose_report, TypeOK, flash, service, http, bounds, history
  <2>17. ASSUME NEW id \in Ids, sms_service_retry_uncertain(id)
         PROVE  TypeOK'
    <3>1. journal[id] \in Record
      BY <2>17 DEF sms_service_retry_uncertain, TypeOK, NoRecord
    <3> QED
      BY <2>17, <3>1
      DEF sms_service_retry_uncertain, TypeOK, Ids, flash, modem, service, bounds, history
  <2>18. ASSUME NEW id \in Ids, sms_service_delete(id)
         PROVE  TypeOK'
    BY <2>18 DEF sms_service_delete, TypeOK, Ids, flash, modem, service, bounds, history
  <2>19. CASE retry_save
    <3> DEFINE m == [hmsg EXCEPT !.status = "QUEUED", !.inflight = 0]
    <3>0. hid \in Ids /\ hmsg \in Record /\ 0 \in 0 .. MaxSegments
      BY <2>19 DEF retry_save, TypeOK
    <3>1. hid \in Ids /\ m \in Record /\ hmsg.inflight \in 0 .. MaxSegments
      BY <3>0, RecordUpdates, StatusNames DEF Record
    <3>2. PICK ok \in BOOLEAN : sms_store_save(hid, m, ok)
      BY <2>19 DEF retry_save
    <3>3. journal' \in [Ids -> Record \cup {NoRecord}] /\ faults' \in 0 .. MaxFaults
      BY <3>1, <3>2, SaveType
    <3>4. approvals' \in [Ids -> [Segments -> Nat]]
      <4>1. approvals' = approvals \/ (hmsg.inflight # 0 /\
                  approvals' = [approvals EXCEPT ![hid][hmsg.inflight] = @ + 1])
        BY <2>19 DEF retry_save
      <4>2. hmsg.inflight # 0 => hmsg.inflight \in Segments
        BY <3>1 DEF Segments
      <4>3. approvals \in [Ids -> [Segments -> Nat]]
        BY DEF TypeOK
      <4> QED
        BY <3>1, <4>1, <4>2, <4>3, CountType
    <3> QED
      BY <2>19, <3>3, <3>4 DEF retry_save, HttpIdle, TypeOK, modem, service
  <2>20. CASE sms_store_delete
    <3>1. faults' \in 0 .. MaxFaults
      BY <2>20, FaultType DEF sms_store_delete, TypeOK
    <3>2. hid \in Ids /\ journal' \in {journal, [journal EXCEPT ![hid] = NoRecord]}
      BY <2>20 DEF sms_store_delete, TypeOK
    <3>3. journal' \in [Ids -> Record \cup {NoRecord}]
      BY <3>2 DEF TypeOK
    <3> QED
      BY <2>20, <3>1, <3>3 DEF sms_store_delete, HttpIdle, TypeOK, modem, service, history
  <2>21. CASE ModemReady
    BY <2>21 DEF ModemReady, TypeOK, flash, service, http, bounds, history
  <2>22. CASE ModemLost
    BY <2>22 DEF ModemLost, TypeOK, flash, service, http, bounds, history
  <2>23. CASE Crash
    <3>1. /\ crashes' \in 0 .. MaxCrashes /\ mid' \in 0 .. IdMax
          /\ seg' \in 0 .. MaxSegments /\ hid' \in 0 .. IdMax
      BY <2>23 DEF Crash, HttpIdle, TypeOK
    <3>2. ready' \in BOOLEAN
      BY <2>23 DEF Crash
    <3>3. pc' = "boot" /\ hpc' = "idle" /\ msg' = NoRecord /\ hmsg' = NoRecord
      BY <2>23 DEF Crash, HttpIdle
    <3> QED
      BY <2>23, <3>1, <3>2, <3>3
      DEF Crash, TypeOK, SendingPcs, InFlightPcs, flash, history
  <2>24. CASE UNCHANGED vars
    BY <2>24 DEF TypeOK, vars, flash, modem, service, http, bounds, history
  <2> QED
    BY <2>1, <2>2, <2>3, <2>4, <2>5, <2>6, <2>7, <2>8, <2>9, <2>10, <2>11, <2>12, <2>13,
       <2>14, <2>15, <2>16, <2>17, <2>18, <2>19, <2>20, <2>21, <2>22, <2>23, <2>24
    DEF Next, ServiceStep, HttpStep
<1> QED
  BY <1>1, <1>2, PTL DEF Spec

-----------------------------------------------------------------------------
(* The network takes no segment more often than once plus the retries the   *)
(* operator approved for it.                                                *)
(*                                                                          *)
(* The invariant alone is not inductive.  SubmissionInv adds what makes it  *)
(* so: every copy of a record, in flash, with the service task or with the  *)
(* HTTP task, marks all segments that may not be submitted again, and the   *)
(* two tasks never hold the same record when it is queued or being sent.    *)

Inv == TypeOK /\ SubmissionInv

-----------------------------------------------------------------------------
(* Facts about one state.                                                   *)

\* Records in the journal have ids that were handed out.
LEMMA StoredBelowNext ==
    ASSUME Inv, NEW id \in Stored(journal)
    PROVE  id \in Ids /\ id < next_id /\ journal[id] \in Record /\ CopyOK(id, journal[id])
<1>1. id \in Ids /\ journal[id].status # "EMPTY"
  BY DEF Stored
<1>2. journal[id] # NoRecord
  BY <1>1 DEF NoRecord
<1>3. id < next_id
  BY <1>1, <1>2, RecordsAssumption DEF Inv, TypeOK, SubmissionInv, UnusedIds, Ids
<1> QED
  BY <1>1, <1>3, StoredIsRecord DEF Inv, SubmissionInv, StoredCopiesOK

\* The HTTP task does not hold the record that the service task is sending.
LEMMA HandsApart ==
    ASSUME Inv, pc \in SendingPcs, hpc # "idle"
    PROVE  hid # mid
BY DEF Inv, SubmissionInv, ServiceCopyOK, HttpCopyOK

\* Nor the one whose report it records, as long as that is queued or being sent.
LEMMA ReportApart ==
    ASSUME Inv, pc = "save_report", msg.status \in {"QUEUED", "SENDING"}, hpc # "idle"
    PROVE  hid # mid
BY DEF Inv, SubmissionInv, ServiceCopyOK, HttpCopyOK, Busy

-----------------------------------------------------------------------------
(* Saving a copy that is OK.                                                *)

\* A save writes the record or nothing; one that succeeds writes it.
LEMMA SaveEffect ==
    ASSUME NEW id, NEW r, NEW ok, sms_store_save(id, r, ok)
    PROVE  /\ journal' = journal \/ journal' = [journal EXCEPT ![id] = r]
           /\ ok => journal' = [journal EXCEPT ![id] = r]
BY DEF sms_store_save

\* A save of a copy that is OK preserves all parts of the invariant that do not
\* speak of the locals of the service task.
LEMMA SaveKeeps ==
    ASSUME Inv, NEW id \in Ids, id < next_id, NEW m \in Record, CopyOK(id, m),
           m.status \in {"QUEUED", "SENDING"} => hpc = "idle" \/ hid # id,
           journal' = journal \/ journal' = [journal EXCEPT ![id] = m],
           UNCHANGED <<next_id, http, history>>
    PROVE  /\ AtMostOncePerApproval'
           /\ StoredCopiesOK'
           /\ HttpCopyOK'
           /\ mid' < next_id => UnusedIds'
<1>1. UNCHANGED <<hpc, hid, hmsg, submitted, approvals, next_id>>
  BY DEF http, history
<1>2. AtMostOncePerApproval'
  BY <1>1 DEF Inv, SubmissionInv, AtMostOncePerApproval
<1>3. \A k \in Ids : journal'[k] = journal[k] \/ (k = id /\ journal'[k] = m)
  BY DEF Inv, TypeOK
<1>5. StoredCopiesOK'
  <2> SUFFICES ASSUME NEW k \in Stored(journal)'
               PROVE  CopyOK(k, journal[k])'
    BY DEF StoredCopiesOK
  <2>1. k \in Ids /\ journal'[k].status # "EMPTY"
    BY DEF Stored
  <2>2. CASE journal'[k] = journal[k]
    BY <2>1, <2>2, <1>1 DEF Inv, SubmissionInv, StoredCopiesOK, Stored, CopyOK, MaySubmit
  <2>3. CASE k = id /\ journal'[k] = m
    BY <2>3, <1>1 DEF CopyOK, MaySubmit
  <2> QED
    BY <1>3, <2>1, <2>2, <2>3
<1>6. HttpCopyOK'
  <2> SUFFICES ASSUME hpc # "idle"
               PROVE  /\ hid \in Ids /\ hid < next_id /\ ~Busy(hid)'
                      /\ hpc = "retry" => hmsg.status = "UNCERTAIN" /\ CopyOK(hid, hmsg)'
    BY <1>1 DEF HttpCopyOK
  <2>1. /\ hid \in Ids /\ hid < next_id /\ ~Busy(hid)
        /\ hpc = "retry" => hmsg.status = "UNCERTAIN" /\ CopyOK(hid, hmsg)
    BY DEF Inv, SubmissionInv, HttpCopyOK
  <2>2. ~Busy(hid)'
    BY <2>1, <1>1, <1>3 DEF Busy
  <2> QED
    BY <2>1, <2>2, <1>1 DEF CopyOK, MaySubmit
<1>7. mid' < next_id => UnusedIds'
  BY <1>1, <1>3, RecordsAssumption DEF Inv, TypeOK, SubmissionInv, UnusedIds, Ids
<1> QED
  BY <1>2, <1>5, <1>6, <1>7

\* A step that touches neither flash nor the HTTP task nor the history: only
\* what the service task holds is to be shown.
LEMMA LocalStep ==
    ASSUME Inv, UNCHANGED <<flash, http, history>>, mid' < next_id, ServiceCopyOK'
    PROVE  SubmissionInv'
<1>1. UNCHANGED <<journal, next_id, hpc, hid, hmsg, submitted, approvals>>
  BY DEF flash, http, history
<1>2. AtMostOncePerApproval' /\ StoredCopiesOK' /\ HttpCopyOK' /\ UnusedIds'
  BY <1>1 DEF Inv, SubmissionInv, AtMostOncePerApproval, StoredCopiesOK, HttpCopyOK, UnusedIds,
              Stored, CopyOK, MaySubmit, Busy
<1> QED
  BY <1>2 DEF SubmissionInv

\* With the service task in its loop, nothing is said of its copies.
LEMMA IdleHoldsNothing ==
    ASSUME pc' \in {"idle", "boot"}
    PROVE  ServiceCopyOK'
BY DEF ServiceCopyOK, SendingPcs, InFlightPcs

\* A save of the service task after which it returns to its loop.
LEMMA SaveThenIdle ==
    ASSUME Inv, mid \in Ids, NEW m \in Record, CopyOK(mid, m),
           m.status \in {"QUEUED", "SENDING"} => hpc = "idle" \/ hid # mid,
           ServiceSave(m, ServiceIdle)
    PROVE  SubmissionInv'
<1>1. /\ sms_store_save(mid, m, TRUE) \/ sms_store_save(mid, m, FALSE)
      /\ pc' = "idle" /\ mid' = 0
      /\ UNCHANGED <<next_id, http, history>>
  BY DEF ServiceSave, ServiceIdle
<1>2. journal' = journal \/ journal' = [journal EXCEPT ![mid] = m]
  BY <1>1, SaveEffect
<1>3. mid < next_id /\ mid' < next_id
  BY <1>1, RecordsAssumption DEF Inv, SubmissionInv, UnusedIds, TypeOK, Ids
<1>4. AtMostOncePerApproval' /\ StoredCopiesOK' /\ HttpCopyOK' /\ UnusedIds'
  BY <1>1, <1>2, <1>3, SaveKeeps
<1> QED
  BY <1>1, <1>4, IdleHoldsNothing DEF SubmissionInv

\* What the service task holds while it sends.
LEMMA SendingCopy ==
    ASSUME Inv, pc \in SendingPcs
    PROVE  /\ mid \in Ids /\ mid < next_id /\ msg \in Record
           /\ CopyOK(mid, msg) /\ Busy(mid)
           /\ hpc = "idle" \/ hid # mid
BY HandsApart DEF Inv, TypeOK, SubmissionInv, ServiceCopyOK, UnusedIds

\* Where the loop over the segments of a copy goes next: a segment it is about
\* to submit is one the copy calls unsent.
LEMMA ContinueKeeps ==
    ASSUME NEW id \in Ids, NEW m \in Record, ContinueWith(id, m), CopyOK(id, m)', m.inflight = 0,
           Busy(id)'
    PROVE  ServiceCopyOK'
<1>1. /\ mid' = id /\ msg' = m
      /\ \/ pc' = "save_sent"
         \/ pc' = "save_sending" /\ seg' \in Segments /\ seg' \in Unsent(m)
  BY ContinueType
<1>2. pc' = "save_sending" => MaySubmit(mid, seg)'
  BY <1>1 DEF CopyOK, MaySubmit, Unsent, Segments
<1> QED
  BY <1>1, <1>2 DEF ServiceCopyOK, CopyOK, MaySubmit, Busy, SendingPcs, InFlightPcs

-----------------------------------------------------------------------------
(* The steps.                                                               *)

\* The intent is durable before AT+CMGS: from then on the copy in flash marks
\* the segment in flight.
LEMMA BeginKeeps ==
    ASSUME Inv, send_segment_begin
    PROVE  SubmissionInv'
<1> DEFINE m == [msg EXCEPT !.status = "SENDING", !.inflight = seg]
<1>0. pc = "save_sending" /\ seg \in Segments
  BY DEF send_segment_begin, Inv, TypeOK
<1>1. /\ mid \in Ids /\ mid < next_id /\ msg \in Record /\ CopyOK(mid, msg)
      /\ hpc = "idle" \/ hid # mid
  BY <1>0, SendingCopy DEF SendingPcs
<1>2. msg.inflight = 0 /\ MaySubmit(mid, seg)
  BY <1>0 DEF Inv, SubmissionInv, ServiceCopyOK
<1>3. PICK r \in Record : r = m
  <2>1. seg \in 0 .. MaxSegments
    BY <1>0, OutboundAssumption DEF Segments
  <2> QED
    BY <2>1, <1>1, RecordUpdates, StatusNames
<1>4. r.status = "SENDING" /\ r.inflight = seg /\ r.sent = msg.sent
  BY <1>1, <1>3 DEF Record
<1>5. CopyOK(mid, r)
  BY <1>0, <1>1, <1>2, <1>4, OutboundAssumption DEF CopyOK, Segments
<1>6. /\ \/ sms_store_save(mid, r, TRUE) /\ pc' = "cmgs" /\ msg' = r /\ mid' = mid /\ seg' = seg
         \/ sms_store_save(mid, r, FALSE) /\ pc' = "idle" /\ mid' = 0
      /\ UNCHANGED <<next_id, http, history>>
  BY <1>3 DEF send_segment_begin, ServiceSave, ServiceIdle
<1> HIDE DEF m
<1>7. journal' = journal \/ journal' = [journal EXCEPT ![mid] = r]
  BY <1>6, SaveEffect
<1>8. mid' < next_id
  <2>1. mid' = mid \/ mid' = 0
    BY <1>6
  <2>2. 0 < next_id
    BY RecordsAssumption DEF Inv, TypeOK, Ids
  <2> QED
    BY <2>1, <2>2, <1>1
<1>9. AtMostOncePerApproval' /\ StoredCopiesOK' /\ HttpCopyOK' /\ UnusedIds'
  BY <1>1, <1>5, <1>6, <1>7, <1>8, SaveKeeps
<1>10. ServiceCopyOK'
  <2>1. CASE sms_store_save(mid, r, TRUE) /\ pc' = "cmgs" /\ msg' = r /\ mid' = mid /\ seg' = seg
    <3>1. journal' = [journal EXCEPT ![mid] = r]
      BY <2>1, SaveEffect
    <3>2. journal'[mid] = r
      BY <3>1, <1>1 DEF Inv, TypeOK
    <3>3. submitted' = submitted /\ approvals' = approvals
      BY <1>6 DEF history
    <3>4. CopyOK(mid, msg)' /\ MaySubmit(mid, seg)'
      BY <2>1, <3>3, <1>2, <1>5 DEF CopyOK, MaySubmit
    <3>5. Busy(mid)'
      BY <2>1, <3>2, <1>1, <1>4 DEF Busy
    <3> QED
      BY <2>1, <3>2, <3>4, <3>5, <1>4 DEF ServiceCopyOK, SendingPcs, InFlightPcs
  <2> QED
    BY <1>6, <2>1, IdleHoldsNothing
<1> QED
  BY <1>9, <1>10 DEF SubmissionInv

\* After the confirmation the segment is marked sent and the loop goes on.
LEMMA ConfirmedKeeps ==
    ASSUME Inv, send_segment_confirmed
    PROVE  SubmissionInv'
<1> DEFINE m == [msg EXCEPT !.sent = @ \cup {seg}, !.inflight = 0]
<1>0. pc = "save_segment" /\ seg \in Segments
  BY DEF send_segment_confirmed, Inv, TypeOK, InFlightPcs
<1>1. /\ mid \in Ids /\ mid < next_id /\ msg \in Record /\ CopyOK(mid, msg)
      /\ hpc = "idle" \/ hid # mid
  BY <1>0, SendingCopy DEF SendingPcs
<1>2. msg.inflight = seg /\ msg.status = "SENDING"
  BY <1>0 DEF Inv, SubmissionInv, ServiceCopyOK, InFlightPcs
<1>3. PICK r \in Record : r = m
  BY <1>0, <1>1, RecordUpdates
<1>4. r.status = "SENDING" /\ r.inflight = 0 /\ r.sent = msg.sent \cup {seg}
  BY <1>1, <1>2, <1>3 DEF Record
<1>5. CopyOK(mid, r)
  BY <1>1, <1>2, <1>4 DEF CopyOK
<1>6. /\ \/ sms_store_save(mid, r, TRUE) /\ ContinueWith(mid, r)
         \/ sms_store_save(mid, r, FALSE) /\ pc' = "idle" /\ mid' = 0
      /\ UNCHANGED <<next_id, http, history>>
  BY <1>3 DEF send_segment_confirmed, ServiceSave, ServiceIdle
<1> HIDE DEF m
<1>7. journal' = journal \/ journal' = [journal EXCEPT ![mid] = r]
  BY <1>6, SaveEffect
<1>8. mid' < next_id
  <2>1. mid' = mid \/ mid' = 0
    BY <1>6 DEF ContinueWith
  <2>2. 0 < next_id
    BY RecordsAssumption DEF Inv, TypeOK, Ids
  <2> QED
    BY <2>1, <2>2, <1>1
<1>9. AtMostOncePerApproval' /\ StoredCopiesOK' /\ HttpCopyOK' /\ UnusedIds'
  BY <1>1, <1>5, <1>6, <1>7, <1>8, SaveKeeps
<1>10. ServiceCopyOK'
  <2>1. CASE sms_store_save(mid, r, TRUE) /\ ContinueWith(mid, r)
    <3>1. journal' = [journal EXCEPT ![mid] = r]
      BY <2>1, SaveEffect
    <3>2. PICK id \in Ids : id = mid
      BY <1>1
    <3>3. journal'[id] = r
      BY <3>1, <3>2 DEF Inv, TypeOK
    <3>4. CopyOK(id, r)' /\ Busy(id)'
      BY <3>2, <3>3, <1>4, <1>5, <1>6 DEF CopyOK, MaySubmit, Busy, history
    <3> QED
      BY <2>1, <3>2, <3>4, <1>4, ContinueKeeps
  <2> QED
    BY <1>6, <2>1, IdleHoldsNothing
<1> QED
  BY <1>9, <1>10 DEF SubmissionInv

\* cmgs_accepted counts a submission of the segment that the copies in flash and
\* with the service task mark in flight; no other copy of the record is in use.
LEMMA AcceptedKeeps ==
    ASSUME Inv, cmgs_accepted
    PROVE  SubmissionInv'
<1>0. pc = "cmgs" /\ seg \in Segments
  BY DEF cmgs_accepted, Inv, TypeOK, InFlightPcs
<1>1. /\ mid \in Ids /\ mid < next_id /\ msg \in Record /\ CopyOK(mid, msg) /\ Busy(mid)
      /\ hpc = "idle" \/ hid # mid
  BY <1>0, SendingCopy DEF SendingPcs
<1>2. /\ msg.inflight = seg /\ msg.status = "SENDING" /\ journal[mid].inflight = seg
      /\ MaySubmit(mid, seg)
  BY <1>0 DEF Inv, SubmissionInv, ServiceCopyOK, InFlightPcs
<1>3. /\ submitted' = [submitted EXCEPT ![mid][seg] = @ + 1]
      /\ UNCHANGED <<journal, next_id, mid, seg, hpc, hid, hmsg, approvals>>
      /\ pc' \in {"save_segment", "save_uncertain"}
      /\ msg' = msg \/ msg' = [msg EXCEPT !.ref[seg] = next_ref]
  BY DEF cmgs_accepted, flash, http
<1>4. /\ submitted'[mid][seg] = submitted[mid][seg] + 1
      /\ \A id \in Ids, s \in Segments :
            id # mid \/ s # seg => submitted'[id][s] = submitted[id][s]
  BY <1>0, <1>1, <1>3 DEF Inv, TypeOK
<1>5. /\ submitted \in [Ids -> [Segments -> Nat]] /\ approvals \in [Ids -> [Segments -> Nat]]
      /\ journal \in [Ids -> Record \cup {NoRecord}] /\ next_id \in Ids
  BY DEF Inv, TypeOK
<1>6. AtMostOncePerApproval'
  <2> SUFFICES ASSUME NEW id \in Ids, NEW s \in Segments
               PROVE  submitted'[id][s] <= 1 + approvals[id][s]
    BY <1>3 DEF AtMostOncePerApproval
  <2>1. CASE id = mid /\ s = seg
    BY <2>1, <1>2, <1>4, <1>5 DEF MaySubmit
  <2>2. CASE id # mid \/ s # seg
    BY <2>2, <1>4 DEF Inv, SubmissionInv, AtMostOncePerApproval
  <2> QED
    BY <2>1, <2>2
<1>7. ASSUME NEW id \in Ids, NEW c, CopyOK(id, c), id = mid => c.inflight = seg
      PROVE  CopyOK(id, c)'
  BY <1>3, <1>4, <1>7 DEF CopyOK, MaySubmit
<1>8. StoredCopiesOK'
  <2> SUFFICES ASSUME NEW id \in Stored(journal)
               PROVE  CopyOK(id, journal[id])'
    BY <1>3 DEF StoredCopiesOK, Stored
  <2>1. PICK c : c = journal[id]
    OBVIOUS
  <2>2. id \in Ids /\ CopyOK(id, c) /\ (id = mid => c.inflight = seg)
    BY <2>1, <1>2 DEF Inv, SubmissionInv, StoredCopiesOK, Stored
  <2>3. CopyOK(id, c)'
    BY <2>2, <1>7
  <2> QED
    BY <2>1, <2>3, <1>3 DEF CopyOK, MaySubmit
<1>9. ServiceCopyOK'
  <2>1. PICK id, c : id = mid /\ c = msg'
    BY <1>1
  <2>2. c.inflight = seg /\ c.status = "SENDING" /\ c.sent = msg.sent
    BY <2>1, <1>1, <1>2, <1>3 DEF Record
  <2>3. CopyOK(id, c)
    BY <2>1, <2>2, <1>1, <1>2 DEF CopyOK
  <2>4. CopyOK(id, c)'
    <3>1. id \in Ids
      BY <2>1, <1>1
    <3> QED
      BY <3>1, <2>2, <2>3, <1>7
  <2>5. CopyOK(mid, msg)' /\ Busy(mid)'
    BY <2>1, <2>4, <1>1, <1>3 DEF CopyOK, MaySubmit, Busy
  <2> QED
    BY <2>1, <2>2, <2>5, <1>2, <1>3 DEF ServiceCopyOK, SendingPcs, InFlightPcs
<1>10. HttpCopyOK'
  <2> SUFFICES ASSUME hpc # "idle"
               PROVE  /\ hid \in Ids /\ hid < next_id /\ ~Busy(hid)'
                      /\ hpc = "retry" => hmsg.status = "UNCERTAIN" /\ CopyOK(hid, hmsg)'
    BY <1>3 DEF HttpCopyOK
  <2>1. /\ hid \in Ids /\ hid < next_id /\ ~Busy(hid) /\ hid # mid
        /\ hpc = "retry" => hmsg.status = "UNCERTAIN" /\ CopyOK(hid, hmsg)
    BY <1>1 DEF Inv, SubmissionInv, HttpCopyOK
  <2>2. PICK id, c : id = hid /\ c = hmsg
    BY <2>1
  <2>3. hpc = "retry" => CopyOK(id, c)'
    BY <2>1, <2>2, <1>7
  <2> QED
    BY <2>1, <2>2, <2>3, <1>3 DEF CopyOK, MaySubmit, Busy
<1>11. UnusedIds'
  <2> SUFFICES ASSUME NEW id \in Ids, id >= next_id
               PROVE  journal[id] = NoRecord /\ \A s \in Segments : submitted'[id][s] = 0
    BY <1>1, <1>3 DEF UnusedIds
  <2>1. id # mid
    BY <1>1, <1>5, RecordsAssumption DEF Ids
  <2> QED
    BY <2>1, <1>4 DEF Inv, SubmissionInv, UnusedIds
<1> QED
  BY <1>6, <1>8, <1>9, <1>10, <1>11 DEF SubmissionInv

\* A new message takes an unused id, and the record pruned for it is none that
\* a task has in its hands to send.
LEMMA SendKeeps ==
    ASSUME Inv, NEW recipient \in Recipients, NEW report \in BOOLEAN, NEW count \in Segments,
           sms_service_send(recipient, report, count)
    PROVE  SubmissionInv'
<1> DEFINE room == MakeRoom(journal, TRUE, 0)
<1>0. PICK r : r = NewRecord(recipient, report, count)
  OBVIOUS
<1>1. r.status = "QUEUED" /\ r.inflight = 0
  BY <1>0 DEF NewRecord
<1>2. /\ next_id \in 1 .. IdMax /\ next_id < IdMax /\ IdMax \in Nat
      /\ NextId(next_id) = next_id + 1
  BY RecordsAssumption DEF Inv, TypeOK, Ids, sms_service_send, NextId
<1>3. /\ journal' = [room EXCEPT ![next_id] = r] \/ journal' = journal \/ journal' = room
      /\ next_id' = next_id \/ next_id' = next_id + 1
      /\ next_id' = next_id => journal' = journal \/ journal' = room
      /\ UNCHANGED <<pc, mid, msg, seg, hpc, hid, hmsg, submitted, approvals>>
  <2>1. \/ journal' = [room EXCEPT ![next_id] = r] /\ next_id' = next_id + 1
        \/ (journal' = journal \/ journal' = room) /\ next_id' = next_id
        \/ (journal' = room \/ journal' = [room EXCEPT ![next_id] = r]) /\ next_id' = next_id + 1
    BY <1>0, <1>2 DEF sms_service_send
  <2>2. UNCHANGED <<pc, mid, msg, seg, hpc, hid, hmsg, submitted, approvals>>
    BY DEF sms_service_send, service, http, history
  <2> HIDE DEF room
  <2> QED
    BY <2>1, <2>2, <1>2
<1>4. /\ room \in [Ids -> Record \cup {NoRecord}]
      /\ \A id \in Ids :
            \/ room[id] = journal[id]
            \/ /\ room[id] = NoRecord
               /\ journal[id].status \in {"RECEIVED", "SENT", "DELIVERED", "FAILED", "UNSUPPORTED"}
  BY MakeRoomKeeps DEF sms_service_send, Inv, TypeOK
<1> HIDE DEF room
<1>5. \A id \in Ids :
         \/ journal'[id] = journal[id]
         \/ journal'[id] = NoRecord /\ ~Busy(id)
         \/ id = next_id /\ next_id' = next_id + 1 /\ journal'[id] = r
  BY <1>2, <1>3, <1>4 DEF Busy
<1>6. \A id \in Ids : id < next_id =>
         \/ journal'[id] = journal[id]
         \/ journal'[id] = NoRecord /\ ~Busy(id)
  BY <1>2, <1>5 DEF Ids
<1>7. AtMostOncePerApproval'
  BY <1>3 DEF Inv, SubmissionInv, AtMostOncePerApproval
<1>8. StoredCopiesOK'
  <2> SUFFICES ASSUME NEW id \in Stored(journal)'
               PROVE  CopyOK(id, journal[id])'
    BY DEF StoredCopiesOK
  <2>1. id \in Ids /\ journal'[id] # NoRecord /\ journal'[id].status # "EMPTY"
    BY DEF Stored, NoRecord
  <2>2. CASE journal'[id] = journal[id]
    BY <2>1, <2>2, <1>3 DEF Inv, SubmissionInv, StoredCopiesOK, Stored, CopyOK, MaySubmit
  <2>3. CASE id = next_id /\ journal'[id] = r
    <3>1. \A s \in Segments : submitted[id][s] = 0 /\ approvals[id][s] \in Nat
      <4>1. \A s \in Segments : submitted[id][s] = 0
        BY <2>1, <2>3, <1>2 DEF Inv, SubmissionInv, UnusedIds
      <4>2. \A s \in Segments : approvals[id][s] \in Nat
        BY <2>1 DEF Inv, TypeOK
      <4> QED
        BY <4>1, <4>2
    <3> QED
      BY <2>3, <3>1, <1>1, <1>3 DEF CopyOK, MaySubmit
  <2> QED
    BY <2>1, <2>2, <2>3, <1>5
<1>9. ServiceCopyOK'
  <2>1. mid < next_id /\ ServiceCopyOK
    BY DEF Inv, SubmissionInv, UnusedIds
  <2>2. Busy(mid) => journal'[mid] = journal[mid]
    BY <2>1, <1>6 DEF Busy
  <2> QED
    BY <2>1, <2>2, <1>3 DEF ServiceCopyOK, CopyOK, MaySubmit, Busy, SendingPcs, InFlightPcs
<1>10. HttpCopyOK'
  <2> SUFFICES ASSUME hpc # "idle"
               PROVE  /\ hid \in Ids /\ hid < next_id' /\ ~Busy(hid)'
                      /\ hpc = "retry" => hmsg.status = "UNCERTAIN" /\ CopyOK(hid, hmsg)'
    BY <1>3 DEF HttpCopyOK
  <2>1. /\ hid \in Ids /\ hid < next_id /\ ~Busy(hid)
        /\ hpc = "retry" => hmsg.status = "UNCERTAIN" /\ CopyOK(hid, hmsg)
    BY DEF Inv, SubmissionInv, HttpCopyOK
  <2>2. ~Busy(hid)'
    BY <2>1, <1>3, <1>6 DEF Busy, NoRecord
  <2>3. hid < next_id'
    <3>1. hid \in Nat /\ next_id \in Nat
      BY <2>1, <1>2, RecordsAssumption DEF Ids
    <3> QED
      BY <3>1, <2>1, <1>3
  <2> QED
    BY <2>1, <2>2, <2>3, <1>3 DEF CopyOK, MaySubmit
<1>11. UnusedIds'
  <2>1. mid' < next_id'
    BY <1>2, <1>3 DEF Inv, TypeOK, SubmissionInv, UnusedIds
  <2> SUFFICES ASSUME NEW id \in Ids, id >= next_id'
               PROVE  journal'[id] = NoRecord /\ \A s \in Segments : submitted[id][s] = 0
    BY <2>1, <1>3 DEF UnusedIds
  <2>2. id >= next_id /\ ~(id = next_id /\ next_id' = next_id + 1)
    <3>1. id \in Nat /\ next_id \in Nat
      BY <1>2, RecordsAssumption DEF Ids
    <3> QED
      BY <3>1, <1>3
  <2> QED
    BY <2>2, <1>5 DEF Inv, SubmissionInv, UnusedIds
<1> QED
  BY <1>7, <1>8, <1>9, <1>10, <1>11 DEF SubmissionInv

\* The operator's retry: the copy it saves calls the segment in flight unsent,
\* which the approval covers; the service task holds another record.
LEMMA RetrySaveKeeps ==
    ASSUME Inv, retry_save
    PROVE  SubmissionInv'
<1> DEFINE m == [hmsg EXCEPT !.status = "QUEUED", !.inflight = 0]
<1>0. /\ hpc = "retry" /\ hid \in Ids /\ hid < next_id /\ hmsg \in Record
      /\ hmsg.status = "UNCERTAIN" /\ CopyOK(hid, hmsg) /\ ~Busy(hid)
  BY DEF retry_save, Inv, TypeOK, SubmissionInv, HttpCopyOK
<1>1. PICK r \in Record : r = m
  <2>1. 0 \in 0 .. MaxSegments
    BY OutboundAssumption
  <2> QED
    BY <2>1, <1>0, RecordUpdates, StatusNames
<1>2. r.status = "QUEUED" /\ r.inflight = 0 /\ r.sent = hmsg.sent
  BY <1>0, <1>1 DEF Record
<1>3. /\ journal' = journal \/ journal' = [journal EXCEPT ![hid] = r]
      /\ approvals' = IF journal'[hid] = r /\ hmsg.inflight # 0
                      THEN [approvals EXCEPT ![hid][hmsg.inflight] = @ + 1]
                      ELSE approvals
      /\ hpc' = "idle"
      /\ UNCHANGED <<next_id, pc, mid, msg, seg, submitted>>
  BY <1>1, SaveEffect DEF retry_save, HttpIdle, service
<1> HIDE DEF m
<1>4. \A id \in Ids : journal'[id] = journal[id] \/ (id = hid /\ journal'[id] = r)
  BY <1>0, <1>3 DEF Inv, TypeOK
<1>5. /\ submitted \in [Ids -> [Segments -> Nat]] /\ approvals \in [Ids -> [Segments -> Nat]]
      /\ hmsg.inflight # 0 => hmsg.inflight \in Segments
  <2>1. hmsg.inflight \in 0 .. MaxSegments
    BY <1>0 DEF Record
  <2>2. hmsg.inflight # 0 => hmsg.inflight \in Segments
    BY <2>1, OutboundAssumption DEF Segments
  <2> QED
    BY <2>2 DEF Inv, TypeOK
<1>6. /\ \A id \in Ids, s \in Segments : approvals'[id][s] >= approvals[id][s]
      /\ journal'[hid] = r /\ hmsg.inflight # 0 =>
            approvals'[hid][hmsg.inflight] = approvals[hid][hmsg.inflight] + 1
  BY <1>0, <1>3, <1>5
<1>7. /\ approvals' \in [Ids -> [Segments -> Nat]]
  BY <1>0, <1>3, <1>5, CountType
<1>8. \A id \in Ids, s \in Segments : MaySubmit(id, s) => submitted[id][s] <= approvals'[id][s]
  BY <1>5, <1>6, <1>7 DEF MaySubmit
<1>9. AtMostOncePerApproval'
  BY <1>3, <1>5, <1>6, <1>7 DEF Inv, SubmissionInv, AtMostOncePerApproval
<1>10. StoredCopiesOK'
  <2> SUFFICES ASSUME NEW id \in Stored(journal)'
               PROVE  CopyOK(id, journal[id])'
    BY DEF StoredCopiesOK
  <2>1. id \in Ids /\ journal'[id].status # "EMPTY"
    BY DEF Stored
  <2>2. CASE journal'[id] = journal[id]
    <3>1. CopyOK(id, journal[id])
      BY <2>1, <2>2 DEF Inv, SubmissionInv, StoredCopiesOK, Stored
    <3> QED
      BY <2>1, <2>2, <3>1, <1>3, <1>8 DEF CopyOK, MaySubmit
  <2>3. CASE id = hid /\ journal'[id] = r
    <3>1. ASSUME NEW s \in Segments, s \notin r.sent
          PROVE  submitted[id][s] <= approvals'[id][s]
      <4>1. CASE s = hmsg.inflight
        <5>1. s # 0
          BY OutboundAssumption DEF Segments
        <5>2. submitted[id][s] <= 1 + approvals[id][s]
          BY <2>1 DEF Inv, SubmissionInv, AtMostOncePerApproval
        <5> QED
          BY <2>1, <2>3, <4>1, <5>1, <5>2, <1>5, <1>6
      <4>2. CASE s # hmsg.inflight
        BY <2>3, <3>1, <4>2, <1>0, <1>2, <1>8 DEF CopyOK
      <4> QED
        BY <4>1, <4>2
    <3> QED
      BY <2>3, <3>1, <1>2, <1>3 DEF CopyOK, MaySubmit
  <2> QED
    BY <2>1, <2>2, <2>3, <1>4
<1>11. ServiceCopyOK'
  <2>1. ServiceCopyOK /\ seg \in 0 .. MaxSegments
    BY DEF Inv, TypeOK, SubmissionInv
  <2>2. Busy(mid) => journal'[mid] = journal[mid]
    BY <1>0, <1>4 DEF Busy
  <2>3. mid \in Ids /\ CopyOK(mid, msg) => CopyOK(mid, msg)'
    BY <1>3, <1>8 DEF CopyOK, MaySubmit
  <2>4. pc \in {"save_sending", "cmgs", "save_requeued"} => MaySubmit(mid, seg)'
    <3> SUFFICES ASSUME pc \in {"save_sending", "cmgs", "save_requeued"}
                 PROVE  MaySubmit(mid, seg)'
      OBVIOUS
    <3>1. mid \in Ids /\ seg \in Segments /\ MaySubmit(mid, seg)
      BY <2>1 DEF Inv, TypeOK, SendingPcs, InFlightPcs, ServiceCopyOK
    <3> QED
      BY <3>1, <1>3, <1>8 DEF MaySubmit
  <2>5. pc' = pc /\ mid' = mid /\ msg' = msg /\ seg' = seg
    BY <1>3
  <2> QED
    BY <2>1, <2>2, <2>3, <2>4, <2>5 DEF ServiceCopyOK, Busy, SendingPcs, InFlightPcs
<1>12. HttpCopyOK' /\ UnusedIds'
  <2>1. \A id \in Ids : id >= next_id => id # hid
    BY <1>0, RecordsAssumption DEF Inv, TypeOK, Ids
  <2> QED
    BY <2>1, <1>3, <1>4 DEF Inv, SubmissionInv, HttpCopyOK, UnusedIds
<1> QED
  BY <1>9, <1>10, <1>11, <1>12 DEF SubmissionInv

\* Deleting a record that is neither queued nor being sent.
LEMMA DeleteKeeps ==
    ASSUME Inv, sms_store_delete
    PROVE  SubmissionInv'
<1>1. /\ hid \in Ids /\ ~Busy(hid)
      /\ journal' = journal \/ journal' = [journal EXCEPT ![hid] = NoRecord]
      /\ hpc' = "idle"
      /\ UNCHANGED <<next_id, pc, mid, msg, seg, submitted, approvals>>
  BY DEF sms_store_delete, HttpIdle, service, history, Inv, SubmissionInv, HttpCopyOK
<1>2. \A id \in Ids : journal'[id] = journal[id] \/ (id = hid /\ journal'[id] = NoRecord)
  BY <1>1 DEF Inv, TypeOK
<1>3. AtMostOncePerApproval' /\ HttpCopyOK' /\ UnusedIds'
  BY <1>1, <1>2 DEF Inv, SubmissionInv, AtMostOncePerApproval, HttpCopyOK, UnusedIds
<1>4. StoredCopiesOK'
  <2> SUFFICES ASSUME NEW id \in Stored(journal)'
               PROVE  CopyOK(id, journal[id])'
    BY DEF StoredCopiesOK
  <2>1. id \in Ids /\ journal'[id] = journal[id] /\ journal[id].status # "EMPTY"
    BY <1>2 DEF Stored, NoRecord
  <2> QED
    BY <2>1, <1>1 DEF Inv, SubmissionInv, StoredCopiesOK, Stored, CopyOK, MaySubmit
<1>5. ServiceCopyOK'
  <2>1. Busy(mid) => journal'[mid] = journal[mid]
    BY <1>1, <1>2 DEF Busy
  <2>2. ServiceCopyOK
    BY DEF Inv, SubmissionInv
  <2> QED
    BY <2>1, <2>2, <1>1 DEF ServiceCopyOK, CopyOK, MaySubmit, Busy, SendingPcs, InFlightPcs
<1> QED
  BY <1>3, <1>4, <1>5 DEF SubmissionInv

\* The pass after a reset marks the records left SENDING and keeps their
\* segment in flight.
LEMMA BootKeeps ==
    ASSUME Inv, mark_interrupted_sends_uncertain
    PROVE  SubmissionInv'
<1> DEFINE later == {id \in Stored(journal) : id > mid}
<1>1. UNCHANGED <<next_id, http, history>> /\ pc' \in {"boot", "idle"}
  BY DEF mark_interrupted_sends_uncertain, ServiceIdle
<1>2. 0 < next_id
  BY RecordsAssumption DEF Inv, TypeOK, Ids
<1>3. CASE UNCHANGED journal /\ mid' = 0
  BY <1>1, <1>2, <1>3, LocalStep, IdleHoldsNothing DEF flash
<1>4. ASSUME later # {}, mid' = Oldest(later)
      PROVE  mid' \in Stored(journal)
  BY <1>4, OldestIn DEF Stored
<1>5. CASE UNCHANGED journal /\ later # {} /\ mid' = Oldest(later)
  BY <1>1, <1>4, <1>5, StoredBelowNext, LocalStep, IdleHoldsNothing DEF flash
<1>6. ASSUME later # {}, mid' = Oldest(later), journal[mid'].status = "SENDING", NEW ok \in BOOLEAN,
             sms_store_save(mid', [journal[mid'] EXCEPT !.status = "UNCERTAIN"], ok)
      PROVE  SubmissionInv'
  <2>1. PICK id \in Stored(journal) : id = mid'
    BY <1>4, <1>6
  <2>2. id \in Ids /\ id < next_id /\ journal[id] \in Record /\ CopyOK(id, journal[id])
    BY StoredBelowNext
  <2>3. PICK r \in Record : r = [journal[id] EXCEPT !.status = "UNCERTAIN"]
    BY <2>2, RecordUpdates, StatusNames
  <2>4. r.status = "UNCERTAIN" /\ r.sent = journal[id].sent /\ r.inflight = journal[id].inflight
    BY <2>2, <2>3 DEF Record
  <2>5. CopyOK(id, r)
    BY <2>2, <2>4 DEF CopyOK
  <2>6. journal' = journal \/ journal' = [journal EXCEPT ![id] = r]
    BY <1>6, <2>1, <2>3, SaveEffect
  <2>7. AtMostOncePerApproval' /\ StoredCopiesOK' /\ HttpCopyOK' /\ UnusedIds'
    BY <1>1, <2>1, <2>2, <2>4, <2>5, <2>6, SaveKeeps
  <2> QED
    BY <2>7, <1>1, IdleHoldsNothing DEF SubmissionInv
<1> QED
  BY <1>3, <1>5, <1>6 DEF mark_interrupted_sends_uncertain, ServiceIdle

\* A queued message is taken: what it calls unsent may be submitted.
LEMMA TakeKeeps ==
    ASSUME Inv, process_one_outbound
    PROVE  SubmissionInv'
<1>1. PICK id : id = Oldest(WithStatus(journal, "QUEUED"))
  OBVIOUS
<1>2. id \in Stored(journal) /\ journal[id].status = "QUEUED"
  BY <1>1, OldestIn DEF process_one_outbound, WithStatus, Stored
<1>3. id \in Ids /\ id < next_id /\ journal[id] \in Record /\ CopyOK(id, journal[id])
  BY <1>2, StoredBelowNext
<1>4. PICK m \in Record : m = journal[id]
  BY <1>3
<1>5. UNCHANGED <<flash, http, history>>
  BY DEF process_one_outbound
<1>6. CopyOK(id, m)' /\ Busy(id)' /\ m.inflight = 0
  BY <1>2, <1>3, <1>4, <1>5 DEF CopyOK, MaySubmit, Busy, flash, history
<1>7. CASE ContinueWith(id, journal[id])
  <2>1. ServiceCopyOK'
    BY <1>3, <1>4, <1>6, <1>7, ContinueKeeps
  <2> QED
    BY <2>1, <1>3, <1>5, <1>7, LocalStep DEF ContinueWith
<1>8. CASE mid' = id /\ msg' = [journal[id] EXCEPT !.status = "FAILED"] /\ pc' = "save_failed"
  <2>1. /\ msg'.status = "FAILED" /\ msg'.sent = m.sent /\ msg'.inflight = m.inflight
    BY <1>4, <1>8 DEF Record
  <2>2. ServiceCopyOK'
    BY <2>1, <1>6, <1>8 DEF ServiceCopyOK, CopyOK, MaySubmit, Busy, SendingPcs, InFlightPcs
  <2> QED
    BY <2>2, <1>3, <1>5, <1>8, LocalStep
<1> QED
  BY <1>1, <1>7, <1>8 DEF process_one_outbound

\* A report changes neither what is sent nor what is in flight.
LEMMA ReportKeeps ==
    ASSUME Inv, NEW r \in reports, process_status_report_pdu(r)
    PROVE  SubmissionInv'
<1>1. PICK id, s : /\ id = Newest(find_outbound_reference(r.recipient, r.ref))
                   /\ msg' = ApplyReport(journal[id], s, r.kind) /\ mid' = id /\ pc' = "save_report"
  BY DEF process_status_report_pdu
<1>2. id \in Stored(journal)
  BY <1>1, NewestIn DEF process_status_report_pdu, find_outbound_reference, Stored
<1>3. id \in Ids /\ id < next_id /\ journal[id] \in Record /\ CopyOK(id, journal[id])
  BY <1>2, StoredBelowNext
<1>4. UNCHANGED <<flash, http, history>>
  BY DEF process_status_report_pdu
<1>5. /\ msg'.sent = journal[id].sent /\ msg'.inflight = journal[id].inflight
      /\ msg'.status \in {journal[id].status, "DELIVERED", "FAILED"}
  BY <1>1, <1>3 DEF ApplyReport, Record
<1>6. ServiceCopyOK'
  BY <1>1, <1>3, <1>4, <1>5
  DEF ServiceCopyOK, CopyOK, MaySubmit, SendingPcs, InFlightPcs, flash, history
<1> QED
  BY <1>1, <1>3, <1>4, <1>6, LocalStep

\* The copies in the hands of the service task while nothing but the HTTP task
\* moves.
LEMMA HttpStepKeeps ==
    ASSUME Inv, UNCHANGED <<flash, service, history>>, HttpCopyOK'
    PROVE  SubmissionInv'
BY DEF Inv, SubmissionInv, AtMostOncePerApproval, StoredCopiesOK, ServiceCopyOK, UnusedIds,
       Stored, CopyOK, MaySubmit, Busy, flash, service, history

\* A segment in flight that stays in flight: the service task moves on to
\* another save of the same copy.
LEMMA InFlightStepKeeps ==
    ASSUME Inv, pc = "cmgs", pc' \in {"save_requeued", "save_untransmitted", "save_uncertain"},
           UNCHANGED <<flash, mid, msg, seg, http, history>>
    PROVE  SubmissionInv'
<1>1. ServiceCopyOK /\ mid < next_id
  BY DEF Inv, SubmissionInv, UnusedIds
<1>2. ServiceCopyOK'
  BY <1>1 DEF ServiceCopyOK, CopyOK, MaySubmit, Busy, SendingPcs, InFlightPcs, flash, history
<1> QED
  BY <1>1, <1>2, LocalStep

\* send_segment, process_one_outbound, mark_interrupted_sends_uncertain and
\* sms_service_retry_uncertain keep the invariant.
LEMMA SubmissionStep == Inv /\ [Next]_vars => SubmissionInv'
<1> SUFFICES ASSUME Inv, [Next]_vars
             PROVE  SubmissionInv'
  OBVIOUS
<1>0. TypeOK /\ SubmissionInv /\ ServiceCopyOK
  BY DEF Inv, SubmissionInv
<1>1. ASSUME NEW recipient \in Recipients, NEW report \in BOOLEAN, NEW count \in Segments,
             sms_service_send(recipient, report, count)
      PROVE  SubmissionInv'
  BY <1>1, SendKeeps
<1>2. CASE mark_interrupted_sends_uncertain
  BY <1>2, BootKeeps
<1>3. CASE save_failed
  <2>1. pc \in SendingPcs /\ msg.status = "FAILED" /\ ServiceSave(msg, ServiceIdle)
    BY <1>0, <1>3 DEF save_failed, SendingPcs, ServiceCopyOK
  <2> QED
    BY <2>1, SendingCopy, SaveThenIdle
<1>4. CASE send_segment_begin
  BY <1>4, BeginKeeps
<1>5. CASE send_segment_no_buffer
  BY <1>5, InFlightStepKeeps DEF send_segment_no_buffer
<1>6. CASE send_segment_requeue
  <2>1. pc = "save_requeued" /\ pc \in SendingPcs /\ MaySubmit(mid, seg) /\ msg.inflight = seg
    BY <1>0, <1>6 DEF send_segment_requeue, SendingPcs, InFlightPcs, ServiceCopyOK
  <2>2. /\ mid \in Ids /\ msg \in Record /\ CopyOK(mid, msg)
        /\ hpc = "idle" \/ hid # mid
    BY <2>1, SendingCopy
  <2>3. 0 \in 0 .. MaxSegments
    BY OutboundAssumption
  <2>4. PICK m \in Record : m = [msg EXCEPT !.status = "QUEUED", !.inflight = 0]
    BY <2>2, <2>3, RecordUpdates, StatusNames
  <2>5. m.inflight = 0 /\ m.sent = msg.sent
    BY <2>2, <2>4 DEF Record
  <2>6. CopyOK(mid, m)
    BY <2>1, <2>2, <2>5 DEF CopyOK
  <2>7. ServiceSave(m, ServiceIdle)
    BY <1>6, <2>4 DEF send_segment_requeue
  <2> QED
    BY <2>2, <2>6, <2>7, SaveThenIdle
<1>7. CASE cmgs_not_transmitted
  BY <1>7, InFlightStepKeeps DEF cmgs_not_transmitted
<1>8. CASE cmgs_refused
  BY <1>8, InFlightStepKeeps DEF cmgs_refused
<1>9. CASE cmgs_accepted
  BY <1>9, AcceptedKeeps
<1>10. CASE send_segment_uncertain
  <2>1. pc \in SendingPcs
    BY <1>10 DEF send_segment_uncertain, SendingPcs
  <2>2. mid \in Ids /\ msg \in Record /\ CopyOK(mid, msg)
    BY <2>1, SendingCopy
  <2>3. PICK m \in Record : m = [msg EXCEPT !.status = "UNCERTAIN"]
    BY <2>2, RecordUpdates, StatusNames
  <2>4. m.status = "UNCERTAIN" /\ m.inflight = msg.inflight /\ m.sent = msg.sent
    BY <2>2, <2>3 DEF Record
  <2>5. CopyOK(mid, m)
    BY <2>2, <2>4 DEF CopyOK
  <2>6. ServiceSave(m, ServiceIdle)
    BY <1>10, <2>3 DEF send_segment_uncertain
  <2> QED
    BY <2>2, <2>4, <2>5, <2>6, SaveThenIdle
<1>11. CASE send_segment_confirmed
  BY <1>11, ConfirmedKeeps
<1>12. CASE save_sent
  <2>1. pc \in SendingPcs /\ msg.inflight = 0
    BY <1>0, <1>12 DEF save_sent, SendingPcs, ServiceCopyOK
  <2>2. mid \in Ids /\ msg \in Record /\ CopyOK(mid, msg)
    BY <2>1, SendingCopy
  <2>3. 0 \in 0 .. MaxSegments
    BY OutboundAssumption
  <2>4. PICK m \in Record : m = [msg EXCEPT !.status = "SENT", !.inflight = 0]
    BY <2>2, <2>3, RecordUpdates, StatusNames
  <2>5. m.status = "SENT" /\ m.inflight = 0 /\ m.sent = msg.sent
    BY <2>2, <2>4 DEF Record
  <2>6. CopyOK(mid, m)
    BY <2>1, <2>2, <2>5 DEF CopyOK
  <2>7. ServiceSave(m, ServiceIdle)
    BY <1>12, <2>4 DEF save_sent
  <2> QED
    BY <2>2, <2>5, <2>6, <2>7, SaveThenIdle
<1>13. CASE save_report
  <2>1. /\ pc = "save_report" /\ mid \in Ids /\ msg \in Record /\ CopyOK(mid, msg)
        /\ ServiceSave(msg, ServiceIdle)
    BY <1>0, <1>13 DEF save_report, TypeOK, ServiceCopyOK
  <2> QED
    BY <2>1, ReportApart, SaveThenIdle
<1>14. CASE process_one_outbound
  BY <1>14, TakeKeeps
<1>15. ASSUME NEW r \in reports, process_status_report_pdu(r)
       PROVE  SubmissionInv'
  BY <1>15, ReportKeeps
<1>16. ASSUME NEW r \in reports, lose_report(r)
       PROVE  SubmissionInv'
  BY <1>0, <1>16, HttpStepKeeps DEF lose_report, http, flash, history, SubmissionInv, HttpCopyOK, CopyOK, MaySubmit, Busy
<1>17. ASSUME NEW id \in Ids, sms_service_retry_uncertain(id)
       PROVE  SubmissionInv'
  <2>1. id \in Stored(journal) /\ journal[id].status = "UNCERTAIN"
    BY <1>17 DEF sms_service_retry_uncertain, Stored
  <2>2. id < next_id /\ CopyOK(id, journal[id])
    BY <2>1, StoredBelowNext
  <2>3. HttpCopyOK'
    BY <2>1, <2>2, <1>17
    DEF sms_service_retry_uncertain, HttpCopyOK, CopyOK, MaySubmit, Busy, flash, history
  <2> QED
    BY <2>3, <1>17, HttpStepKeeps DEF sms_service_retry_uncertain
<1>18. ASSUME NEW id \in Ids, sms_service_delete(id)
       PROVE  SubmissionInv'
  <2>1. id \in Stored(journal) /\ ~Busy(id)
    BY <1>18 DEF sms_service_delete, Stored, Busy
  <2>2. id < next_id
    BY <2>1, StoredBelowNext
  <2>3. HttpCopyOK'
    BY <2>1, <2>2, <1>18 DEF sms_service_delete, HttpCopyOK, Busy, flash
  <2> QED
    BY <2>3, <1>18, HttpStepKeeps DEF sms_service_delete
<1>19. CASE retry_save
  BY <1>19, RetrySaveKeeps
<1>20. CASE sms_store_delete
  BY <1>20, DeleteKeeps
<1>21. CASE ModemReady \/ ModemLost \/ UNCHANGED vars
  <2>1. UNCHANGED <<flash, service, http, history>>
    BY <1>21 DEF ModemReady, ModemLost, vars
  <2> QED
    BY <2>1, <1>0, HttpStepKeeps DEF http, flash, history, SubmissionInv, HttpCopyOK, CopyOK, MaySubmit, Busy
<1>22. CASE Crash
  <2>1. /\ pc' = "boot" /\ mid' = 0 /\ hpc' = "idle"
        /\ UNCHANGED <<journal, next_id, submitted, approvals>>
    BY <1>22 DEF Crash, HttpIdle, flash, history
  <2>2. 0 < next_id
    BY <1>0, RecordsAssumption DEF TypeOK, Ids
  <2>3. AtMostOncePerApproval' /\ StoredCopiesOK' /\ HttpCopyOK' /\ UnusedIds'
    BY <2>1, <2>2, <1>0 DEF SubmissionInv, AtMostOncePerApproval, StoredCopiesOK, HttpCopyOK,
                            UnusedIds, Stored, CopyOK, MaySubmit
  <2> QED
    BY <2>1, <2>3, IdleHoldsNothing DEF SubmissionInv
<1> QED
  BY <1>1, <1>2, <1>3, <1>4, <1>5, <1>6, <1>7, <1>8, <1>9, <1>10, <1>11, <1>12, <1>13,
     <1>14, <1>15, <1>16, <1>17, <1>18, <1>19, <1>20, <1>21, <1>22
  DEF Next, ServiceStep, HttpStep

\* send_segment, mark_interrupted_sends_uncertain and sms_service_retry_uncertain:
\* every copy of a record, in flash or with a task, marks all segments that may
\* not be submitted again, at every moment.
THEOREM CopiesMarkSubmissions == Spec => []SubmissionInv
<1>1. Init => SubmissionInv
  <2> SUFFICES ASSUME Init PROVE SubmissionInv
    OBVIOUS
  <2>1. /\ AtMostOncePerApproval /\ StoredCopiesOK /\ HttpCopyOK
    BY DEF Init, AtMostOncePerApproval, StoredCopiesOK, Stored, NoRecord, HttpCopyOK
  <2>2. ServiceCopyOK
    BY DEF Init, ServiceCopyOK, SendingPcs, InFlightPcs
  <2>3. UnusedIds
    BY DEF Init, UnusedIds
  <2> QED
    BY <2>1, <2>2, <2>3 DEF SubmissionInv
<1>2. TypeOK /\ SubmissionInv /\ [Next]_vars => SubmissionInv'
  BY SubmissionStep DEF Inv
<1> QED
  BY <1>1, <1>2, TypeCorrect, PTL DEF Spec

\* The network takes a segment at most once plus once for every retry in which
\* the operator accepted to repeat that very segment, whatever fails and
\* whenever the gateway is reset.
THEOREM NoUnapprovedResubmission == Spec => []AtMostOncePerApproval
<1>1. SubmissionInv => AtMostOncePerApproval
  BY DEF SubmissionInv
<1> QED
  BY <1>1, CopiesMarkSubmissions, PTL

-----------------------------------------------------------------------------
(* What a record claims.  A claim is copied from record to record: from     *)
(* flash to a task and back.  So the invariants speak of every copy that    *)
(* is held somewhere.                                                       *)

\* Record m of message id is in flash or in the hands of a task.
Held(id, m) ==
    \/ id \in Stored(journal) /\ m = journal[id]
    \/ pc \in SendingPcs \cup {"save_report"} /\ id = mid /\ m = msg
    \/ hpc = "retry" /\ id = hid /\ m = hmsg

\* What m claims of its segments is true, and its status follows from it.
ClaimTrue(id, m) ==
    /\ m.sent \subseteq {s \in SegmentsOf(m) : submitted[id][s] >= 1}
    /\ m.delivered \subseteq m.sent
    /\ m.status = "SENT" => m.sent = SegmentsOf(m)
    /\ m.status = "DELIVERED" => m.delivered = SegmentsOf(m)

\* The service task marks sent what the network took, and calls a message sent
\* when no segment is left.
ClaimsInv ==
    /\ \A id \in Ids, m \in Record : Held(id, m) => ClaimTrue(id, m)
    /\ pc = "save_sent" => Unsent(msg) = {}
    /\ pc \in InFlightPcs \cup {"save_sending"} => seg \in SegmentsOf(msg)
    /\ pc = "save_segment" => submitted[mid][seg] >= 1

\* A report that carries the reference of segment s of m is about that segment.
ReportsMean(id, m, s) ==
    /\ m.ref[s] < next_ref
    /\ \A r \in reports :
          r.kind = "delivered" /\ r.recipient = m.recipient /\ r.ref = m.ref[s]
            => s \in confirmed[id]

\* As long as references are not used again, delivery bits are true, and the
\* reports under way will set no other.
ReportsInv ==
    /\ \A r \in reports : r.ref < next_ref
    /\ \A id \in Ids, m \in Record : Held(id, m) =>
          /\ m.delivered \subseteq confirmed[id]
          /\ \A s \in m.sent : ReportsMean(id, m, s)
    /\ pc = "save_segment" => ReportsMean(mid, msg, seg)

\* A report in hand was computed from a record that was not final unless the
\* record in flash still is not.
ReportBase ==
    pc = "save_report" /\ msg.status = "UNCERTAIN"
        => journal[mid].status \in {"UNCERTAIN", "QUEUED", "EMPTY"}

\* Two records that make the same claims of their segments.
Alike(m, n) ==
    /\ m.recipient = n.recipient /\ m.count = n.count
    /\ m.sent = n.sent /\ m.delivered = n.delivered /\ m.ref = n.ref

\* A save changes at most the record it saves.
LEMMA SaveAt ==
    ASSUME Inv, NEW k, NEW r, NEW ok, sms_store_save(k, r, ok), NEW id \in Ids
    PROVE  journal'[id] = journal[id] \/ (id = k /\ journal'[id] = r)
<1>1. journal' = journal \/ journal' = [journal EXCEPT ![k] = r]
  BY SaveEffect
<1> QED
  BY <1>1 DEF Inv, TypeOK

\* So does a save of the service task.
LEMMA ServiceSaveAt ==
    ASSUME Inv, NEW m, NEW ACTION next, ServiceSave(m, next), NEW id \in Ids
    PROVE  journal'[id] = journal[id] \/ (id = mid /\ journal'[id] = m)
<1>1. sms_store_save(mid, m, TRUE) \/ sms_store_save(mid, m, FALSE)
  BY DEF ServiceSave
<1> QED
  BY <1>1, SaveAt

\* What the service task writes while it sends: its copy with another status,
\* or with one more segment marked sent.
ServiceWrites(m) ==
    \/ Alike(m, msg) /\ m.status \in {"QUEUED", "SENDING", "FAILED", "UNCERTAIN"}
    \/ pc = "save_sent" /\ Alike(m, msg) /\ m.status = "SENT"
    \/ pc = "save_segment" /\ m = [msg EXCEPT !.sent = @ \cup {seg}, !.inflight = 0]

\* sms_store_save, sms_store_delete: all that a step may do to record id.
JournalWrite(id) ==
    \/ journal'[id] = journal[id]
    \/ /\ journal'[id] = NoRecord
       /\ journal[id].status \in {"RECEIVED", "SENT", "DELIVERED", "FAILED", "UNSUPPORTED"}
    \/ journal'[id] = NoRecord /\ hpc = "delete" /\ hid = id
    \/ /\ id = next_id
       /\ \E recipient \in Recipients, report \in BOOLEAN, count \in Segments :
             journal'[id] = NewRecord(recipient, report, count)
    \/ /\ hpc = "retry" /\ id = hid
       /\ journal'[id] = [hmsg EXCEPT !.status = "QUEUED", !.inflight = 0]
    \/ /\ journal[id].status = "SENDING"
       /\ journal'[id] = [journal[id] EXCEPT !.status = "UNCERTAIN"]
    \/ pc \in SendingPcs /\ id = mid /\ ServiceWrites(journal'[id])
    \/ pc = "save_report" /\ id = mid /\ journal'[id] = msg

\* There is no other way for a step to change the journal.
LEMMA JournalWrites ==
    ASSUME Inv, [Next]_vars, NEW id \in Ids
    PROVE  JournalWrite(id)
<1>0. pc \in SendingPcs => msg \in Record /\ ServiceCopyOK
  BY DEF Inv, TypeOK, SubmissionInv
<1>1. ASSUME NEW recipient \in Recipients, NEW report \in BOOLEAN, NEW count \in Segments,
             sms_service_send(recipient, report, count)
      PROVE  JournalWrite(id)
  <2>1. PICK room : room = MakeRoom(journal, TRUE, 0)
    OBVIOUS
  <2>2. PICK r : r = NewRecord(recipient, report, count)
    OBVIOUS
  <2>3. journal' = journal \/ journal' = room \/ journal' = [room EXCEPT ![next_id] = r]
    BY <1>1, <2>1, <2>2 DEF sms_service_send
  <2>4. /\ room \in [Ids -> Record \cup {NoRecord}]
        /\ \/ room[id] = journal[id]
           \/ /\ room[id] = NoRecord
              /\ journal[id].status \in {"RECEIVED", "SENT", "DELIVERED", "FAILED", "UNSUPPORTED"}
    BY <1>1, <2>1, MakeRoomKeeps DEF sms_service_send, Inv, TypeOK
  <2>5. journal'[id] = journal[id] \/ journal'[id] = room[id] \/ (id = next_id /\ journal'[id] = r)
    BY <2>3, <2>4
  <2> QED
    BY <2>2, <2>4, <2>5 DEF JournalWrite
<1>2. ASSUME mark_interrupted_sends_uncertain
      PROVE  JournalWrite(id)
  <2>1. \/ UNCHANGED journal
        \/ \E ok \in BOOLEAN :
             /\ journal[mid'].status = "SENDING"
             /\ sms_store_save(mid', [journal[mid'] EXCEPT !.status = "UNCERTAIN"], ok)
    BY <1>2 DEF mark_interrupted_sends_uncertain
  <2> QED
    BY <2>1, SaveAt DEF JournalWrite
<1>3. ASSUME save_failed
      PROVE  JournalWrite(id)
  <2>1. pc \in SendingPcs /\ msg.status = "FAILED"
    BY <1>0, <1>3 DEF save_failed, SendingPcs, ServiceCopyOK
  <2>2. journal'[id] = journal[id] \/ (id = mid /\ journal'[id] = msg)
    BY <1>3, ServiceSaveAt DEF save_failed
  <2>3. ServiceWrites(msg)
    BY <2>1 DEF ServiceWrites, Alike
  <2> QED
    BY <2>1, <2>2, <2>3 DEF JournalWrite
<1>4. ASSUME send_segment_begin
      PROVE  JournalWrite(id)
  <2>1. pc \in SendingPcs
    BY <1>4 DEF send_segment_begin, SendingPcs
  <2>2. PICK m : m = [msg EXCEPT !.status = "SENDING", !.inflight = seg]
    OBVIOUS
  <2>3. journal'[id] = journal[id] \/ (id = mid /\ journal'[id] = m)
    BY <1>4, <2>2, ServiceSaveAt DEF send_segment_begin
  <2>4. Alike(m, msg) /\ m.status = "SENDING"
    BY <1>0, <2>1, <2>2 DEF Record, Alike
  <2>5. ServiceWrites(m)
    BY <2>1, <2>4 DEF ServiceWrites
  <2> QED
    BY <2>1, <2>3, <2>5 DEF JournalWrite
<1>5. ASSUME send_segment_requeue
      PROVE  JournalWrite(id)
  <2>1. pc \in SendingPcs
    BY <1>5 DEF send_segment_requeue, SendingPcs
  <2>2. PICK m : m = [msg EXCEPT !.status = "QUEUED", !.inflight = 0]
    OBVIOUS
  <2>3. journal'[id] = journal[id] \/ (id = mid /\ journal'[id] = m)
    BY <1>5, <2>2, ServiceSaveAt DEF send_segment_requeue
  <2>4. Alike(m, msg) /\ m.status = "QUEUED"
    BY <1>0, <2>1, <2>2 DEF Record, Alike
  <2>5. ServiceWrites(m)
    BY <2>1, <2>4 DEF ServiceWrites
  <2> QED
    BY <2>1, <2>3, <2>5 DEF JournalWrite
<1>6. ASSUME send_segment_uncertain
      PROVE  JournalWrite(id)
  <2>1. pc \in SendingPcs
    BY <1>6 DEF send_segment_uncertain, SendingPcs
  <2>2. PICK m : m = [msg EXCEPT !.status = "UNCERTAIN"]
    OBVIOUS
  <2>3. journal'[id] = journal[id] \/ (id = mid /\ journal'[id] = m)
    BY <1>6, <2>2, ServiceSaveAt DEF send_segment_uncertain
  <2>4. Alike(m, msg) /\ m.status = "UNCERTAIN"
    BY <1>0, <2>1, <2>2 DEF Record, Alike
  <2>5. ServiceWrites(m)
    BY <2>1, <2>4 DEF ServiceWrites
  <2> QED
    BY <2>1, <2>3, <2>5 DEF JournalWrite
<1>7. ASSUME send_segment_confirmed
      PROVE  JournalWrite(id)
  <2>1. PICK m : m = [msg EXCEPT !.sent = @ \cup {seg}, !.inflight = 0]
    OBVIOUS
  <2>2. journal'[id] = journal[id] \/ (id = mid /\ journal'[id] = m)
    BY <1>7, <2>1, ServiceSaveAt DEF send_segment_confirmed
  <2>3. pc \in SendingPcs /\ ServiceWrites(m)
    BY <1>7, <2>1 DEF ServiceWrites, send_segment_confirmed, SendingPcs
  <2> QED
    BY <2>2, <2>3 DEF JournalWrite
<1>8. ASSUME save_sent
      PROVE  JournalWrite(id)
  <2>1. pc \in SendingPcs /\ pc = "save_sent"
    BY <1>8 DEF save_sent, SendingPcs
  <2>2. PICK m : m = [msg EXCEPT !.status = "SENT", !.inflight = 0]
    OBVIOUS
  <2>3. journal'[id] = journal[id] \/ (id = mid /\ journal'[id] = m)
    BY <1>8, <2>2, ServiceSaveAt DEF save_sent
  <2>4. Alike(m, msg) /\ m.status = "SENT"
    BY <1>0, <2>1, <2>2 DEF Record, Alike
  <2>5. ServiceWrites(m)
    BY <2>1, <2>4 DEF ServiceWrites
  <2> QED
    BY <2>1, <2>3, <2>5 DEF JournalWrite
<1>9. ASSUME save_report
      PROVE  JournalWrite(id)
  <2>1. journal'[id] = journal[id] \/ (id = mid /\ journal'[id] = msg)
    BY <1>9, ServiceSaveAt DEF save_report
  <2> QED
    BY <1>9, <2>1 DEF save_report, JournalWrite
<1>10. ASSUME retry_save
      PROVE  JournalWrite(id)
  <2>1. PICK m : m = [hmsg EXCEPT !.status = "QUEUED", !.inflight = 0]
    OBVIOUS
  <2>2. hpc = "retry" /\ \E ok \in BOOLEAN : sms_store_save(hid, m, ok)
    BY <1>10, <2>1 DEF retry_save
  <2>3. journal'[id] = journal[id] \/ (id = hid /\ journal'[id] = m)
    BY <2>2, SaveAt
  <2> QED
    BY <2>1, <2>2, <2>3 DEF JournalWrite
<1>11. ASSUME sms_store_delete
      PROVE  JournalWrite(id)
  <2>1. /\ hpc = "delete"
        /\ journal' = journal \/ journal' = [journal EXCEPT ![hid] = NoRecord]
    BY <1>11 DEF sms_store_delete
  <2>2. journal'[id] = journal[id] \/ (id = hid /\ journal'[id] = NoRecord)
    BY <2>1 DEF Inv, TypeOK
  <2> QED
    BY <2>1, <2>2 DEF JournalWrite
<1>12. ASSUME UNCHANGED journal
      PROVE  JournalWrite(id)
  BY <1>12 DEF JournalWrite
<1>13. [Next]_vars =>
         \/ UNCHANGED journal
         \/ \E recipient \in Recipients, report \in BOOLEAN, count \in Segments :
               sms_service_send(recipient, report, count)
         \/ mark_interrupted_sends_uncertain \/ save_failed \/ send_segment_begin
         \/ send_segment_requeue \/ send_segment_uncertain \/ send_segment_confirmed
         \/ save_sent \/ save_report \/ retry_save \/ sms_store_delete
  BY DEF Next, vars, flash, ServiceStep, HttpStep, send_segment_no_buffer, cmgs_not_transmitted,
         cmgs_refused, cmgs_accepted, process_one_outbound, process_status_report_pdu,
         lose_report, sms_service_retry_uncertain, sms_service_delete, ModemReady, ModemLost, Crash
<1> QED
  BY <1>1, <1>2, <1>3, <1>4, <1>5, <1>6, <1>7, <1>8, <1>9, <1>10, <1>11, <1>12, <1>13

\* process_one_outbound, send_segment, process_status_report_pdu: where the copy
\* in the hands of the service task comes from.
ServiceCopyFrom ==
    \/ pc' = pc /\ mid' = mid /\ msg' = msg /\ seg' = seg
    \/ /\ pc \in SendingPcs /\ pc' \in SendingPcs /\ mid' = mid /\ seg' = seg
       /\ pc' # "save_segment" /\ pc' # "save_sent"
       /\ pc' \in InFlightPcs => pc \in InFlightPcs \cup {"save_sending"}
       /\ pc' = "save_sending" => pc = "save_sending"
       /\ Alike(msg', msg) /\ msg'.status \in {msg.status, "SENDING"}
    \/ /\ mid' \in Stored(journal) /\ msg'.status \in {"QUEUED", "FAILED"}
       /\ Alike(msg', journal[mid'])
       /\ \/ ContinueWith(mid', journal[mid'])
          \/ pc' = "save_failed"
    \/ cmgs_accepted
    \/ /\ pc = "save_segment" /\ mid' = mid
       /\ msg' = [msg EXCEPT !.sent = @ \cup {seg}, !.inflight = 0]
       /\ ContinueWith(mid, msg')
    \/ \E r \in reports : process_status_report_pdu(r)

\* It has no other origin.
LEMMA ServiceCopySource ==
    ASSUME Inv, [Next]_vars, pc' \in SendingPcs \cup {"save_report"}
    PROVE  ServiceCopyFrom
<1>0. pc \in SendingPcs => msg \in Record
  BY DEF Inv, TypeOK
<1>1. pc' # "idle" /\ pc' # "boot"
  BY DEF SendingPcs
<1>2. ASSUME send_segment_begin PROVE ServiceCopyFrom
  <2>1. /\ pc = "save_sending" /\ pc' = "cmgs" /\ mid' = mid /\ seg' = seg
        /\ msg' = [msg EXCEPT !.status = "SENDING", !.inflight = seg]
    BY <1>1, <1>2 DEF send_segment_begin, ServiceSave, ServiceIdle
  <2>2. Alike(msg', msg) /\ msg'.status = "SENDING"
    BY <1>0, <2>1 DEF Record, Alike, SendingPcs
  <2> QED
    BY <2>1, <2>2 DEF ServiceCopyFrom, SendingPcs, InFlightPcs
<1>3. ASSUME send_segment_no_buffer \/ cmgs_not_transmitted \/ cmgs_refused
      PROVE  ServiceCopyFrom
  <2>1. /\ pc = "cmgs" /\ pc' \in {"save_requeued", "save_untransmitted", "save_uncertain"}
        /\ mid' = mid /\ msg' = msg /\ seg' = seg
    BY <1>3 DEF send_segment_no_buffer, cmgs_not_transmitted, cmgs_refused
  <2> QED
    BY <2>1 DEF ServiceCopyFrom, SendingPcs, InFlightPcs, Alike
<1>4. ASSUME send_segment_confirmed PROVE ServiceCopyFrom
  <2>1. PICK m : m = [msg EXCEPT !.sent = @ \cup {seg}, !.inflight = 0]
    OBVIOUS
  <2>2. pc = "save_segment" /\ ContinueWith(mid, m)
    BY <1>1, <1>4, <2>1 DEF send_segment_confirmed, ServiceSave, ServiceIdle
  <2>3. mid' = mid /\ msg' = m
    BY <2>2 DEF ContinueWith
  <2> QED
    BY <2>1, <2>2, <2>3 DEF ServiceCopyFrom
<1>5. ASSUME process_one_outbound PROVE ServiceCopyFrom
  <2>1. PICK id : id = Oldest(WithStatus(journal, "QUEUED"))
    OBVIOUS
  <2>2. id \in Stored(journal) /\ journal[id].status = "QUEUED"
    BY <1>5, <2>1, OldestIn DEF process_one_outbound, WithStatus, Stored
  <2>3. journal[id] \in Record
    BY <2>2, StoredBelowNext
  <2>4. \/ ContinueWith(id, journal[id])
        \/ /\ mid' = id /\ msg' = [journal[id] EXCEPT !.status = "FAILED"]
           /\ pc' = "save_failed"
    BY <1>5, <2>1 DEF process_one_outbound
  <2>5. CASE ContinueWith(id, journal[id])
    <3>1. mid' = id /\ msg' = journal[id]
      BY <2>5 DEF ContinueWith
    <3> QED
      BY <2>2, <2>5, <3>1 DEF ServiceCopyFrom, Alike
  <2>6. CASE mid' = id /\ msg' = [journal[id] EXCEPT !.status = "FAILED"] /\ pc' = "save_failed"
    <3>1. Alike(msg', journal[mid']) /\ msg'.status = "FAILED"
      BY <2>3, <2>6 DEF Record, Alike
    <3> QED
      BY <2>2, <2>6, <3>1 DEF ServiceCopyFrom
  <2> QED
    BY <2>4, <2>5, <2>6
<1>6. ASSUME \E r \in reports : process_status_report_pdu(r) PROVE ServiceCopyFrom
  BY <1>6 DEF ServiceCopyFrom
<1>7. ASSUME cmgs_accepted PROVE ServiceCopyFrom
  BY <1>7 DEF ServiceCopyFrom
<1>8. ASSUME UNCHANGED service PROVE ServiceCopyFrom
  BY <1>8 DEF ServiceCopyFrom, service
<1>9. \/ send_segment_begin \/ send_segment_no_buffer \/ cmgs_not_transmitted \/ cmgs_refused
      \/ send_segment_confirmed \/ process_one_outbound \/ cmgs_accepted \/ UNCHANGED service
      \/ \E r \in reports : process_status_report_pdu(r)
  <2>1. ASSUME mark_interrupted_sends_uncertain PROVE pc' = "idle" \/ pc' = "boot"
    BY <2>1 DEF mark_interrupted_sends_uncertain, ServiceIdle
  <2>2. ASSUME \/ save_failed \/ send_segment_requeue \/ send_segment_uncertain \/ save_sent
               \/ save_report
        PROVE  pc' = "idle"
    BY <2>2 DEF save_failed, send_segment_requeue, send_segment_uncertain, save_sent,
                save_report, ServiceSave, ServiceIdle
  <2>3. ASSUME Crash PROVE pc' = "boot"
    BY <2>3 DEF Crash
  <2> QED
    BY <1>1, <2>1, <2>2, <2>3
    DEF Next, vars, ServiceStep, HttpStep, sms_service_send, lose_report,
        sms_service_retry_uncertain, sms_service_delete, retry_save, sms_store_delete,
        ModemReady, ModemLost
<1> QED
  BY <1>2, <1>3, <1>4, <1>5, <1>6, <1>7, <1>8, <1>9

\* sms_service_retry_uncertain: the HTTP task's copy is read from flash.
LEMMA HttpCopySource ==
    ASSUME Inv, [Next]_vars, hpc' = "retry"
    PROVE  \/ hpc = "retry" /\ hid' = hid /\ hmsg' = hmsg
           \/ hid' \in Stored(journal) /\ hmsg' = journal[hid']
<1>1. ASSUME NEW id \in Ids, sms_service_retry_uncertain(id)
      PROVE  hid' \in Stored(journal) /\ hmsg' = journal[hid']
  BY <1>1 DEF sms_service_retry_uncertain, Stored
<1>2. UNCHANGED http \/ \E id \in Ids : sms_service_retry_uncertain(id)
  <2>1. ASSUME retry_save \/ sms_store_delete \/ Crash PROVE hpc' = "idle"
    BY <2>1 DEF retry_save, sms_store_delete, Crash, HttpIdle
  <2>2. ASSUME NEW id \in Ids, sms_service_delete(id) PROVE hpc' = "delete"
    BY <2>2 DEF sms_service_delete
  <2>3. ASSUME ServiceStep PROVE UNCHANGED http
    BY <2>3 DEF ServiceStep, mark_interrupted_sends_uncertain, save_failed, send_segment_begin,
       send_segment_no_buffer, send_segment_requeue, cmgs_not_transmitted, cmgs_refused,
       cmgs_accepted, send_segment_uncertain, send_segment_confirmed, save_sent, save_report,
       ServiceSave
  <2> QED
    BY <2>1, <2>2, <2>3
    DEF Next, vars, HttpStep, sms_service_send, process_one_outbound, process_status_report_pdu,
        lose_report, ModemReady, ModemLost
<1> QED
  BY <1>1, <1>2 DEF http

-----------------------------------------------------------------------------
(* What a step may do to a stored record.                                   *)

\* sms_service_send creates a record that claims nothing.
LEMMA NewIsQueued ==
    ASSUME NEW recipient, NEW report, NEW count
    PROVE  /\ NewRecord(recipient, report, count).status = "QUEUED"
           /\ NewRecord(recipient, report, count).sent = {}
           /\ NewRecord(recipient, report, count).delivered = {}
BY DEF NewRecord

\* Nothing is written with the status of an empty slot.
LEMMA WritesAreRecords ==
    ASSUME Inv, pc \in SendingPcs, NEW m, ServiceWrites(m)
    PROVE  m.status \in {"QUEUED", "SENDING", "FAILED", "UNCERTAIN", "SENT"}
<1>1. CASE pc = "save_segment" /\ m = [msg EXCEPT !.sent = @ \cup {seg}, !.inflight = 0]
  <2>1. msg \in Record /\ msg.status = "SENDING"
    BY <1>1 DEF Inv, TypeOK, SubmissionInv, ServiceCopyOK, InFlightPcs
  <2> QED
    BY <1>1, <2>1 DEF Record
<1> QED
  BY <1>1 DEF ServiceWrites

\* sms_service_delete and the pruning in sms_store_save: a message that is
\* queued, being sent or uncertain never disappears, except an uncertain one
\* that the operator deletes.
THEOREM UnfinishedKept == Spec => UnfinishedNeverLost
<1>1. ASSUME Inv, [Next]_vars, NEW id \in Stored(journal),
             journal[id].status \in {"QUEUED", "SENDING", "UNCERTAIN"}, id \notin Stored(journal)'
      PROVE  journal[id].status = "UNCERTAIN" /\ hpc = "delete" /\ hid = id
  <2>1. id \in Ids /\ journal'[id].status = "EMPTY"
    BY <1>1 DEF Stored
  <2>2. JournalWrite(id)
    BY <1>1, <2>1, JournalWrites
  <2>3. journal'[id] # journal[id]
    BY <1>1, <2>1
  <2>4. ~\E recipient \in Recipients, report \in BOOLEAN, count \in Segments :
            journal'[id] = NewRecord(recipient, report, count)
    BY <2>1, NewIsQueued
  <2>5. ASSUME hpc = "retry", journal'[id] = [hmsg EXCEPT !.status = "QUEUED", !.inflight = 0]
        PROVE  FALSE
    <3>1. hmsg \in Record
      BY <1>1, <2>5 DEF Inv, TypeOK
    <3> QED
      BY <2>1, <2>5, <3>1 DEF Record
  <2>6. ASSUME journal'[id] = [journal[id] EXCEPT !.status = "UNCERTAIN"]
        PROVE  FALSE
    <3>1. journal[id] \in Record
      BY <1>1, StoredBelowNext
    <3> QED
      BY <2>1, <2>6, <3>1 DEF Record
  <2>7. ~(pc \in SendingPcs /\ ServiceWrites(journal'[id]))
    BY <1>1, <2>1, WritesAreRecords
  <2>8. ~(pc = "save_report" /\ journal'[id] = msg)
    <3>1. pc = "save_report" => msg \in Record
      BY <1>1 DEF Inv, TypeOK
    <3> QED
      BY <2>1, <3>1 DEF Record, OutStatus
  <2>9. hpc = "delete" /\ hid = id
    BY <1>1, <2>2, <2>3, <2>4, <2>5, <2>6, <2>7, <2>8 DEF JournalWrite
  <2> QED
    BY <1>1, <2>1, <2>9 DEF Inv, SubmissionInv, HttpCopyOK, Busy
<1>2. Inv /\ [Next]_vars =>
         [\A id \in Stored(journal) :
            /\ journal[id].status \in {"QUEUED", "SENDING", "UNCERTAIN"}
            /\ id \notin Stored(journal)'
            => journal[id].status = "UNCERTAIN" /\ hpc = "delete" /\ hid = id]_vars
  BY <1>1
<1>3. Spec => []Inv
  BY TypeCorrect, CopiesMarkSubmissions, PTL DEF Inv
<1> QED
  BY <1>2, <1>3, PTL DEF Spec, UnfinishedNeverLost

\* process_status_report_pdu: while a report on an uncertain message is being
\* recorded, no other step makes the stored record final.
LEMMA ReportBaseStep ==
    ASSUME Inv, ReportBase, [Next]_vars
    PROVE  ReportBase'
<1> SUFFICES ASSUME pc' = "save_report", msg'.status = "UNCERTAIN"
             PROVE  journal'[mid'].status \in {"UNCERTAIN", "QUEUED", "EMPTY"}
  BY DEF ReportBase
<1>1. ServiceCopyFrom
  BY ServiceCopySource
<1>2. CASE pc = "save_report" /\ mid' = mid /\ msg' = msg
  <2>1. /\ mid \in Ids /\ mid < next_id /\ msg \in Record
        /\ journal[mid].status \in {"UNCERTAIN", "QUEUED", "EMPTY"}
    BY <1>2 DEF Inv, TypeOK, SubmissionInv, UnusedIds, ReportBase
  <2>2. JournalWrite(mid)
    BY <2>1, JournalWrites
  <2>3. mid # next_id
    BY <2>1, RecordsAssumption DEF Inv, TypeOK, Ids
  <2>4. hpc = "retry" /\ journal'[mid] = [hmsg EXCEPT !.status = "QUEUED", !.inflight = 0]
          => journal'[mid].status = "QUEUED"
    <3>1. hpc = "retry" => hmsg \in Record
      BY DEF Inv, TypeOK
    <3> QED
      BY <3>1 DEF Record
  <2>5. pc \notin SendingPcs
    BY <1>2 DEF SendingPcs
  <2>6. journal'[mid] = NoRecord => journal'[mid].status = "EMPTY"
    BY DEF NoRecord
  <2>7. journal'[mid].status \in {"UNCERTAIN", "QUEUED", "EMPTY"}
    BY <1>2, <2>1, <2>2, <2>3, <2>4, <2>5, <2>6 DEF JournalWrite
  <2> QED
    BY <1>2, <2>7
<1>3. ASSUME NEW r \in reports, process_status_report_pdu(r)
      PROVE  journal'[mid'].status \in {"UNCERTAIN", "QUEUED", "EMPTY"}
  <2>1. PICK s : msg' = ApplyReport(journal[mid'], s, r.kind) /\ journal' = journal
    BY <1>3 DEF process_status_report_pdu, flash
  <2>2. mid' \in Stored(journal)
    BY <1>3, NewestIn DEF process_status_report_pdu, find_outbound_reference, Stored
  <2>3. journal[mid'] \in Record
    BY <2>2, StoredBelowNext
  <2>4. msg'.status \in {journal[mid'].status, "DELIVERED", "FAILED"}
    BY <2>1, <2>3 DEF ApplyReport, Record
  <2> QED
    BY <2>1, <2>4
<1>4. ~(pc' = "save_failed") /\ pc' \notin SendingPcs
  BY DEF SendingPcs
<1>5. ASSUME NEW id, NEW m, ContinueWith(id, m) PROVE pc' \in SendingPcs
  BY <1>5 DEF ContinueWith, SendingPcs
<1>6. ~cmgs_accepted
  BY DEF cmgs_accepted
<1> QED
  BY <1>1, <1>2, <1>3, <1>4, <1>5, <1>6 DEF ServiceCopyFrom

\* sms_service_retry_uncertain checks the status in one store call and saves in
\* another: only such a retry, of a record that was uncertain when it was read,
\* takes a message out of a final state.
THEOREM FinalStatusKept == Spec => FinalStatusLeftByStaleRetryOnly
<1>1. Init => ReportBase
  BY DEF Init, ReportBase
<1>2. ASSUME Inv, ReportBase, [Next]_vars, NEW id \in Stored(journal),
             journal[id].status \in {"DELIVERED", "FAILED", "SENT"},
             journal'[id].status \in {"QUEUED", "SENDING", "UNCERTAIN"}
      PROVE  hpc = "retry" /\ hid = id /\ hmsg.status = "UNCERTAIN"
  <2>1. id \in Ids /\ id # next_id
    <3>1. id \in Ids /\ id < next_id
      BY <1>2, StoredBelowNext
    <3> QED
      BY <3>1, <1>2, RecordsAssumption DEF Inv, TypeOK, Ids
  <2>2. JournalWrite(id)
    BY <1>2, <2>1, JournalWrites
  <2>3. ~(pc \in SendingPcs /\ id = mid)
    BY <1>2 DEF Inv, SubmissionInv, ServiceCopyOK, Busy
  <2>4. ~(pc = "save_report" /\ id = mid /\ journal'[id] = msg)
    BY <1>2 DEF Inv, SubmissionInv, ServiceCopyOK, ReportBase
  <2>5. journal'[id] # NoRecord /\ journal'[id] # journal[id]
    BY <1>2 DEF NoRecord
  <2>6. hpc = "retry" /\ hid = id
    BY <1>2, <2>1, <2>2, <2>3, <2>4, <2>5 DEF JournalWrite
  <2> QED
    BY <1>2, <2>6 DEF Inv, SubmissionInv, HttpCopyOK
<1>3. Inv /\ ReportBase /\ [Next]_vars =>
         [\A id \in Stored(journal) :
            /\ journal[id].status \in {"DELIVERED", "FAILED", "SENT"}
            /\ journal'[id].status \in {"QUEUED", "SENDING", "UNCERTAIN"}
            => hpc = "retry" /\ hid = id /\ hmsg.status = "UNCERTAIN"]_vars
  BY <1>2
<1>4. Spec => []Inv
  BY TypeCorrect, CopiesMarkSubmissions, PTL DEF Inv
<1>5. Inv /\ ReportBase /\ [Next]_vars => ReportBase'
  BY ReportBaseStep
<1> QED
  BY <1>1, <1>3, <1>4, <1>5, PTL DEF Spec, FinalStatusLeftByStaleRetryOnly

-----------------------------------------------------------------------------
(* Stored records claim no more than what happened.                         *)

\* Every copy that is held after a step has its claims from one that was held
\* before, is new, or is what one of four steps makes of a copy.
HeldFrom(id, m) ==
    \/ \E n \in Record :
          /\ Held(id, n) /\ Alike(m, n)
          /\ m.status = n.status \/ m.status \notin {"SENT", "DELIVERED"}
    \/ m.sent = {} /\ m.delivered = {} /\ m.status = "QUEUED"
    \/ pc = "save_segment" /\ id = mid /\ m = [msg EXCEPT !.sent = @ \cup {seg}, !.inflight = 0]
    \/ pc = "save_sent" /\ id = mid /\ Alike(m, msg) /\ m.status = "SENT"
    \/ cmgs_accepted /\ id = mid /\ m = msg'
    \/ \E r \in reports : process_status_report_pdu(r) /\ id = mid' /\ m = msg'

\* No step makes a copy in any other way.
LEMMA HeldSource ==
    ASSUME Inv, [Next]_vars, NEW id \in Ids, NEW m \in Record, Held(id, m)'
    PROVE  HeldFrom(id, m)
<1>0. /\ pc \in SendingPcs \cup {"save_report"} => msg \in Record /\ Held(mid, msg)
      /\ hpc = "retry" => hmsg \in Record /\ Held(hid, hmsg)
  BY DEF Inv, TypeOK, Held
<1>1. \A k \in Stored(journal) : k \in Ids /\ journal[k] \in Record /\ Held(k, journal[k])
  BY StoredBelowNext DEF Held
<1>2. CASE id \in Stored(journal)' /\ m = journal'[id]
  <2>1. JournalWrite(id) /\ m # NoRecord /\ journal'[id].status # "EMPTY"
    BY <1>2, JournalWrites DEF NoRecord, Stored
  <2>2. CASE journal'[id] = journal[id]
    <3>1. id \in Stored(journal) /\ m = journal[id]
      BY <1>2, <2>2 DEF Stored
    <3> QED
      BY <3>1, <1>1 DEF HeldFrom, Alike
  <2>3. CASE \E recipient \in Recipients, report \in BOOLEAN, count \in Segments :
                journal'[id] = NewRecord(recipient, report, count)
    BY <1>2, <2>3, NewIsQueued DEF HeldFrom
  <2>4. CASE /\ hpc = "retry" /\ id = hid
             /\ journal'[id] = [hmsg EXCEPT !.status = "QUEUED", !.inflight = 0]
    <3>1. Alike(m, hmsg) /\ m.status = "QUEUED"
      BY <1>0, <1>2, <2>4 DEF Record, Alike
    <3> QED
      BY <1>0, <2>4, <3>1 DEF HeldFrom
  <2>5. CASE /\ journal[id].status = "SENDING"
             /\ journal'[id] = [journal[id] EXCEPT !.status = "UNCERTAIN"]
    <3>1. id \in Stored(journal)
      BY <2>5 DEF Stored
    <3>2. Alike(m, journal[id]) /\ m.status = "UNCERTAIN"
      BY <1>1, <1>2, <2>5, <3>1 DEF Record, Alike
    <3> QED
      BY <1>1, <3>1, <3>2 DEF HeldFrom
  <2>6. CASE pc \in SendingPcs /\ id = mid /\ ServiceWrites(journal'[id])
    <3>1. msg \in Record /\ Held(id, msg)
      BY <1>0, <2>6
    <3>2. ServiceWrites(m)
      BY <1>2, <2>6
    <3> QED
      BY <2>6, <3>1, <3>2 DEF HeldFrom, ServiceWrites
  <2>7. CASE pc = "save_report" /\ id = mid /\ journal'[id] = msg
    BY <1>0, <1>2, <2>7 DEF HeldFrom, Alike
  <2> QED
    BY <1>2, <2>1, <2>2, <2>3, <2>4, <2>5, <2>6, <2>7 DEF JournalWrite
<1>3. CASE pc' \in SendingPcs \cup {"save_report"} /\ id = mid' /\ m = msg'
  <2>1. ServiceCopyFrom
    BY <1>3, ServiceCopySource
  <2>2. CASE pc' = pc /\ mid' = mid /\ msg' = msg
    BY <1>0, <1>3, <2>2 DEF HeldFrom, Alike
  <2>3. CASE /\ pc \in SendingPcs /\ mid' = mid /\ Alike(msg', msg)
             /\ msg'.status \in {msg.status, "SENDING"}
    BY <1>0, <1>3, <2>3 DEF HeldFrom
  <2>4. CASE /\ mid' \in Stored(journal) /\ msg'.status \in {"QUEUED", "FAILED"}
             /\ Alike(msg', journal[mid'])
    BY <1>1, <1>3, <2>4 DEF HeldFrom
  <2>5. CASE cmgs_accepted
    <3>1. mid' = mid
      BY <2>5 DEF cmgs_accepted
    <3> QED
      BY <1>3, <2>5, <3>1 DEF HeldFrom
  <2>6. CASE /\ pc = "save_segment" /\ mid' = mid
             /\ msg' = [msg EXCEPT !.sent = @ \cup {seg}, !.inflight = 0]
    BY <1>3, <2>6 DEF HeldFrom
  <2>7. CASE \E r \in reports : process_status_report_pdu(r)
    BY <1>3, <2>7 DEF HeldFrom
  <2> QED
    BY <2>1, <2>2, <2>3, <2>4, <2>5, <2>6, <2>7 DEF ServiceCopyFrom
<1>4. CASE hpc' = "retry" /\ id = hid' /\ m = hmsg'
  <2>1. \/ hpc = "retry" /\ hid' = hid /\ hmsg' = hmsg
        \/ hid' \in Stored(journal) /\ hmsg' = journal[hid']
    BY <1>4, HttpCopySource
  <2>2. PICK n \in Record : Held(id, n) /\ m = n
    BY <1>0, <1>1, <1>4, <2>1
  <2> QED
    BY <2>2 DEF HeldFrom, Alike
<1> QED
  BY <1>2, <1>3, <1>4 DEF Held

\* What the network took or reported stays taken and reported.
LEMMA HistoryGrows ==
    ASSUME Inv, [Next]_vars
    PROVE  /\ \A id \in Ids, s \in Segments :
                 submitted[id][s] \in Nat /\ submitted'[id][s] \in Nat
                 /\ submitted'[id][s] >= submitted[id][s]
           /\ \A id \in Ids : confirmed[id] \subseteq confirmed'[id]
<1>0. /\ submitted \in [Ids -> [Segments -> Nat]] /\ confirmed \in [Ids -> SUBSET Segments]
  BY DEF Inv, TypeOK
<1>1. CASE submitted' = submitted /\ confirmed' = confirmed
  BY <1>0, <1>1
<1>2. CASE cmgs_accepted
  <2>1. /\ submitted' = [submitted EXCEPT ![mid][seg] = @ + 1]
        /\ confirmed' = confirmed \/ confirmed' = [confirmed EXCEPT ![mid] = @ \cup {seg}]
    BY <1>2 DEF cmgs_accepted
  <2>2. \A id \in Ids : confirmed[id] \subseteq confirmed'[id]
    BY <1>0, <2>1
  <2>3. mid \in Ids /\ seg \in Segments
    BY <1>2 DEF cmgs_accepted, Inv, TypeOK, SendingPcs, InFlightPcs
  <2>4. submitted' \in [Ids -> [Segments -> Nat]]
    BY <1>0, <2>1, <2>3, CountType
  <2>5. \A id \in Ids, s \in Segments : submitted'[id][s] >= submitted[id][s]
    BY <1>0, <2>1
  <2> QED
    BY <1>0, <2>2, <2>4, <2>5
<1>3. cmgs_accepted \/ (submitted' = submitted /\ confirmed' = confirmed)
  <2>1. ASSUME ServiceStep, ~cmgs_accepted PROVE UNCHANGED history
    BY <2>1 DEF ServiceStep, mark_interrupted_sends_uncertain, save_failed, send_segment_begin,
       send_segment_no_buffer, send_segment_requeue, cmgs_not_transmitted, cmgs_refused,
       send_segment_uncertain, send_segment_confirmed, save_sent, save_report, ServiceSave
  <2> QED
    BY <2>1
    DEF Next, vars, history, HttpStep, sms_service_send, process_one_outbound,
        process_status_report_pdu, lose_report, sms_service_retry_uncertain, sms_service_delete,
        retry_save, sms_store_delete, ModemReady, ModemLost, Crash
<1> QED
  BY <1>1, <1>2, <1>3

\* The masks and the status of m agree with one another.
Consistent(m) ==
    /\ m.sent \subseteq SegmentsOf(m) /\ m.delivered \subseteq m.sent
    /\ m.status = "SENT" => m.sent = SegmentsOf(m)
    /\ m.status = "DELIVERED" => m.delivered = SegmentsOf(m)

\* What a report of this kind on segment s changes in the claims of n.
Reported(m, n, s, kind) ==
    /\ m.recipient = n.recipient /\ m.count = n.count /\ m.sent = n.sent /\ m.ref = n.ref
    /\ m.delivered \subseteq n.delivered \cup {s}
    /\ kind # "delivered" => m.delivered = n.delivered

\* process_status_report_pdu: a delivery report keeps a record consistent.
LEMMA ReportedClaims ==
    ASSUME NEW n \in Record, NEW s \in n.sent, NEW kind, NEW m, m = ApplyReport(n, s, kind),
           Consistent(n)
    PROVE  Reported(m, n, s, kind) /\ Consistent(m)
<1> DEFINE delivered == IF kind = "delivered" THEN n.delivered \cup {s} ELSE n.delivered
           failed    == IF kind = "permanent" THEN n.failed \cup {s} ELSE n.failed
           status    == IF SegmentsOf(n) \subseteq delivered THEN "DELIVERED"
                        ELSE IF failed # {} THEN "FAILED" ELSE n.status
<1>1. m = [n EXCEPT !.delivered = delivered, !.failed = failed, !.status = status]
  BY DEF ApplyReport, Record
<1>2. delivered \subseteq n.sent
  BY DEF Consistent
<1>3. status = "SENT" => n.sent = SegmentsOf(n)
  BY DEF Consistent
<1>4. status = "DELIVERED" => delivered = SegmentsOf(n)
  BY DEF Consistent
<1>5. /\ delivered \subseteq n.delivered \cup {s}
      /\ kind # "delivered" => delivered = n.delivered
  OBVIOUS
<1> HIDE DEF delivered, failed, status
<1>6. /\ m.sent = n.sent /\ m.count = n.count /\ m.recipient = n.recipient /\ m.ref = n.ref
      /\ m.delivered = delivered /\ m.status = status
  BY <1>1 DEF Record
<1>7. SegmentsOf(m) = SegmentsOf(n)
  BY <1>6 DEF SegmentsOf
<1>8. n.sent \subseteq SegmentsOf(n)
  BY DEF Consistent
<1> QED
  BY <1>2, <1>3, <1>4, <1>5, <1>6, <1>7, <1>8 DEF Consistent, Reported

\* process_status_report_pdu finds a stored record and one of its sent segments.
LEMMA ReportTarget ==
    ASSUME Inv, NEW r \in reports, process_status_report_pdu(r)
    PROVE  /\ mid' \in Ids /\ journal[mid'] \in Record /\ Held(mid', journal[mid'])
           /\ journal[mid'].recipient = r.recipient
           /\ \E s \in journal[mid'].sent :
                 /\ journal[mid'].ref[s] = r.ref
                 /\ msg' = ApplyReport(journal[mid'], s, r.kind)
<1>1. PICK found : found = find_outbound_reference(r.recipient, r.ref)
  OBVIOUS
<1>2. mid' \in found
  BY <1>1, NewestIn DEF process_status_report_pdu, find_outbound_reference, Stored
<1>3. /\ mid' \in Stored(journal) /\ journal[mid'].recipient = r.recipient
      /\ \E s \in journal[mid'].sent : journal[mid'].ref[s] = r.ref
  BY <1>1, <1>2 DEF find_outbound_reference
<1>4. mid' \in Ids /\ journal[mid'] \in Record
  BY <1>3, StoredBelowNext
<1>5. PICK S : S = {i \in journal[mid'].sent : journal[mid'].ref[i] = r.ref}
  OBVIOUS
<1>6. Least(S) \in S
  <2>1. journal[mid'].sent \subseteq Segments
    BY <1>4 DEF Record
  <2>2. S \in SUBSET Segments /\ S # {}
    BY <1>3, <1>5, <2>1
  <2>3. QED
    BY <2>2, LeastIn
<1>7. msg' = ApplyReport(journal[mid'], Least(S), r.kind)
  BY <1>5 DEF process_status_report_pdu
<1> QED
  BY <1>3, <1>4, <1>5, <1>6, <1>7 DEF Held

\* The claims of a record with the same claims are as true, later too.
LEMMA ClaimsCopied ==
    ASSUME Inv, [Next]_vars, NEW id \in Ids, NEW n \in Record, ClaimTrue(id, n),
           NEW m, m.sent = n.sent, m.count = n.count, m.delivered = n.delivered,
           m.status = n.status \/ m.status \notin {"SENT", "DELIVERED"}
    PROVE  ClaimTrue(id, m)'
<1>1. \A s \in Segments : /\ submitted[id][s] \in Nat /\ submitted'[id][s] \in Nat
                          /\ submitted'[id][s] >= submitted[id][s]
  BY HistoryGrows
<1>2. n.sent \subseteq Segments
  BY DEF Record
<1>3. \A s \in n.sent : s \in SegmentsOf(n) /\ submitted'[id][s] >= 1
  BY <1>1, <1>2 DEF ClaimTrue
<1>4. SegmentsOf(m) = SegmentsOf(n)
  BY DEF SegmentsOf
<1> QED
  BY <1>3, <1>4 DEF ClaimTrue

\* send_segment, process_one_outbound and process_status_report_pdu keep the
\* claims of every copy true.
LEMMA ClaimsStep ==
    ASSUME Inv, ClaimsInv, [Next]_vars
    PROVE  ClaimsInv'
<1>0. \A id \in Ids, m \in Record : Held(id, m) => ClaimTrue(id, m)
  BY DEF ClaimsInv
<1>1. \A id \in Ids, s \in Segments : /\ submitted[id][s] \in Nat /\ submitted'[id][s] \in Nat
                                      /\ submitted'[id][s] >= submitted[id][s]
  BY HistoryGrows
<1>2. pc \in SendingPcs => mid \in Ids /\ msg \in Record /\ Held(mid, msg) /\ ClaimTrue(mid, msg)
  BY <1>0 DEF Inv, TypeOK, Held
<1>3. ASSUME NEW id \in Ids, NEW m \in Record, Held(id, m)'
      PROVE  ClaimTrue(id, m)'
  <2>1. HeldFrom(id, m)
    BY <1>3, HeldSource
  <2>2. ASSUME NEW n \in Record, Held(id, n), Alike(m, n),
               m.status = n.status \/ m.status \notin {"SENT", "DELIVERED"}
        PROVE  ClaimTrue(id, m)'
    BY <1>0, <2>2, ClaimsCopied DEF Alike
  <2>3. CASE m.sent = {} /\ m.delivered = {} /\ m.status = "QUEUED"
    BY <2>3 DEF ClaimTrue
  <2>4. CASE /\ pc = "save_segment" /\ id = mid
             /\ m = [msg EXCEPT !.sent = @ \cup {seg}, !.inflight = 0]
    <3>1. /\ ClaimTrue(id, msg) /\ msg \in Record /\ msg.status = "SENDING" /\ seg \in Segments
          /\ seg \in SegmentsOf(msg) /\ submitted[id][seg] >= 1
      BY <1>2, <2>4 DEF ClaimsInv, SendingPcs, InFlightPcs, Inv, TypeOK, SubmissionInv,
                        ServiceCopyOK
    <3>2. /\ m.sent = msg.sent \cup {seg} /\ m.count = msg.count /\ m.delivered = msg.delivered
          /\ m.status = "SENDING"
      BY <2>4, <3>1 DEF Record
    <3>3. PICK n : n = [m EXCEPT !.sent = msg.sent]
      OBVIOUS
    <3>4. n.sent = msg.sent /\ n.count = msg.count /\ n.delivered = msg.delivered
          /\ n.status = msg.status
      BY <3>1, <3>2, <3>3 DEF Record
    <3>5. ClaimTrue(id, n)'
      BY <3>1, <3>4, ClaimsCopied
    <3>6. submitted'[id][seg] >= 1
      BY <3>1, <1>1
    <3>7. SegmentsOf(m) = SegmentsOf(msg) /\ SegmentsOf(n) = SegmentsOf(msg)
      BY <3>2, <3>4 DEF SegmentsOf
    <3> QED
      BY <3>1, <3>2, <3>4, <3>5, <3>6, <3>7 DEF ClaimTrue
  <2>5. CASE pc = "save_sent" /\ id = mid /\ Alike(m, msg) /\ m.status = "SENT"
    <3>1. ClaimTrue(id, msg) /\ msg \in Record /\ Unsent(msg) = {}
      BY <1>2, <2>5 DEF ClaimsInv, SendingPcs
    <3>2. PICK n : n = [m EXCEPT !.status = "QUEUED"]
      OBVIOUS
    <3>3. /\ n.sent = msg.sent /\ n.count = msg.count /\ n.delivered = msg.delivered
          /\ n.status = "QUEUED"
      BY <2>5, <3>2 DEF Record, Alike
    <3>4. ClaimTrue(id, n)'
      BY <3>1, <3>3, ClaimsCopied
    <3>5. SegmentsOf(m) = SegmentsOf(n) /\ SegmentsOf(m) = SegmentsOf(msg)
      BY <2>5, <3>3 DEF SegmentsOf, Alike
    <3>6. m.sent = SegmentsOf(m)
      BY <2>5, <3>1, <3>5 DEF Unsent, ClaimTrue, Alike
    <3> QED
      BY <2>5, <3>3, <3>4, <3>5, <3>6 DEF ClaimTrue, Alike
  <2>6. CASE cmgs_accepted /\ id = mid /\ m = msg'
    <3>1. pc = "cmgs" /\ (msg' = msg \/ msg' = [msg EXCEPT !.ref[seg] = next_ref])
      BY <2>6 DEF cmgs_accepted
    <3>2. ClaimTrue(id, msg) /\ msg \in Record
      BY <1>2, <2>6, <3>1 DEF SendingPcs
    <3>3. /\ m.sent = msg.sent /\ m.count = msg.count /\ m.delivered = msg.delivered
          /\ m.status = msg.status
      BY <2>6, <3>1, <3>2 DEF Record
    <3> QED
      BY <3>2, <3>3, ClaimsCopied
  <2>7. ASSUME NEW r \in reports, process_status_report_pdu(r), id = mid', m = msg'
        PROVE  ClaimTrue(id, m)'
    <3>1. PICK n \in Record : n = journal[id] /\ Held(id, n)
      BY <2>7, ReportTarget
    <3>2. PICK s \in n.sent : m = ApplyReport(n, s, r.kind)
      BY <2>7, <3>1, ReportTarget
    <3>3. ClaimTrue(id, n)
      BY <1>0, <3>1
    <3>4. Consistent(n)
      BY <3>3 DEF ClaimTrue, Consistent
    <3>5. Consistent(m) /\ m.sent = n.sent /\ m.count = n.count
      BY <3>2, <3>4, ReportedClaims DEF Reported
    <3>6. ClaimTrue(id, n)'
      BY <3>3, ClaimsCopied
    <3>7. SegmentsOf(m) = SegmentsOf(n)
      BY <3>5 DEF SegmentsOf
    <3> QED
      BY <3>5, <3>6, <3>7 DEF ClaimTrue, Consistent
  <2> QED
    BY <2>1, <2>2, <2>3, <2>4, <2>5, <2>6, <2>7 DEF HeldFrom
<1>4. ASSUME NEW id, NEW m, ContinueWith(id, m)
      PROVE  /\ pc' = "save_sent" => Unsent(msg') = {}
             /\ pc' = "save_sending" => seg' = Least(Unsent(msg')) /\ Unsent(msg') # {}
             /\ pc' \in {"save_sent", "save_sending"} /\ msg' = m
  BY <1>4 DEF ContinueWith
<1>5. ASSUME pc' = "save_sent" PROVE Unsent(msg') = {}
  <2>1. ServiceCopyFrom
    BY <1>5, ServiceCopySource DEF SendingPcs
  <2>2. ~cmgs_accepted /\ ~\E r \in reports : process_status_report_pdu(r)
    BY <1>5 DEF cmgs_accepted, process_status_report_pdu
  <2>3. \/ pc' = pc /\ msg' = msg
        \/ \E id, m : ContinueWith(id, m)
    BY <1>5, <2>1, <2>2 DEF ServiceCopyFrom
  <2> QED
    BY <1>4, <1>5, <2>3 DEF ClaimsInv
<1>6. ASSUME pc' \in InFlightPcs \cup {"save_sending"} PROVE seg' \in SegmentsOf(msg')
  <2>1. ServiceCopyFrom
    BY <1>6, ServiceCopySource DEF SendingPcs, InFlightPcs
  <2>2. ~\E r \in reports : process_status_report_pdu(r)
    BY <1>6 DEF process_status_report_pdu, InFlightPcs
  <2>3. ASSUME cmgs_accepted PROVE seg' \in SegmentsOf(msg')
    <3>1. /\ pc = "cmgs" /\ seg' = seg
          /\ msg' = msg \/ msg' = [msg EXCEPT !.ref[seg] = next_ref]
      BY <2>3 DEF cmgs_accepted
    <3>2. seg \in SegmentsOf(msg) /\ msg \in Record
      BY <3>1, <1>2 DEF ClaimsInv, InFlightPcs, SendingPcs
    <3>3. msg'.count = msg.count
      BY <3>1, <3>2 DEF Record
    <3> QED
      BY <3>1, <3>2, <3>3 DEF SegmentsOf
  <2>4. ASSUME NEW id, NEW m, ContinueWith(id, m), m \in Record
        PROVE  seg' \in SegmentsOf(msg')
    <3>1. Unsent(m) \in SUBSET Segments
      BY <2>4, OutboundAssumption DEF Unsent, SegmentsOf, Record, Segments
    <3>2. seg' = Least(Unsent(m)) /\ Unsent(m) # {} /\ msg' = m
      BY <1>4, <1>6, <2>4 DEF InFlightPcs
    <3>3. seg' \in Unsent(m)
      BY <3>1, <3>2, LeastIn
    <3> QED
      BY <3>2, <3>3 DEF Unsent
  <2>5. CASE pc' = pc /\ msg' = msg /\ seg' = seg
    BY <1>6, <2>5 DEF ClaimsInv
  <2>6. CASE /\ pc \in InFlightPcs \cup {"save_sending"} /\ seg' = seg /\ Alike(msg', msg)
    BY <2>6 DEF ClaimsInv, Alike, SegmentsOf
  <2>7. CASE /\ mid' \in Stored(journal)
             /\ ContinueWith(mid', journal[mid']) \/ pc' = "save_failed"
    <3>1. journal[mid'] \in Record /\ pc' # "save_failed"
      BY <1>6, <2>7, StoredBelowNext DEF InFlightPcs
    <3> QED
      BY <2>4, <2>7, <3>1
  <2>8. CASE /\ pc = "save_segment" /\ ContinueWith(mid, msg')
             /\ msg' = [msg EXCEPT !.sent = @ \cup {seg}, !.inflight = 0]
    <3>1. msg' \in Record
      BY <1>2, <2>8, RecordUpdates DEF SendingPcs, Inv, TypeOK, InFlightPcs
    <3> QED
      BY <2>4, <2>8, <3>1
  <2> QED
    BY <1>6, <2>1, <2>2, <2>3, <2>5, <2>6, <2>7, <2>8 DEF ServiceCopyFrom, InFlightPcs
<1>7. ASSUME pc' = "save_segment" PROVE submitted'[mid'][seg'] >= 1
  <2>1. ServiceCopyFrom
    BY <1>7, ServiceCopySource DEF SendingPcs
  <2>2. ~\E r \in reports : process_status_report_pdu(r)
    BY <1>7 DEF process_status_report_pdu
  <2>3. cmgs_accepted \/ (pc' = pc /\ mid' = mid /\ seg' = seg)
    BY <1>4, <1>7, <2>1, <2>2 DEF ServiceCopyFrom
  <2>4. CASE pc' = pc /\ mid' = mid /\ seg' = seg
    <3>1. submitted[mid][seg] >= 1 /\ mid \in Ids /\ seg \in Segments
      BY <1>2, <1>7, <2>4 DEF ClaimsInv, SendingPcs, InFlightPcs, Inv, TypeOK
    <3> QED
      BY <1>1, <2>4, <3>1
  <2>5. CASE cmgs_accepted
    <3>1. /\ pc = "cmgs" /\ mid' = mid /\ seg' = seg
          /\ submitted' = [submitted EXCEPT ![mid][seg] = @ + 1]
      BY <2>5 DEF cmgs_accepted
    <3>2. mid \in Ids /\ seg \in Segments /\ submitted \in [Ids -> [Segments -> Nat]]
      BY <1>2, <3>1 DEF SendingPcs, InFlightPcs, Inv, TypeOK
    <3>3. submitted'[mid][seg] = submitted[mid][seg] + 1
      BY <3>1, <3>2
    <3> QED
      BY <3>1, <3>2, <3>3
  <2> QED
    BY <2>3, <2>4, <2>5
<1> QED
  BY <1>3, <1>5, <1>6, <1>7 DEF ClaimsInv

\* What stored records claim, leaving aside which reports reached them.
SentTruthful ==
    \A id \in Stored(journal) :
        LET m == journal[id] IN
        /\ m.sent \subseteq {s \in SegmentsOf(m) : submitted[id][s] >= 1}
        /\ m.status = "SENT" => m.sent = SegmentsOf(m)
        /\ m.delivered \subseteq m.sent
        /\ m.status = "DELIVERED" => m.delivered = SegmentsOf(m)

\* The claims of every copy, in flash or with a task, are true at every moment.
LEMMA ClaimsHold == Spec => []ClaimsInv
<1>1. Init => ClaimsInv
  <2> SUFFICES ASSUME Init PROVE ClaimsInv
    OBVIOUS
  <2>1. ~(pc \in SendingPcs \cup {"save_report"}) /\ hpc # "retry" /\ Stored(journal) = {}
    BY DEF Init, SendingPcs, Stored, NoRecord
  <2>2. pc = "boot"
    BY DEF Init
  <2> QED
    BY <2>1, <2>2 DEF ClaimsInv, Held, InFlightPcs
<1>2. Inv /\ ClaimsInv /\ [Next]_vars => ClaimsInv'
  BY ClaimsStep
<1>3. Spec => []Inv
  BY TypeCorrect, CopiesMarkSubmissions, PTL DEF Inv
<1> QED
  BY <1>1, <1>2, <1>3, PTL DEF Spec

\* process_one_outbound, send_segment: segments marked sent were taken by the
\* network, SENT means all of them were, delivery bits are set for sent segments
\* only and DELIVERED means that each has its bit, whatever fails, races or is
\* reset.
THEOREM SentAsClaimed == Spec => []SentTruthful
<1>1. Inv /\ ClaimsInv => SentTruthful
  <2> SUFFICES ASSUME Inv, ClaimsInv, NEW id \in Stored(journal)
               PROVE  ClaimTrue(id, journal[id])
    BY DEF SentTruthful, ClaimTrue
  <2>1. id \in Ids /\ journal[id] \in Record /\ Held(id, journal[id])
    BY StoredBelowNext DEF Held
  <2> QED
    BY <2>1 DEF ClaimsInv
<1>2. Spec => []Inv
  BY TypeCorrect, CopiesMarkSubmissions, PTL DEF Inv
<1> QED
  BY <1>1, <1>2, ClaimsHold, PTL

-----------------------------------------------------------------------------
(* A delivery bit is set by the modem's reference and the recipient alone.  *)
(* So it is right as long as the 8-bit reference has not come round.        *)

\* No submission is given a reference that was used before.
FreshReferences == [][submitted' # submitted => next_ref < next_ref']_vars

\* The reports under way after a step are those under way before, and the one
\* for the segment that the network took in this step.
LEMMA ReportsGrow ==
    ASSUME Inv, [Next]_vars, submitted' # submitted => next_ref < next_ref'
    PROVE  /\ next_ref \in Int /\ next_ref' \in Int /\ next_ref <= next_ref'
           /\ cmgs_accepted => next_ref < next_ref'
           /\ \A r \in reports' :
                 \/ r \in reports
                 \/ /\ cmgs_accepted /\ r.ref = next_ref /\ r.recipient = msg.recipient
                    /\ r.kind = "delivered" => seg \in confirmed'[mid]
<1>0. next_ref \in Int
  BY OutboundAssumption DEF Inv, TypeOK, Refs
<1>1. CASE cmgs_accepted
  <2>1. /\ pc = "cmgs" /\ next_ref' = NextRef(next_ref)
        /\ submitted' = [submitted EXCEPT ![mid][seg] = @ + 1]
        /\ \/ reports' = reports
           \/ \E kind \in ReportKinds :
                /\ reports' = reports \cup
                      {[recipient |-> msg.recipient, ref |-> next_ref, kind |-> kind]}
                /\ confirmed' = IF kind = "delivered"
                                THEN [confirmed EXCEPT ![mid] = @ \cup {seg}]
                                ELSE confirmed
    BY <1>1 DEF cmgs_accepted
  <2>2. /\ mid \in Ids /\ seg \in Segments /\ submitted \in [Ids -> [Segments -> Nat]]
        /\ confirmed \in [Ids -> SUBSET Segments]
    BY <2>1 DEF SendingPcs, InFlightPcs, Inv, TypeOK
  <2>3. submitted' # submitted
    <3>1. submitted'[mid][seg] = submitted[mid][seg] + 1 /\ submitted[mid][seg] \in Nat
      BY <2>1, <2>2
    <3> QED
      BY <3>1
  <2>4. next_ref' \in Int
    BY <1>0, <2>1 DEF NextRef
  <2>5. ASSUME NEW r \in reports', r \notin reports
        PROVE  /\ r.ref = next_ref /\ r.recipient = msg.recipient
               /\ r.kind = "delivered" => seg \in confirmed'[mid]
    <3>1. PICK kind \in ReportKinds :
             /\ r = [recipient |-> msg.recipient, ref |-> next_ref, kind |-> kind]
             /\ kind = "delivered" => confirmed' = [confirmed EXCEPT ![mid] = @ \cup {seg}]
      BY <2>1, <2>5
    <3>2. kind = "delivered" => seg \in confirmed'[mid]
      BY <2>2, <3>1
    <3> QED
      BY <3>1, <3>2
  <2> QED
    BY <1>0, <1>1, <2>3, <2>4, <2>5
<1>2. CASE next_ref' = next_ref /\ reports' \subseteq reports /\ ~cmgs_accepted
  BY <1>0, <1>2
<1>3. cmgs_accepted \/ (next_ref' = next_ref /\ reports' \subseteq reports)
  <2>1. ASSUME ServiceStep, ~cmgs_accepted PROVE UNCHANGED modem
    BY <2>1 DEF ServiceStep, mark_interrupted_sends_uncertain, save_failed, send_segment_begin,
       send_segment_no_buffer, send_segment_requeue, cmgs_not_transmitted, cmgs_refused,
       send_segment_uncertain, send_segment_confirmed, save_sent, save_report, ServiceSave
  <2>2. ASSUME NEW r \in reports, process_status_report_pdu(r) \/ lose_report(r)
        PROVE  next_ref' = next_ref /\ reports' \subseteq reports
    BY <2>2 DEF process_status_report_pdu, lose_report
  <2> QED
    BY <2>1, <2>2
    DEF Next, vars, modem, HttpStep, sms_service_send, process_one_outbound,
        sms_service_retry_uncertain, sms_service_delete, retry_save, sms_store_delete,
        ModemReady, ModemLost, Crash
<1> QED
  BY <1>1, <1>2, <1>3

\* A reference that means a segment goes on to mean it.
LEMMA MeaningKept ==
    ASSUME Inv, [Next]_vars, submitted' # submitted => next_ref < next_ref',
           NEW id \in Ids, NEW n \in Record, NEW s \in Segments, ReportsMean(id, n, s),
           NEW m, m.recipient = n.recipient, m.ref[s] = n.ref[s]
    PROVE  ReportsMean(id, m, s)'
<1>1. /\ next_ref \in Int /\ next_ref' \in Int /\ next_ref <= next_ref'
      /\ \A r \in reports' : r \in reports \/ r.ref = next_ref
  BY ReportsGrow
<1>2. confirmed[id] \subseteq confirmed'[id]
  BY HistoryGrows
<1>3. n.ref[s] \in Int /\ n.ref[s] < next_ref
  BY OutboundAssumption DEF Record, Refs, ReportsMean
<1>4. m.ref[s] < next_ref'
  BY <1>1, <1>3
<1>5. ASSUME NEW r \in reports', r.kind = "delivered", r.recipient = m.recipient,
             r.ref = m.ref[s]
      PROVE  s \in confirmed'[id]
  <2>1. r \in reports
    BY <1>1, <1>3, <1>5
  <2> QED
    BY <1>2, <1>5, <2>1 DEF ReportsMean
<1> QED
  BY <1>4, <1>5 DEF ReportsMean

\* cmgs_accepted, process_status_report_pdu: with fresh references, a report is
\* recorded for no segment but the one it is about.
LEMMA ReportsStep ==
    ASSUME Inv, ClaimsInv, ReportsInv, [Next]_vars, submitted' # submitted => next_ref < next_ref'
    PROVE  ReportsInv'
<1>0. \A id \in Ids, m \in Record : Held(id, m) =>
         /\ m.delivered \subseteq confirmed[id]
         /\ \A s \in m.sent : ReportsMean(id, m, s)
  BY DEF ReportsInv
<1>1. /\ next_ref \in Int /\ next_ref' \in Int /\ next_ref <= next_ref'
      /\ cmgs_accepted => next_ref < next_ref'
      /\ \A r \in reports' :
            \/ r \in reports
            \/ /\ cmgs_accepted /\ r.ref = next_ref /\ r.recipient = msg.recipient
               /\ r.kind = "delivered" => seg \in confirmed'[mid]
  BY ReportsGrow
<1>2. \A id \in Ids : confirmed[id] \subseteq confirmed'[id]
  BY HistoryGrows
<1>3. pc \in SendingPcs => mid \in Ids /\ msg \in Record /\ Held(mid, msg)
  BY DEF Inv, TypeOK, Held
<1>4. \A r \in reports' : r.ref < next_ref'
  <2> SUFFICES ASSUME NEW r \in reports' PROVE r.ref < next_ref'
    OBVIOUS
  <2>1. CASE r \in reports
    <3>1. r.ref \in Int /\ r.ref < next_ref
      BY <2>1, OutboundAssumption DEF ReportsInv, Inv, TypeOK, Report, Refs
    <3> QED
      BY <1>1, <3>1
  <2>2. CASE cmgs_accepted /\ r.ref = next_ref
    BY <1>1, <2>2
  <2> QED
    BY <1>1, <2>1, <2>2
<1>5. ASSUME cmgs_accepted, msg' = [msg EXCEPT !.ref[seg] = next_ref]
      PROVE  /\ mid \in Ids /\ msg \in Record /\ seg \in Segments
             /\ msg'.recipient = msg.recipient /\ msg'.sent = msg.sent
             /\ msg'.delivered = msg.delivered
             /\ \A s \in Segments : s # seg => msg'.ref[s] = msg.ref[s]
             /\ ReportsMean(mid, msg, seg)'
  <2>1. mid \in Ids /\ msg \in Record /\ seg \in Segments
    BY <1>3, <1>5 DEF cmgs_accepted, SendingPcs, InFlightPcs, Inv, TypeOK
  <2>2. /\ msg'.recipient = msg.recipient /\ msg'.sent = msg.sent
        /\ msg'.delivered = msg.delivered
        /\ msg'.ref[seg] = next_ref
        /\ \A s \in Segments : s # seg => msg'.ref[s] = msg.ref[s]
    BY <1>5, <2>1 DEF Record
  <2>3. ASSUME NEW r \in reports', r.kind = "delivered", r.ref = next_ref
        PROVE  seg \in confirmed'[mid]
    <3>1. r \notin reports
      BY <1>1, <2>3 DEF ReportsInv
    <3> QED
      BY <1>1, <2>3, <3>1
  <2>4. PICK m : m = msg'
    OBVIOUS
  <2>5. ReportsMean(mid, m, seg)'
    <3>1. m.ref[seg] < next_ref'
      BY <1>1, <1>5, <2>2, <2>4
    <3>2. mid' = mid /\ seg' = seg
      BY <1>5 DEF cmgs_accepted
    <3> QED
      BY <3>1, <3>2, <2>2, <2>3, <2>4 DEF ReportsMean
  <2>6. ReportsMean(mid, msg, seg)'
    BY <2>4, <2>5 DEF ReportsMean
  <2> QED
    BY <2>1, <2>2, <2>6
<1>6. ASSUME NEW id \in Ids, NEW m \in Record, Held(id, m)'
      PROVE  /\ m.delivered \subseteq confirmed'[id]
             /\ \A s \in m.sent : ReportsMean(id, m, s)'
  <2>0. m.sent \subseteq Segments
    BY DEF Record
  <2>1. HeldFrom(id, m)
    BY <1>6, HeldSource
  <2>2. ASSUME NEW n \in Record, Held(id, n), Alike(m, n)
        PROVE  /\ m.delivered \subseteq confirmed'[id]
               /\ \A s \in m.sent : ReportsMean(id, m, s)'
    <3>1. m.delivered \subseteq confirmed'[id]
      BY <1>0, <1>2, <2>2 DEF Alike
    <3>2. ASSUME NEW s \in m.sent PROVE ReportsMean(id, m, s)'
      <4>1. s \in Segments /\ ReportsMean(id, n, s)
        BY <1>0, <2>0, <2>2, <3>2 DEF Alike
      <4>2. m.recipient = n.recipient /\ m.ref[s] = n.ref[s]
        BY <2>2 DEF Alike
      <4> QED
        BY <4>1, <4>2, MeaningKept
    <3> QED
      BY <3>1, <3>2
  <2>3. CASE m.sent = {} /\ m.delivered = {}
    BY <2>3
  <2>4. CASE /\ pc = "save_segment" /\ id = mid
             /\ m = [msg EXCEPT !.sent = @ \cup {seg}, !.inflight = 0]
    <3>1. msg \in Record /\ Held(id, msg) /\ ReportsMean(id, msg, seg)
      BY <1>3, <2>4 DEF ReportsInv, SendingPcs
    <3>2. /\ m.sent = msg.sent \cup {seg} /\ m.delivered = msg.delivered
          /\ m.recipient = msg.recipient /\ m.ref = msg.ref
      BY <2>4, <3>1 DEF Record
    <3>3. m.delivered \subseteq confirmed'[id]
      BY <1>0, <1>2, <3>1, <3>2
    <3>4. ASSUME NEW s \in m.sent PROVE ReportsMean(id, m, s)'
      <4>1. s \in Segments /\ ReportsMean(id, msg, s)
        BY <1>0, <2>0, <3>1, <3>2, <3>4
      <4> QED
        BY <3>1, <3>2, <4>1, MeaningKept
    <3> QED
      BY <3>3, <3>4
  <2>5. CASE pc = "save_sent" /\ id = mid /\ Alike(m, msg)
    <3>1. msg \in Record /\ Held(id, msg)
      BY <1>3, <2>5 DEF SendingPcs
    <3> QED
      BY <2>2, <2>5, <3>1
  <2>6. CASE cmgs_accepted /\ id = mid /\ m = msg'
    <3>1. pc = "cmgs" /\ (msg' = msg \/ msg' = [msg EXCEPT !.ref[seg] = next_ref])
      BY <2>6 DEF cmgs_accepted
    <3>2. msg \in Record /\ Held(id, msg)
      BY <1>3, <2>6, <3>1 DEF SendingPcs
    <3>3. CASE msg' = msg
      BY <2>2, <2>6, <3>2, <3>3 DEF Alike
    <3>4. CASE msg' = [msg EXCEPT !.ref[seg] = next_ref]
      <4>1. /\ m.recipient = msg.recipient /\ m.sent = msg.sent /\ m.delivered = msg.delivered
            /\ \A s \in Segments : s # seg => m.ref[s] = msg.ref[s]
        BY <1>5, <2>6, <3>4
      <4>2. ReportsMean(id, m, seg)'
        <5>1. mid' = mid /\ seg' = seg
          BY <2>6 DEF cmgs_accepted
        <5> QED
          BY <1>5, <2>6, <3>4, <5>1 DEF ReportsMean
      <4>3. m.delivered \subseteq confirmed'[id]
        BY <1>0, <1>2, <3>2, <4>1
      <4>4. ASSUME NEW s \in m.sent, s # seg PROVE ReportsMean(id, m, s)'
        <5>1. s \in Segments /\ ReportsMean(id, msg, s)
          BY <1>0, <2>0, <3>2, <4>1, <4>4
        <5> QED
          BY <3>2, <4>1, <4>4, <5>1, MeaningKept
      <4>5. seg' = seg
        BY <2>6 DEF cmgs_accepted
      <4>6. ASSUME NEW s \in m.sent PROVE ReportsMean(id, m, s)'
        BY <4>2, <4>4, <4>5 DEF ReportsMean
      <4> QED
        BY <4>3, <4>6
    <3> QED
      BY <3>1, <3>3, <3>4
  <2>7. ASSUME NEW r \in reports, process_status_report_pdu(r), id = mid', m = msg'
        PROVE  /\ m.delivered \subseteq confirmed'[id]
               /\ \A s \in m.sent : ReportsMean(id, m, s)'
    <3>1. PICK n \in Record : n = journal[id] /\ Held(id, n) /\ n.recipient = r.recipient
      BY <2>7, ReportTarget
    <3>2. PICK s \in n.sent : n.ref[s] = r.ref /\ m = ApplyReport(n, s, r.kind)
      BY <2>7, <3>1, ReportTarget
    <3>3. Consistent(n)
      BY <3>1 DEF ClaimsInv, ClaimTrue, Consistent
    <3>4. Reported(m, n, s, r.kind)
      BY <3>2, <3>3, ReportedClaims
    <3>5. r.kind = "delivered" => s \in confirmed[id]
      BY <1>0, <3>1, <3>2 DEF ReportsMean
    <3>6. m.delivered \subseteq confirmed'[id]
      BY <1>0, <1>2, <3>1, <3>4, <3>5 DEF Reported
    <3>7. ASSUME NEW i \in m.sent PROVE ReportsMean(id, m, i)'
      <4>1. i \in Segments /\ ReportsMean(id, n, i)
        BY <1>0, <2>0, <3>1, <3>4, <3>7 DEF Reported
      <4> QED
        BY <3>4, <4>1, MeaningKept DEF Reported
    <3> QED
      BY <3>6, <3>7
  <2> QED
    BY <2>1, <2>2, <2>3, <2>4, <2>5, <2>6, <2>7 DEF HeldFrom
<1>7. ASSUME pc' = "save_segment" PROVE ReportsMean(mid, msg, seg)'
  <2>1. ServiceCopyFrom
    BY <1>7, ServiceCopySource DEF SendingPcs
  <2>2. ~\E r \in reports : process_status_report_pdu(r)
    BY <1>7 DEF process_status_report_pdu
  <2>3. \A id, m : ~ContinueWith(id, m)
    BY <1>7 DEF ContinueWith
  <2>4. cmgs_accepted \/ (pc' = pc /\ mid' = mid /\ msg' = msg /\ seg' = seg)
    BY <1>7, <2>1, <2>2, <2>3 DEF ServiceCopyFrom
  <2>5. CASE pc' = pc /\ mid' = mid /\ msg' = msg /\ seg' = seg
    <3>1. mid \in Ids /\ msg \in Record /\ seg \in Segments /\ ReportsMean(mid, msg, seg)
      BY <1>3, <1>7, <2>5 DEF ReportsInv, SendingPcs, InFlightPcs, Inv, TypeOK
    <3>2. PICK id, m, s : id = mid /\ m = msg /\ s = seg
      OBVIOUS
    <3>3. ReportsMean(id, m, s)'
      BY <3>1, <3>2, MeaningKept
    <3> QED
      BY <2>5, <3>2, <3>3 DEF ReportsMean
  <2>6. CASE cmgs_accepted
    <3>1. mid' = mid /\ seg' = seg /\ msg' = [msg EXCEPT !.ref[seg] = next_ref]
      BY <1>7, <2>6 DEF cmgs_accepted
    <3> QED
      BY <1>5, <2>6, <3>1 DEF ReportsMean
  <2> QED
    BY <2>4, <2>5, <2>6
<1> QED
  BY <1>4, <1>6, <1>7 DEF ReportsInv, ReportsMean

\* process_status_report_pdu, find_outbound_reference: as long as no reference is
\* used again, a stored record claims no more than what happened; a delivery bit
\* is set only for a segment that the network reported delivered.
THEOREM ReportedAsClaimed == Spec /\ FreshReferences => []StatusTruthful
<1>1. Init => ReportsInv
  <2> SUFFICES ASSUME Init PROVE ReportsInv
    OBVIOUS
  <2>1. ~(pc \in SendingPcs \cup {"save_report"}) /\ hpc # "retry" /\ Stored(journal) = {}
    BY DEF Init, SendingPcs, Stored, NoRecord
  <2>2. pc = "boot" /\ reports = {}
    BY DEF Init
  <2> QED
    BY <2>1, <2>2 DEF ReportsInv, Held
<1>2. /\ Inv /\ ClaimsInv /\ ReportsInv /\ [Next]_vars
      /\ [submitted' # submitted => next_ref < next_ref']_vars
      => ReportsInv'
  <2> SUFFICES ASSUME Inv, ClaimsInv, ReportsInv, [Next]_vars,
                      [submitted' # submitted => next_ref < next_ref']_vars
               PROVE  ReportsInv'
    OBVIOUS
  <2>1. submitted' # submitted => next_ref < next_ref'
    BY DEF vars, history
  <2> QED
    BY <2>1, ReportsStep
<1>3. Inv /\ ClaimsInv /\ ReportsInv => StatusTruthful
  <2> SUFFICES ASSUME Inv, ClaimsInv, ReportsInv, NEW id \in Stored(journal)
               PROVE  ClaimTrue(id, journal[id]) /\ journal[id].delivered \subseteq confirmed[id]
    BY DEF StatusTruthful, ClaimTrue
  <2>1. id \in Ids /\ journal[id] \in Record /\ Held(id, journal[id])
    BY StoredBelowNext DEF Held
  <2> QED
    BY <2>1 DEF ClaimsInv, ReportsInv
<1>4. Spec => []Inv
  BY TypeCorrect, CopiesMarkSubmissions, PTL DEF Inv
<1> QED
  BY <1>1, <1>2, <1>3, <1>4, ClaimsHold, PTL DEF Spec, FreshReferences
=============================================================================
