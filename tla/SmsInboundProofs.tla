-------------------------- MODULE SmsInboundProofs --------------------------
(***************************************************************************)
(* Proofs about SmsInbound for any set of PDUs, any store size, any modem   *)
(* storage and any number of deliveries, failures, deletes and resets.      *)
(***************************************************************************)
EXTENDS SmsInbound, FiniteSetTheorems, WellFoundedInduction, TLAPS

\* A non-empty set of natural numbers has a least element.
LEMMA LeastExists ==
    ASSUME NEW S \in SUBSET Nat, S # {}
    PROVE  \E x \in S : \A y \in S : x <= y
<1>1. PICK x \in S : \A y \in S : ~(<<y, x>> \in OpToRel(<, Nat))
  BY NatLessThanWellFounded, WFMin
<1>2. \A y \in S : ~(y < x)
  BY <1>1 DEF OpToRel
<1>3. QED
  BY <1>2

\* The scans of the store return an element of what they search.
LEMMA OldestIn ==
    ASSUME NEW S \in SUBSET Ids, S # {}
    PROVE  Oldest(S) \in S
<1>1. S \in SUBSET Nat
  BY RecordsAssumption DEF Ids
<1>2. \E x \in S : \A y \in S : x <= y
  BY <1>1, LeastExists
<1>3. QED
  BY <1>2 DEF Oldest

Entries == [index : Indexes \cup {0}, pdu : Pdus]

\* The scan processes an entry of the response.
LEMMA EntryIn ==
    ASSUME batch \in SUBSET Entries, batch # {}
    PROVE  Entry \in batch /\ Entry \in Entries
<1> DEFINE S == {e.index : e \in batch}
<1>1. S \in SUBSET Nat /\ S # {}
  <2>0. Indexes \subseteq Nat
    BY InboundAssumption
  <2>1. ASSUME NEW e \in batch PROVE e.index \in Nat
    <3>1. e \in Entries
      OBVIOUS
    <3>2. e.index \in Indexes \cup {0}
      BY <3>1 DEF Entries
    <3>3. \A i \in Indexes \cup {0} : i \in Nat
      BY <2>0
    <3>4. QED
      BY <3>2, <3>3
  <2>2. PICK e \in batch : TRUE
    OBVIOUS
  <2>3. QED
    BY <2>1, <2>2
<1>2. PICK x \in S : \A y \in S : x <= y
  BY <1>1, LeastExists
<1>3. \E e \in batch : \A f \in batch : e.index <= f.index
  BY <1>2
<1>4. QED
  BY <1>3 DEF Entry

-----------------------------------------------------------------------------
(* What the journal holds. *)

\* All parts of a message, in order.
Whole(text) ==
    \E p \in Pdus :
        /\ Len(text) = p.total
        /\ \A i \in 1 .. p.total :
              \E q \in Pdus : SameReference(p, q) /\ q.part = i /\ q.text = text[i]

ValidRecord(r) ==
    \/ r = NoRecord
    \/ \E q \in Pdus : r = InRecord("PARTIAL", q, <<q.text>>)
    \/ \E q \in Pdus : r = InRecord("UNSUPPORTED", q, <<q.text>>)
    \/ r.status = "RECEIVED" /\ Whole(r.text)

\* Every record is one the service makes, and no id is used before its time.
JournalInv ==
    /\ journal = [id \in Ids |-> journal[id]]
    /\ \A id \in Ids : ValidRecord(journal[id])
    /\ next_id \in Ids
    /\ \A id \in Ids : id >= next_id => journal[id] = NoRecord

\* r has the text of p, and if it is a part it is p's part.
Held(r, p) ==
    /\ r.status # "EMPTY"
    /\ p.text \in Texts(r)
    /\ r.status = "PARTIAL" => /\ r.sender = p.sender /\ r.ref = p.ref
                               /\ r.total = p.total /\ r.part = p.part

Replaced(p) ==
    \E q \in Pdus : /\ SameReference(p, q) /\ q.part = p.part
                    /\ q.net # p.net /\ arrivals[q] > 0

Kept(p) ==
    \/ p.text \in discarded
    \/ \E id \in Ids : Held(journal[id], p)
    \/ Replaced(p)

\* A part that may go: what it holds is in a message or was discarded.
Spare(r) ==
    \/ r = NoRecord
    \/ /\ r.status = "PARTIAL"
       /\ \A t \in Texts(r) :
             \/ t \in discarded
             \/ \E id \in Ids : journal[id].status = "RECEIVED" /\ t \in Texts(journal[id])

Working == {"persist", "assemble", "drop", "cmgd"}

\* PDUs come from the network, and the service works on one of them.
BatchInv ==
    /\ inbox \in [Indexes -> Pdus \cup {NoPdu}]
    /\ batch \in SUBSET Entries
    /\ arrivals \in [Pdus -> 0 .. MaxArrivals]
    /\ \A i \in Indexes : inbox[i] # NoPdu => arrivals[inbox[i]] > 0
    /\ \A e \in batch : arrivals[e.pdu] > 0
    /\ pc \in {"idle", "scan"} \cup Working
    /\ pc \in Working => batch # {}

\* What the modem no longer has is kept, and so is what it is about to drop.
KeptInv ==
    /\ \A p \in handed_over : p \in Pdus /\ Kept(p)
    /\ pc \in {"assemble", "drop", "cmgd"} => \A p \in Pdus : p = Current => Kept(p)

\* Only spare parts are about to be deleted.
DoomedInv ==
    /\ doomed \in Seq(Ids)
    /\ pc = "drop" => doomed # <<>> /\ \A k \in DOMAIN doomed : Spare(journal[doomed[k]])

CountersInv ==
    /\ replay_watermark \in 0 .. IdMax
    /\ scanning \in BOOLEAN /\ processed \in BOOLEAN
    /\ deletes \in 0 .. MaxDeletes /\ faults \in 0 .. MaxFaults
    /\ crashes \in 0 .. MaxCrashes

InboundInv ==
    JournalInv /\ OneRecordPerMessage /\ BatchInv /\ KeptInv /\ DoomedInv /\ CountersInv

-----------------------------------------------------------------------------
(* Records. *)

\* A record of the service is empty exactly when it is not there.
LEMMA RecordStatus ==
    ASSUME NEW r, ValidRecord(r)
    PROVE  /\ r.status \in {"EMPTY", "PARTIAL", "UNSUPPORTED", "RECEIVED"}
           /\ r.status = "EMPTY" <=> r = NoRecord
  BY DEF ValidRecord, InRecord, NoRecord

\* A part is one of a PDU of the network.
LEMMA PartialRecord ==
    ASSUME NEW r, ValidRecord(r), r.status = "PARTIAL"
    PROVE  \E q \in Pdus : r = InRecord("PARTIAL", q, <<q.text>>)
  BY DEF ValidRecord, InRecord, NoRecord

\* A message is whole.
LEMMA ReceivedRecord ==
    ASSUME NEW r, ValidRecord(r), r.status = "RECEIVED"
    PROVE  Whole(r.text)
<1>1. r # NoRecord
  BY DEF NoRecord
<1>2. \A q \in Pdus : /\ r # InRecord("PARTIAL", q, <<q.text>>)
                      /\ r # InRecord("UNSUPPORTED", q, <<q.text>>)
  BY DEF InRecord
<1>3. QED
  BY <1>1, <1>2 DEF ValidRecord

\* The fields of the records it makes.
LEMMA RecordFields ==
    ASSUME NEW status, NEW p, NEW text
    PROVE  LET r == InRecord(status, p, text) IN
           /\ r.status = status /\ r.sender = p.sender /\ r.ref = p.ref /\ r.ts = p.ts
           /\ r.total = p.total /\ r.part = p.part /\ r.text = text
  BY DEF InRecord

\* A record of one text.
LEMMA OneText ==
    ASSUME NEW r, NEW t, r.text = <<t>>
    PROVE  Texts(r) = {t}
<1>1. DOMAIN r.text = {1} /\ r.text[1] = t
  OBVIOUS
<1>2. QED
  BY <1>1 DEF Texts

-----------------------------------------------------------------------------
(* Steps of the journal. *)

\* The record of id is removed and what it held is discarded.
Removed(id) == journal'[id] = NoRecord /\ Texts(journal[id]) \subseteq discarded'

\* Nothing is forgotten outside the journal.
HistoryGrows ==
    /\ discarded \subseteq discarded'
    /\ \A p \in Pdus : arrivals[p] > 0 => arrivals'[p] > 0

\* Records stay or are removed, and r may be new.
Gentle(r) ==
    /\ HistoryGrows
    /\ journal' = [id \in Ids |-> journal'[id]]
    /\ \A id \in Ids : \/ journal'[id] = journal[id]
                       \/ Removed(id)
                       \/ journal[id] = NoRecord /\ journal'[id] = r

\* Such a step forgets nothing.
LEMMA KeptStays ==
    ASSUME NEW r, Gentle(r), NEW p, Kept(p)
    PROVE  Kept(p)'
<1>1. CASE p.text \in discarded
  BY <1>1 DEF Gentle, HistoryGrows, Kept
<1>2. ASSUME NEW id \in Ids, Held(journal[id], p) PROVE Kept(p)'
  <2>1. CASE journal'[id] = journal[id]
    <3>1. Held(journal[id], p)'
      BY <1>2, <2>1 DEF Held, Texts
    <3>2. QED
      BY <3>1 DEF Kept
  <2>2. CASE Removed(id)
    BY <1>2, <2>2 DEF Removed, Held, Kept
  <2>3. CASE journal[id] = NoRecord
    BY <1>2, <2>3 DEF Held, NoRecord
  <2>4. QED
    BY <2>1, <2>2, <2>3 DEF Gentle
<1>3. CASE Replaced(p)
  BY <1>3 DEF Gentle, HistoryGrows, Replaced, Kept
<1>4. QED
  BY <1>1, <1>2, <1>3 DEF Kept

\* Nothing that is kept is forgotten.
KeepsAll == \A p \in Pdus : Kept(p) => Kept(p)'

\* Such a step does not.
LEMMA GentleKeeps ==
    ASSUME NEW r, Gentle(r)
    PROVE  KeepsAll
  BY KeptStays DEF KeepsAll

\* A spare part stays spare, or goes.
LEMMA SpareStays ==
    ASSUME NEW r, Gentle(r), JournalInv, NEW id \in Ids, Spare(journal[id]),
           journal'[id] = journal[id] \/ journal'[id] = NoRecord
    PROVE  Spare(journal[id])'
<1>1. CASE journal'[id] = NoRecord
  BY <1>1 DEF Spare
<1>2. CASE journal'[id] = journal[id] /\ journal[id] # NoRecord
  <2>1. journal'[id].status = "PARTIAL"
    BY <1>2 DEF Spare
  <2>2. ASSUME NEW t \in Texts(journal'[id])
        PROVE  \/ t \in discarded'
               \/ \E k \in Ids : journal'[k].status = "RECEIVED" /\ t \in Texts(journal'[k])
    <3>1. CASE t \in discarded
      BY <3>1 DEF Gentle, HistoryGrows
    <3>2. ASSUME NEW k \in Ids, journal[k].status = "RECEIVED", t \in Texts(journal[k])
          PROVE  \/ t \in discarded'
                 \/ journal'[k].status = "RECEIVED" /\ t \in Texts(journal'[k])
      BY <3>2 DEF Gentle, Removed, NoRecord
    <3>3. QED
      BY <1>2, <2>2, <3>1, <3>2 DEF Spare
  <2>3. QED
    BY <2>1, <2>2 DEF Spare, Texts
<1>3. QED
  BY <1>1, <1>2

\* A step that leaves the journal and what was discarded alone.
LEMMA JournalFrame ==
    ASSUME JournalInv, UNCHANGED <<journal, next_id, discarded>>,
           \A p \in Pdus : arrivals[p] > 0 => arrivals'[p] > 0
    PROVE  JournalInv' /\ Gentle(NoRecord)
  BY DEF JournalInv, ValidRecord, Whole, SameReference, InRecord, Gentle, HistoryGrows

\* Making room removes a record that is prunable.
LEMMA RoomFacts ==
    ASSUME JournalInv, HasRoom(journal, TRUE, replay_watermark)
    PROVE  LET room == MakeRoom(journal, TRUE, replay_watermark) IN
           /\ room = [id \in Ids |-> room[id]]
           /\ \A id \in Ids :
                 \/ room[id] = journal[id]
                 \/ /\ room[id] = NoRecord /\ id \in Stored(journal)
                    /\ record_prunable(journal[id], id, TRUE, replay_watermark)
<1> DEFINE P == Prunable(journal, TRUE, replay_watermark)
           room == MakeRoom(journal, TRUE, replay_watermark)
<1>1. CASE ~Full(journal)
  BY <1>1 DEF MakeRoom, JournalInv
<1>2. CASE Full(journal)
  <2>1. P \in SUBSET Ids /\ P # {}
    BY <1>2 DEF HasRoom, Prunable, Stored
  <2>2. Oldest(P) \in P
    BY <2>1, OldestIn
  <2>3. room = [journal EXCEPT ![Oldest(P)] = NoRecord]
    BY <1>2 DEF MakeRoom
  <2>4. /\ Oldest(P) \in Ids /\ Oldest(P) \in Stored(journal)
        /\ record_prunable(journal[Oldest(P)], Oldest(P), TRUE, replay_watermark)
    BY <2>1, <2>2 DEF Prunable
  <2> HIDE DEF P
  <2>5. QED
    BY <2>3, <2>4 DEF JournalInv
<1>3. QED
  BY <1>1, <1>2

\* What pruning leaves of the record of id.
Pruned(id) ==
    /\ journal'[id] = NoRecord
    /\ record_prunable(journal[id], id, TRUE, replay_watermark)

\* What is dropped from a record that is there.
LEMMA DroppedIn ==
    ASSUME NEW j, NEW k, NEW id \in Stored(j), k[id] = NoRecord
    PROVE  Texts(j[id]) \subseteq Dropped(j, k)
<1>1. k[id].status = "EMPTY"
  BY DEF NoRecord
<1>2. QED
  BY <1>1 DEF Dropped

\* sms_store_save adds the record or not, and prunes at most what is prunable.
LEMMA SaveFacts ==
    ASSUME JournalInv, NEW r, NEW ok \in BOOLEAN, save_new(r, ok), arrivals' = arrivals
    PROVE  /\ Gentle(r)
           /\ \A id \in Ids : \/ journal'[id] = journal[id]
                              \/ Pruned(id)
                              \/ id = next_id /\ journal'[id] = r
           /\ next_id' \in Ids /\ next_id <= next_id'
           /\ journal'[next_id] # NoRecord => next_id < next_id'
           /\ ok => next_id \in Ids /\ journal'[next_id] = r
<1> DEFINE room  == MakeRoom(journal, TRUE, replay_watermark)
           added == [room EXCEPT ![next_id] = r]
<1>1. next_id \in Ids /\ NextId(next_id) = next_id + 1 /\ next_id + 1 \in Ids
  BY RecordsAssumption DEF save_new, JournalInv, NextId, Ids
<1>2. journal[next_id] = NoRecord
  BY <1>1 DEF JournalInv, Ids
<1>3. CASE HasRoom(journal, TRUE, replay_watermark)
  <2>1. /\ room = [id \in Ids |-> room[id]]
        /\ \A id \in Ids :
              \/ room[id] = journal[id]
              \/ /\ room[id] = NoRecord /\ id \in Stored(journal)
                 /\ record_prunable(journal[id], id, TRUE, replay_watermark)
    BY <1>3, RoomFacts
  <2>2. \/ /\ journal' = added /\ next_id' = next_id + 1
           /\ discarded' = discarded \cup Dropped(journal, room)
        \/ /\ journal' = added /\ next_id' = next_id + 1
           /\ discarded' = discarded \cup Dropped(journal, journal')
        \/ /\ journal' \in {journal, room} /\ next_id' \in {next_id, next_id + 1} /\ ~ok
           /\ discarded' = discarded \cup Dropped(journal, journal')
    BY <1>1, <1>3 DEF save_new
  <2> HIDE DEF room
  <2>3. room[next_id] = NoRecord
    BY <1>1, <1>2, <2>1
  <2>4. /\ added = [id \in Ids |-> added[id]] /\ added[next_id] = r
        /\ \A id \in Ids : id # next_id => added[id] = room[id]
    BY <1>1, <2>1
  <2> HIDE DEF added
  <2>5. journal = [id \in Ids |-> journal[id]]
    BY DEF JournalInv
  <2>6. journal' = [id \in Ids |-> journal'[id]]
    BY <2>1, <2>2, <2>4, <2>5
  <2>7. ASSUME NEW id \in Ids
        PROVE  \/ journal'[id] = journal[id]
               \/ Pruned(id) /\ Removed(id)
               \/ id = next_id /\ journal'[id] = r
    <3>1. CASE id = next_id
      BY <1>2, <2>2, <2>3, <2>4, <3>1
    <3>2. CASE id # next_id
      <4>1. journal'[id] \in {journal[id], room[id]}
        BY <2>2, <2>4, <3>2
      <4>2. CASE journal'[id] = journal[id]
        BY <4>2
      <4>3. CASE journal'[id] = room[id] /\ room[id] # journal[id]
        <5>1. /\ room[id] = NoRecord /\ id \in Stored(journal)
              /\ record_prunable(journal[id], id, TRUE, replay_watermark)
          BY <2>1, <4>3
        <5>2. Texts(journal[id]) \subseteq discarded'
          BY <2>2, <4>3, <5>1, DroppedIn
        <5>3. QED
          BY <4>3, <5>1, <5>2 DEF Pruned, Removed
      <4>4. QED
        BY <4>1, <4>2, <4>3
    <3>3. QED
      BY <3>1, <3>2
  <2>8. HistoryGrows
    BY <2>2 DEF HistoryGrows
  <2>9. Gentle(r)
    BY <1>2, <2>6, <2>7, <2>8 DEF Gentle
  <2>10. next_id' \in Ids /\ next_id <= next_id'
    BY <1>1, <2>2 DEF Ids
  <2>11. journal'[next_id] # NoRecord => next_id < next_id'
    BY <1>1, <1>2, <2>2, <2>3 DEF Ids
  <2>12. ok => journal'[next_id] = r
    BY <2>2, <2>4
  <2>13. QED
    BY <1>1, <2>7, <2>9, <2>10, <2>11, <2>12
<1>4. CASE ~HasRoom(journal, TRUE, replay_watermark)
  <2>1. UNCHANGED <<journal, next_id, discarded>> /\ ~ok
    BY <1>4 DEF save_new, flash
  <2>2. Gentle(r)
    BY <2>1 DEF Gentle, HistoryGrows, JournalInv
  <2>3. QED
    BY <1>1, <1>2, <2>1, <2>2 DEF Ids
<1>5. QED
  BY <1>3, <1>4

\* So what is stored stays in order.
LEMMA SaveJournal ==
    ASSUME JournalInv, NEW r, ValidRecord(r), NEW ok \in BOOLEAN, save_new(r, ok),
           arrivals' = arrivals
    PROVE  JournalInv'
<1>1. /\ Gentle(r)
      /\ \A id \in Ids : \/ journal'[id] = journal[id]
                         \/ Pruned(id)
                         \/ id = next_id /\ journal'[id] = r
      /\ next_id' \in Ids /\ next_id <= next_id'
      /\ journal'[next_id] # NoRecord => next_id < next_id'
  BY SaveFacts
<1>2. \A id \in Ids : ValidRecord(journal[id])'
  <2>1. ASSUME NEW id \in Ids PROVE ValidRecord(journal'[id])
    BY <1>1 DEF Pruned, JournalInv, ValidRecord
  <2>2. QED
    BY <2>1 DEF ValidRecord, Whole, SameReference, InRecord
<1>3. ASSUME NEW id \in Ids, id >= next_id' PROVE journal'[id] = NoRecord
  <2>1. id \in Nat /\ next_id \in Nat /\ next_id' \in Nat
    BY <1>1, RecordsAssumption DEF JournalInv, Ids
  <2>2. journal[id] = NoRecord
    BY <1>1, <1>3, <2>1 DEF JournalInv
  <2>3. id = next_id => journal'[id] = NoRecord
    BY <1>1, <1>3, <2>1
  <2>4. QED
    BY <1>1, <2>2, <2>3 DEF Pruned
<1>4. QED
  BY <1>1, <1>2, <1>3 DEF JournalInv, Gentle

-----------------------------------------------------------------------------
(* The other parts of the invariant. *)

\* No message is stored twice, if what is new is not known yet.
LEMMA OnceStays ==
    ASSUME OneRecordPerMessage, NEW r, NEW n \in Ids,
           \A id \in Ids : \/ journal'[id] = journal[id]
                           \/ journal'[id] = NoRecord
                           \/ id = n /\ journal'[id] = r,
           r.status = "RECEIVED" => find_inbound_identity(r.sender, r.ts, r.text) = {}
    PROVE  OneRecordPerMessage'
<1> SUFFICES ASSUME NEW a \in Received', NEW b \in Received',
                    journal'[a].sender = journal'[b].sender,
                    journal'[a].ts = journal'[b].ts,
                    journal'[a].text = journal'[b].text
             PROVE  a = b
  BY DEF OneRecordPerMessage
<1>1. /\ a \in Ids /\ b \in Ids
      /\ journal'[a].status = "RECEIVED" /\ journal'[b].status = "RECEIVED"
  BY DEF Received, Stored
<1>2. /\ journal'[a] # NoRecord /\ journal'[b] # NoRecord
  BY <1>1 DEF NoRecord
<1>3. ASSUME NEW c \in Ids, journal[c].status = "RECEIVED",
             r.status = "RECEIVED", journal[c].sender = r.sender, journal[c].ts = r.ts,
             journal[c].text = r.text
      PROVE  FALSE
  BY <1>3 DEF find_inbound_identity, Stored
<1>4. CASE journal'[a] = journal[a] /\ journal'[b] = journal[b]
  BY <1>1, <1>4 DEF OneRecordPerMessage, Received, Stored
<1>5. CASE journal'[a] = r /\ a = n /\ journal'[b] = journal[b]
  BY <1>1, <1>3, <1>5
<1>6. CASE journal'[b] = r /\ b = n /\ journal'[a] = journal[a]
  BY <1>1, <1>3, <1>6
<1>7. QED
  BY <1>1, <1>2, <1>4, <1>5, <1>6

\* A failure is counted.
LEMMA FaultType ==
    ASSUME faults \in 0 .. MaxFaults, faults' = faults \/ Fault
    PROVE  faults' \in 0 .. MaxFaults
  BY InboundAssumption DEF Fault

\* The journal stays as it is.
LEMMA OnceFrame ==
    ASSUME OneRecordPerMessage, journal' = journal
    PROVE  OneRecordPerMessage'
  BY DEF OneRecordPerMessage, Received, Stored

\* The entries stay, and the service is at work only if it was.
LEMMA BatchFrame ==
    ASSUME BatchInv, UNCHANGED <<inbox, batch, arrivals>>,
           pc' \in {"idle", "scan"} \/ (pc' \in Working /\ pc \in Working)
    PROVE  BatchInv'
  BY DEF BatchInv, Working

\* The service goes on with the next entry or ends the scan.
LEMMA BatchReturn ==
    ASSUME BatchInv, NEW ok \in BOOLEAN, Return(ok), UNCHANGED <<inbox, arrivals>>
    PROVE  BatchInv'
  BY DEF BatchInv, Return, Working

\* The PDU at work.
LEMMA CurrentIn ==
    ASSUME BatchInv, pc \in Working
    PROVE  /\ Entry \in batch /\ Entry.index \in Indexes \cup {0}
           /\ Current \in Pdus /\ arrivals[Current] > 0 /\ PduType(Current)
<1>1. Entry \in batch /\ Entry \in Entries
  BY EntryIn DEF BatchInv
<1>2. Entry.index \in Indexes \cup {0} /\ Entry.pdu \in Pdus
  BY <1>1 DEF Entries
<1>3. QED
  BY <1>1, <1>2, InboundAssumption DEF Current, BatchInv

\* What was handed over stays kept; so does the PDU at work, if there is one.
LEMMA KeptFrame ==
    ASSUME KeptInv, KeepsAll, handed_over' = handed_over,
           pc' \in {"assemble", "drop", "cmgd"} => \A p \in Pdus : p = Current' => Kept(p)'
    PROVE  KeptInv'
  BY DEF KeptInv, KeepsAll

\* The parts to delete stay spare.
LEMMA DoomedFrame ==
    ASSUME DoomedInv, JournalInv, NEW r, Gentle(r), doomed' = doomed,
           pc' = "drop" => pc = "drop",
           \A id \in Ids : journal'[id] = journal[id] \/ journal'[id] = NoRecord
    PROVE  DoomedInv'
<1>1. CASE pc' = "drop"
  <2>1. ASSUME NEW k \in DOMAIN doomed PROVE Spare(journal[doomed[k]])'
    <3>1. doomed[k] \in Ids /\ Spare(journal[doomed[k]])
      BY <1>1 DEF DoomedInv
    <3>2. QED
      BY <3>1, SpareStays
  <2>2. QED
    BY <1>1, <2>1 DEF DoomedInv
<1>2. QED
  BY <1>1 DEF DoomedInv

\* The PDU at work is the same while the entries are.
LEMMA SameCurrent ==
    ASSUME batch' = batch
    PROVE  Entry' = Entry /\ Current' = Current
  BY DEF Entry, Current

-----------------------------------------------------------------------------
(* How a step of the service ends. *)

\* What no step of the service writes.
Outside == UNCHANGED <<inbox, arrivals, handed_over, replay_watermark, deletes, crashes>>

\* With the next entry, whatever became of this one.
LEMMA AfterReturn ==
    ASSUME InboundInv, NEW ok \in BOOLEAN, Return(ok), KeepsAll, JournalInv',
           OneRecordPerMessage', Outside, faults' = faults \/ Fault
    PROVE  InboundInv'
<1>1. BatchInv'
  BY BatchReturn DEF InboundInv, Outside
<1>2. pc' \in {"persist", "scan", "idle"} /\ doomed' = <<>>
  BY DEF Return
<1>3. KeptInv'
  BY <1>2, KeptFrame DEF InboundInv, Outside
<1>4. DoomedInv'
  BY <1>2 DEF DoomedInv
<1>5. scanning' \in BOOLEAN /\ processed' \in BOOLEAN
  BY DEF Return, InboundInv, CountersInv
<1>6. CountersInv'
  BY <1>5, FaultType DEF InboundInv, CountersInv, Outside
<1>7. QED
  BY <1>1, <1>3, <1>4, <1>6 DEF InboundInv

\* With a further step for this entry, which is kept.
LEMMA AfterGoto ==
    ASSUME InboundInv, pc \in Working, NEW label \in {"assemble", "cmgd"}, Goto(label),
           KeepsAll, JournalInv', OneRecordPerMessage', Outside, faults' = faults \/ Fault,
           \A p \in Pdus : p = Current => Kept(p)'
    PROVE  InboundInv'
<1>1. pc' = label /\ UNCHANGED <<batch, scanning, processed, doomed, created>>
  BY DEF Goto
<1>2. BatchInv'
  BY <1>1, BatchFrame DEF InboundInv, Outside, Working
<1>3. KeptInv'
  BY <1>1, SameCurrent, KeptFrame DEF InboundInv, Outside
<1>4. DoomedInv'
  BY <1>1 DEF DoomedInv, InboundInv
<1>5. CountersInv'
  BY <1>1, FaultType DEF InboundInv, CountersInv, Outside
<1>6. QED
  BY <1>2, <1>3, <1>4, <1>5 DEF InboundInv

\* A record with the text of the PDU at work keeps it.
LEMMA KeptByRecord ==
    ASSUME NEW p, NEW id \in Ids, NEW status \in {"PARTIAL", "RECEIVED", "UNSUPPORTED"},
           journal'[id].status = status, journal'[id].text = <<p.text>>,
           status = "PARTIAL" =>
               /\ journal'[id].sender = p.sender /\ journal'[id].ref = p.ref
               /\ journal'[id].total = p.total /\ journal'[id].part = p.part
    PROVE  Kept(p)'
<1>1. Texts(journal'[id]) = {p.text}
  BY OneText
<1>2. Held(journal'[id], p)
  BY <1>1 DEF Held
<1>3. QED
  BY <1>2 DEF Kept, Held, Texts

-----------------------------------------------------------------------------
(* Steps that leave the journal alone. *)

\* The service is idle or begins with an entry, and nothing is stored.
LEMMA QuietStep ==
    ASSUME InboundInv, UNCHANGED <<journal, next_id, discarded, handed_over>>,
           \A p \in Pdus : arrivals[p] > 0 => arrivals'[p] > 0,
           pc' \in {"idle", "scan", "persist"}, doomed' \in {doomed, <<>>},
           BatchInv', CountersInv'
    PROVE  InboundInv'
<1>1. JournalInv' /\ Gentle(NoRecord)
  BY JournalFrame DEF InboundInv
<1>2. OneRecordPerMessage'
  BY OnceFrame DEF InboundInv
<1>3. KeptInv'
  BY <1>1, GentleKeeps, KeptFrame DEF InboundInv
<1>4. DoomedInv'
  <2>1. doomed \in Seq(Ids) /\ <<>> \in Seq(Ids)
    BY DEF DoomedInv, InboundInv
  <2>2. pc' # "drop"
    OBVIOUS
  <2>3. QED
    BY <2>1, <2>2 DEF DoomedInv
<1>5. QED
  BY <1>1, <1>2, <1>3, <1>4 DEF InboundInv

\* The response to AT+CMGL has a message if the storage has one.
LEMMA FirstMessage ==
    ASSUME NEW used \in SUBSET Indexes, used # {}
    PROVE  {i \in used : Cardinality({k \in used : k < i}) < Batch} # {}
<1>1. used \in SUBSET Nat /\ Batch \in Nat /\ 0 < Batch
  BY InboundAssumption
<1>2. PICK i \in used : \A k \in used : i <= k
  BY <1>1, LeastExists
<1>3. {k \in used : k < i} = {}
  <2>1. \A k \in used : k \in Nat /\ i \in Nat /\ i <= k
    BY <1>1, <1>2
  <2>2. \A k \in used : ~(k < i)
    BY <2>1
  <2>3. QED
    BY <2>2
<1>4. Cardinality({k \in used : k < i}) = 0
  BY <1>3, FS_EmptySet
<1>5. QED
  BY <1>1, <1>4

\* One more delivery of p.
Delivered(p) ==
    /\ arrivals' \in [Pdus -> 0 .. MaxArrivals]
    /\ arrivals'[p] > 0
    /\ \A q \in Pdus : arrivals[q] > 0 => arrivals'[q] > 0

\* It is counted.
LEMMA OneMoreArrival ==
    ASSUME NEW p \in Pdus, arrivals \in [Pdus -> 0 .. MaxArrivals],
           arrivals[p] < MaxArrivals, arrivals' = [arrivals EXCEPT ![p] = @ + 1]
    PROVE  Delivered(p)
<1>1. MaxArrivals \in Nat
  BY InboundAssumption
<1>2. QED
  BY <1>1 DEF Delivered

\* poll_inbox_if_due and the response to AT+CMGL.
LEMMA ScanStep ==
    ASSUME InboundInv, poll_inbox \/ scan_stored_messages
    PROVE  InboundInv'
<1>1. CASE poll_inbox
  <2>1. BatchInv'
    BY <1>1, BatchFrame DEF poll_inbox, Goto, InboundInv, bounds
  <2>2. CountersInv'
    BY <1>1 DEF poll_inbox, Goto, InboundInv, CountersInv, bounds
  <2>3. QED
    BY <1>1, <2>1, <2>2, QuietStep DEF poll_inbox, Goto, flash, bounds, history
<1>2. CASE scan_stored_messages
  <2> DEFINE used  == {i \in Indexes : inbox[i] # NoPdu}
             first == {i \in used : Cardinality({k \in used : k < i}) < Batch}
  <2>1. \/ /\ pc' = "persist" /\ scanning' = TRUE /\ used # {}
           /\ batch' = {[index |-> i, pdu |-> inbox[i]] : i \in first}
           /\ UNCHANGED <<processed, doomed>>
        \/ pc' = "idle" /\ UNCHANGED <<batch, scanning, processed, doomed>>
    BY <1>2 DEF scan_stored_messages, Goto
  <2>2. faults' = faults \/ Fault
    BY <1>2 DEF scan_stored_messages
  <2>3. /\ UNCHANGED <<journal, next_id, discarded, handed_over>>
        /\ UNCHANGED <<replay_watermark, inbox, arrivals, deletes, crashes>>
    BY <1>2 DEF scan_stored_messages, flash, history
  <2>4. CountersInv'
    BY <2>1, <2>2, <2>3, FaultType DEF InboundInv, CountersInv
  <2>5. BatchInv'
    <3>1. CASE pc' = "idle" /\ batch' = batch
      BY <2>3, <3>1, BatchFrame DEF InboundInv
    <3>2. CASE /\ pc' = "persist" /\ used # {}
               /\ batch' = {[index |-> i, pdu |-> inbox[i]] : i \in first}
      <4>1. \A i \in first : i \in Indexes /\ inbox[i] \in Pdus /\ arrivals[inbox[i]] > 0
        BY DEF InboundInv, BatchInv
      <4>2. first # {}
        BY <3>2, FirstMessage
      <4> HIDE DEF first
      <4>3. \A i \in first : /\ [index |-> i, pdu |-> inbox[i]] \in Entries
                             /\ [index |-> i, pdu |-> inbox[i]].pdu = inbox[i]
        BY <4>1 DEF Entries
      <4>4. batch' \in SUBSET Entries /\ batch' # {}
        BY <3>2, <4>2, <4>3
      <4>5. \A e \in batch' : arrivals[e.pdu] > 0
        BY <3>2, <4>1, <4>3
      <4>6. QED
        BY <2>3, <3>2, <4>4, <4>5 DEF InboundInv, BatchInv, Working
    <3>3. QED
      BY <2>1, <3>1, <3>2
  <2>6. QED
    BY <2>1, <2>3, <2>4, <2>5, QuietStep
<1>3. QED
  BY <1>1, <1>2

\* +CMTI and +CDSI, and +CMT.
LEMMA IndicationStep ==
    ASSUME InboundInv,
           (\E i \in Indexes : read_modem_index(i)) \/ (\E p \in Pdus : handle_direct_urc(p))
    PROVE  InboundInv'
<1>1. ASSUME NEW i \in Indexes, read_modem_index(i) PROVE InboundInv'
  <2>1. /\ pc' = "persist" /\ batch' = {[index |-> i, pdu |-> inbox[i]]}
        /\ UNCHANGED <<scanning, processed, doomed, journal, next_id, discarded, handed_over>>
        /\ UNCHANGED <<replay_watermark, inbox, arrivals, deletes, faults, crashes>>
    BY <1>1 DEF read_modem_index, flash, bounds, history
  <2>2. inbox[i] \in Pdus /\ arrivals[inbox[i]] > 0
    BY <1>1 DEF read_modem_index, InboundInv, BatchInv
  <2>3. batch' \in SUBSET Entries /\ batch' # {} /\ \A e \in batch' : arrivals[e.pdu] > 0
    BY <2>1, <2>2 DEF Entries
  <2>4. BatchInv'
    BY <2>1, <2>3 DEF InboundInv, BatchInv, Working
  <2>5. CountersInv'
    BY <2>1 DEF InboundInv, CountersInv
  <2>6. QED
    BY <2>1, <2>4, <2>5, QuietStep
<1>2. ASSUME NEW p \in Pdus, handle_direct_urc(p) PROVE InboundInv'
  <2>1. /\ pc' = "persist" /\ batch' = {[index |-> 0, pdu |-> p]}
        /\ UNCHANGED <<scanning, processed, doomed, journal, next_id, discarded, handed_over>>
        /\ UNCHANGED <<replay_watermark, inbox, deletes, faults, crashes>>
    BY <1>2 DEF handle_direct_urc, flash, history
  <2>2. Delivered(p)
    BY <1>2, OneMoreArrival DEF handle_direct_urc, InboundInv, BatchInv
  <2>3. batch' \in SUBSET Entries /\ batch' # {} /\ \A e \in batch' : e.pdu = p
    BY <2>1 DEF Entries
  <2>4. BatchInv'
    BY <2>1, <2>2, <2>3 DEF InboundInv, BatchInv, Working, Delivered
  <2>5. CountersInv'
    BY <2>1 DEF InboundInv, CountersInv
  <2>6. QED
    BY <2>1, <2>2, <2>4, <2>5, QuietStep DEF Delivered
<1>3. QED
  BY <1>1, <1>2

-----------------------------------------------------------------------------
(* The service at work. *)

\* A PDU that is no use, or a failure before anything is stored.
LEMMA RefusedStep ==
    ASSUME InboundInv, process_undecodable \/ process_fails
    PROVE  InboundInv'
<1>1. /\ Return(FALSE) /\ Outside /\ (faults' = faults \/ Fault)
      /\ UNCHANGED <<journal, next_id, discarded>>
  BY DEF process_undecodable, process_fails, Outside, flash, bounds, history
<1>2. JournalInv' /\ Gentle(NoRecord)
  BY <1>1, JournalFrame DEF InboundInv, Outside
<1>3. OneRecordPerMessage'
  BY <1>1, OnceFrame DEF InboundInv
<1>4. QED
  BY <1>1, <1>2, <1>3, GentleKeeps, AfterReturn

\* A save of a record that is new to the journal, and what follows it.
LEMMA SaveStep ==
    ASSUME InboundInv, pc \in Working, NEW r, ValidRecord(r), r.status # "EMPTY",
           r.text = <<Current.text>>,
           r.status = "PARTIAL" =>
               /\ r.sender = Current.sender /\ r.ref = Current.ref
               /\ r.total = Current.total /\ r.part = Current.part,
           r.status = "RECEIVED" => find_inbound_identity(r.sender, r.ts, r.text) = {},
           NEW ok \in BOOLEAN, save_new(r, ok), NEW label \in {"assemble", "cmgd"},
           IF ok THEN Goto(label) ELSE Return(FALSE),
           Outside
    PROVE  InboundInv'
<1>0. JournalInv /\ arrivals' = arrivals
  BY DEF InboundInv, Outside
<1>1. /\ Gentle(r)
      /\ \A id \in Ids : \/ journal'[id] = journal[id]
                         \/ Pruned(id)
                         \/ id = next_id /\ journal'[id] = r
      /\ ok => next_id \in Ids /\ journal'[next_id] = r
  BY <1>0, SaveFacts
<1>2. JournalInv'
  BY <1>0, SaveJournal
<1>3. OneRecordPerMessage'
  <2>1. next_id \in Ids
    BY <1>0 DEF JournalInv
  <2>2. \A id \in Ids : \/ journal'[id] = journal[id]
                        \/ journal'[id] = NoRecord
                        \/ id = next_id /\ journal'[id] = r
    BY <1>1 DEF Pruned
  <2>3. QED
    BY <2>1, <2>2, OnceStays DEF InboundInv
<1>4. faults' = faults \/ Fault
  BY DEF save_new
<1>5. CASE ok
  <2>1. r.status \in {"PARTIAL", "RECEIVED", "UNSUPPORTED"}
    BY RecordStatus
  <2>2. ASSUME NEW p \in Pdus, p = Current PROVE Kept(p)'
    BY <1>1, <1>5, <2>1, <2>2, KeptByRecord
  <2>3. QED
    BY <1>1, <1>2, <1>3, <1>4, <1>5, <2>2, GentleKeeps, AfterGoto
<1>6. CASE ~ok
  BY <1>1, <1>2, <1>3, <1>4, <1>6, GentleKeeps, AfterReturn
<1>7. QED
  BY <1>5, <1>6

\* The record is there already: nothing is stored.
LEMMA KnownStep ==
    ASSUME InboundInv, pc \in Working, NEW label \in {"assemble", "cmgd"}, Goto(label),
           UNCHANGED <<flash, faults, discarded>>, Outside,
           \A p \in Pdus : p = Current => Kept(p)
    PROVE  InboundInv'
<1>1. JournalInv' /\ Gentle(NoRecord)
  BY JournalFrame DEF InboundInv, Outside, flash
<1>2. OneRecordPerMessage'
  BY OnceFrame DEF InboundInv, flash
<1>3. \A p \in Pdus : p = Current => Kept(p)'
  BY <1>1, KeptStays
<1>4. QED
  BY <1>1, <1>2, <1>3, GentleKeeps, AfterGoto

\* A record of the journal that has the text of the PDU at work keeps it.
LEMMA KeptByStored ==
    ASSUME NEW p, NEW id \in Ids, journal[id].status # "EMPTY", journal[id].text = <<p.text>>,
           journal[id].status = "PARTIAL" =>
               /\ journal[id].sender = p.sender /\ journal[id].ref = p.ref
               /\ journal[id].total = p.total /\ journal[id].part = p.part
    PROVE  Kept(p)
<1>1. Texts(journal[id]) = {p.text}
  BY OneText
<1>2. QED
  BY <1>1 DEF Kept, Held

\* A binary message goes to quarantine.
LEMMA QuarantineStep ==
    ASSUME InboundInv, persist_unsupported_deliver
    PROVE  InboundInv'
<1>1. pc \in Working /\ Outside /\ "cmgd" \in {"assemble", "cmgd"}
  BY DEF persist_unsupported_deliver, Working, Outside
<1>2. Current \in Pdus
  BY <1>1, CurrentIn DEF InboundInv
<1>3. CASE /\ find_inbound_raw_pdu(Current) # {} /\ Goto("cmgd")
           /\ UNCHANGED <<flash, faults, discarded>>
  <2>1. PICK id \in Ids : /\ journal[id].status = "UNSUPPORTED"
                          /\ journal[id].text = <<Current.text>>
    BY <1>3 DEF find_inbound_raw_pdu, Stored
  <2>2. \A p \in Pdus : p = Current => Kept(p)
    BY <2>1, KeptByStored
  <2>3. QED
    BY <1>1, <1>3, <2>2, KnownStep
<1>4. ASSUME NEW ok \in BOOLEAN,
             save_new(InRecord("UNSUPPORTED", Current, <<Current.text>>), ok),
             IF ok THEN Goto("cmgd") ELSE Return(FALSE)
      PROVE  InboundInv'
  <2> DEFINE r == InRecord("UNSUPPORTED", Current, <<Current.text>>)
  <2>1. ValidRecord(r)
    BY <1>2 DEF ValidRecord
  <2>2. r.status = "UNSUPPORTED" /\ r.text = <<Current.text>>
    BY RecordFields
  <2> HIDE DEF r
  <2>3. save_new(r, ok)
    BY <1>4 DEF r
  <2>4. QED
    BY <1>1, <1>4, <2>1, <2>2, <2>3, SaveStep
<1>5. QED
  BY <1>3, <1>4 DEF persist_unsupported_deliver

\* A message of one part.
LEMMA SingleStep ==
    ASSUME InboundInv, persist_single
    PROVE  InboundInv'
<1> DEFINE r == InRecord("RECEIVED", Current, <<Current.text>>)
<1>1. pc \in Working /\ Outside /\ "cmgd" \in {"assemble", "cmgd"}
  BY DEF persist_single, Working, Outside
<1>2. Current \in Pdus /\ PduType(Current) /\ Current.total = 1
  BY <1>1, CurrentIn DEF InboundInv, persist_single
<1>3. CASE /\ find_inbound_identity(Current.sender, Current.ts, <<Current.text>>) # {}
           /\ Goto("cmgd") /\ UNCHANGED <<flash, faults, discarded>>
  <2>1. PICK id \in Ids : /\ journal[id].status = "RECEIVED"
                          /\ journal[id].text = <<Current.text>>
    BY <1>3 DEF find_inbound_identity, Stored
  <2>2. \A p \in Pdus : p = Current => Kept(p)
    BY <2>1, KeptByStored
  <2>3. QED
    BY <1>1, <1>3, <2>2, KnownStep
<1>4. ASSUME NEW ok \in BOOLEAN, save_new(r, ok),
             find_inbound_identity(Current.sender, Current.ts, <<Current.text>>) = {},
             IF ok THEN Goto("cmgd") ELSE Return(FALSE)
      PROVE  InboundInv'
  <2>1. /\ r.status = "RECEIVED" /\ r.text = <<Current.text>> /\ r.sender = Current.sender
        /\ r.ts = Current.ts
    BY RecordFields
  <2>2. Whole(r.text)
    <3>1. Len(<<Current.text>>) = 1 /\ <<Current.text>>[1] = Current.text /\ Current.part = 1
      BY <1>2 DEF PduType
    <3>2. \A i \in 1 .. Current.total :
             /\ SameReference(Current, Current) /\ Current.part = i
             /\ Current.text = <<Current.text>>[i]
      BY <1>2, <3>1 DEF SameReference
    <3>3. Whole(<<Current.text>>)
      BY <1>2, <3>1, <3>2 DEF Whole
    <3>4. QED
      BY <2>1, <3>3
  <2>3. ValidRecord(r)
    BY <2>1, <2>2 DEF ValidRecord
  <2> HIDE DEF r
  <2>4. find_inbound_identity(r.sender, r.ts, r.text) = {}
    BY <1>4, <2>1
  <2>5. QED
    BY <1>1, <1>4, <2>1, <2>3, <2>4, SaveStep
<1>5. QED
  <2>1. \/ /\ find_inbound_identity(Current.sender, Current.ts, <<Current.text>>) # {}
           /\ Goto("cmgd") /\ UNCHANGED <<flash, faults, discarded>>
        \/ /\ find_inbound_identity(Current.sender, Current.ts, <<Current.text>>) = {}
           /\ \E ok \in BOOLEAN :
                 save_new(r, ok) /\ IF ok THEN Goto("cmgd") ELSE Return(FALSE)
    BY DEF persist_single
  <2>2. QED
    BY <1>3, <1>4, <2>1

\* A part overwrites the same part of another message with that reference.
LEMMA OverwriteFacts ==
    ASSUME InboundInv, pc = "persist", UNCHANGED <<next_id, discarded>>, Outside,
           NEW id \in find_partial(Current, Current.part),
           journal[id].text # <<Current.text>>,
           journal' = [journal EXCEPT ![id] = InRecord("PARTIAL", Current, <<Current.text>>)]
    PROVE  /\ JournalInv' /\ OneRecordPerMessage'
           /\ KeepsAll
           /\ \A p \in Pdus : p = Current => Kept(p)'
<1> DEFINE r == InRecord("PARTIAL", Current, <<Current.text>>)
<1>0. JournalInv /\ BatchInv /\ pc \in Working /\ arrivals' = arrivals
  BY DEF InboundInv, Working, Outside
<1>1. Current \in Pdus /\ arrivals[Current] > 0
  BY <1>0, CurrentIn
<1>2. /\ id \in Ids /\ journal[id].status = "PARTIAL" /\ journal[id] # NoRecord
      /\ journal[id].sender = Current.sender /\ journal[id].ref = Current.ref
      /\ journal[id].total = Current.total /\ journal[id].part = Current.part
  BY DEF find_partial, Stored, NoRecord
<1>3. /\ r.status = "PARTIAL" /\ r.text = <<Current.text>>
      /\ r.sender = Current.sender /\ r.ref = Current.ref
      /\ r.total = Current.total /\ r.part = Current.part
  <2>1. PICK c, x : c = Current /\ x = r
    OBVIOUS
  <2>2. x = InRecord("PARTIAL", c, <<c.text>>)
    BY <2>1
  <2>3. /\ x.status = "PARTIAL" /\ x.text = <<c.text>> /\ x.sender = c.sender
        /\ x.ref = c.ref /\ x.total = c.total /\ x.part = c.part
    BY <2>2 DEF InRecord
  <2>4. QED
    BY <2>1, <2>3
<1>4. ValidRecord(r)
  BY <1>1 DEF ValidRecord
<1> HIDE DEF r
<1>5. /\ journal' = [k \in Ids |-> journal'[k]] /\ journal'[id] = r
      /\ \A k \in Ids : k # id => journal'[k] = journal[k]
  BY <1>0, <1>2 DEF JournalInv, r
<1>6. JournalInv'
  <2>1. \A k \in Ids : ValidRecord(journal'[k])
    BY <1>0, <1>4, <1>5 DEF JournalInv
  <2>2. \A k \in Ids : ValidRecord(journal[k])'
    BY <2>1 DEF ValidRecord, Whole, SameReference, InRecord
  <2>3. \A k \in Ids : k >= next_id' => journal'[k] = NoRecord
    BY <1>0, <1>2, <1>5 DEF JournalInv
  <2>4. QED
    BY <1>0, <1>5, <2>2, <2>3 DEF JournalInv
<1>7. OneRecordPerMessage'
  BY <1>2, <1>3, <1>5, OnceStays DEF InboundInv
<1>8. ASSUME NEW p \in Pdus, Kept(p) PROVE Kept(p)'
  <2>1. CASE p.text \in discarded
    BY <2>1 DEF Kept
  <2>2. ASSUME NEW k \in Ids, Held(journal[k], p) PROVE Kept(p)'
    <3>1. CASE k # id
      <4>1. Held(journal[k], p)'
        BY <1>5, <2>2, <3>1 DEF Held, Texts
      <4>2. QED
        BY <4>1 DEF Kept
    <3>2. CASE k = id
      <4>1. PICK q \in Pdus : journal[id] = InRecord("PARTIAL", q, <<q.text>>)
        BY <1>0, <1>2, PartialRecord DEF JournalInv
      <4>2. journal[id].text = <<q.text>>
        BY <4>1, RecordFields
      <4>3. p.text = q.text /\ SameReference(p, Current) /\ Current.part = p.part
        <5>1. Texts(journal[id]) = {q.text}
          BY <4>2, OneText
        <5>2. p.text = q.text
          BY <2>2, <3>2, <5>1 DEF Held
        <5>3. SameReference(p, Current) /\ Current.part = p.part
          BY <1>2, <2>2, <3>2 DEF Held, SameReference
        <5>4. QED
          BY <5>2, <5>3
      <4>4. p.text # Current.text
        BY <4>2, <4>3
      <4>5. Current.net # p.net
        BY <1>1, <4>3, <4>4, InboundAssumption
      <4>6. Replaced(p)
        BY <1>1, <4>3, <4>5 DEF Replaced
      <4>7. QED
        BY <1>0, <4>6 DEF Replaced, Kept
    <3>3. QED
      BY <3>1, <3>2
  <2>3. CASE Replaced(p)
    BY <1>0, <2>3 DEF Replaced, Kept
  <2>4. QED
    BY <1>8, <2>1, <2>2, <2>3 DEF Kept
<1>9. ASSUME NEW p \in Pdus, p = Current PROVE Kept(p)'
  BY <1>2, <1>3, <1>5, <1>9, KeptByRecord
<1>10. QED
  BY <1>6, <1>7, <1>8, <1>9 DEF KeepsAll

\* A part is known, overwrites another or is new.
LEMMA PartStep ==
    ASSUME InboundInv, persist_part
    PROVE  InboundInv'
<1> DEFINE found == find_partial(Current, Current.part)
           id    == Oldest(found)
           r     == InRecord("PARTIAL", Current, <<Current.text>>)
           over  == [journal EXCEPT ![id] = r]
<1>1. pc = "persist" /\ pc \in Working /\ Outside
  BY DEF persist_part, Working, Outside
<1>2. Current \in Pdus /\ "assemble" \in {"assemble", "cmgd"}
  BY <1>1, CurrentIn DEF InboundInv
<1>3. found # {} => id \in found
  <2>1. found \in SUBSET Ids
    BY DEF find_partial, Stored
  <2>2. QED
    BY <2>1, OldestIn
<1>4. \A k \in found : /\ k \in Ids /\ journal[k].status = "PARTIAL"
                       /\ journal[k].sender = Current.sender /\ journal[k].ref = Current.ref
                       /\ journal[k].total = Current.total /\ journal[k].part = Current.part
  BY DEF find_partial, Stored
<1>5. \/ /\ found # {} /\ journal[id].text = <<Current.text>>
         /\ Goto("assemble") /\ UNCHANGED <<flash, faults, discarded>>
      \/ /\ found # {} /\ journal[id].text # <<Current.text>>
         /\ \/ journal' = over /\ Goto("assemble") /\ UNCHANGED faults
            \/ journal' \in {journal, over} /\ Return(FALSE) /\ Fault
         /\ UNCHANGED <<next_id, discarded>>
      \/ /\ found = {}
         /\ \E ok \in BOOLEAN :
               save_new(r, ok) /\ IF ok THEN Goto("assemble") ELSE Return(FALSE)
  BY DEF persist_part
<1> HIDE DEF found, id, over
<1>6. CASE /\ found # {} /\ journal[id].text = <<Current.text>>
           /\ Goto("assemble") /\ UNCHANGED <<flash, faults, discarded>>
  <2>1. \A p \in Pdus : p = Current => Kept(p)
    BY <1>3, <1>4, <1>6, KeptByStored
  <2>2. QED
    BY <1>1, <1>2, <1>6, <2>1, KnownStep
<1>7. CASE /\ found # {} /\ journal[id].text # <<Current.text>>
           /\ \/ journal' = over /\ Goto("assemble") /\ UNCHANGED faults
              \/ journal' \in {journal, over} /\ Return(FALSE) /\ Fault
           /\ UNCHANGED <<next_id, discarded>>
  <2>1. CASE journal' = over
    <3>1. /\ JournalInv' /\ OneRecordPerMessage' /\ KeepsAll
          /\ \A p \in Pdus : p = Current => Kept(p)'
      BY <1>1, <1>3, <1>7, <2>1, OverwriteFacts DEF found, over
    <3>2. CASE Goto("assemble") /\ UNCHANGED faults
      BY <1>1, <1>2, <3>1, <3>2, AfterGoto
    <3>3. CASE Return(FALSE) /\ Fault
      BY <1>1, <3>1, <3>3, AfterReturn
    <3>4. QED
      BY <1>7, <3>2, <3>3
  <2>2. CASE journal' = journal /\ Return(FALSE) /\ Fault
    <3>1. JournalInv' /\ Gentle(NoRecord)
      BY <1>1, <1>7, <2>2, JournalFrame DEF InboundInv, Outside
    <3>2. OneRecordPerMessage'
      BY <2>2, OnceFrame DEF InboundInv
    <3>3. QED
      BY <1>1, <2>2, <3>1, <3>2, GentleKeeps, AfterReturn
  <2>3. QED
    BY <1>7, <2>1, <2>2
<1>8. ASSUME NEW ok \in BOOLEAN, save_new(r, ok),
             IF ok THEN Goto("assemble") ELSE Return(FALSE)
      PROVE  InboundInv'
  <2>1. /\ r.status = "PARTIAL" /\ r.text = <<Current.text>>
        /\ r.sender = Current.sender /\ r.ref = Current.ref
        /\ r.total = Current.total /\ r.part = Current.part
    <3>1. PICK c : c = Current
      OBVIOUS
    <3>2. PICK x : x = r
      OBVIOUS
    <3>3. x = InRecord("PARTIAL", c, <<c.text>>)
      BY <3>1, <3>2
    <3>4. /\ x.status = "PARTIAL" /\ x.text = <<c.text>> /\ x.sender = c.sender
          /\ x.ref = c.ref /\ x.total = c.total /\ x.part = c.part
      BY <3>3 DEF InRecord
    <3>5. QED
      BY <3>1, <3>2, <3>4
  <2>2. ValidRecord(r)
    BY <1>2 DEF ValidRecord
  <2> HIDE DEF r
  <2>3. QED
    BY <1>1, <1>2, <1>8, <2>1, <2>2, SaveStep
<1>9. QED
  BY <1>5, <1>6, <1>7, <1>8

-----------------------------------------------------------------------------
(* A message is put together. *)

\* The text that the parts of the PDU at work make up.
Assembled == [i \in 1 .. Current.total |-> journal[Oldest(find_partial(Current, i))].text[1]]

\* The parts, in order, are those of one reference.
LEMMA PartsFacts ==
    ASSUME InboundInv, pc = "assemble",
           \A i \in 1 .. Current.total : find_partial(Current, i) # {}
    PROVE  /\ partial_ids(Current) \in Seq(Ids) /\ partial_ids(Current) # <<>>
           /\ DOMAIN partial_ids(Current) = 1 .. Current.total
           /\ \A i \in 1 .. Current.total :
                 LET r == journal[partial_ids(Current)[i]] IN
                 /\ partial_ids(Current)[i] \in Ids
                 /\ r.status = "PARTIAL" /\ Texts(r) = {Assembled[i]}
           /\ Whole(Assembled)
<1> DEFINE n == Current.total
           d == partial_ids(Current)
<1>1. Current \in Pdus /\ n \in Nat \ {0} /\ JournalInv
  BY CurrentIn DEF InboundInv, Working, PduType
<1>2. d = [i \in 1 .. n |-> Oldest(find_partial(Current, i))]
  BY DEF partial_ids
<1>3. ASSUME NEW i \in 1 .. n
      PROVE  /\ d[i] \in Ids /\ journal[d[i]].status = "PARTIAL"
             /\ \E q \in Pdus : /\ SameReference(Current, q) /\ q.part = i
                                /\ journal[d[i]].text = <<q.text>>
  <2>1. find_partial(Current, i) \in SUBSET Ids
    BY DEF find_partial, Stored
  <2>2. Oldest(find_partial(Current, i)) \in find_partial(Current, i)
    BY <2>1, OldestIn
  <2>3. d[i] \in find_partial(Current, i)
    BY <1>2, <2>2
  <2> HIDE DEF d, n
  <2>4. /\ d[i] \in Ids /\ journal[d[i]].status = "PARTIAL"
        /\ journal[d[i]].sender = Current.sender /\ journal[d[i]].ref = Current.ref
        /\ journal[d[i]].total = Current.total /\ journal[d[i]].part = i
    BY <2>3 DEF find_partial, Stored
  <2>5. PICK q \in Pdus : journal[d[i]] = InRecord("PARTIAL", q, <<q.text>>)
    BY <1>1, <2>4, PartialRecord DEF JournalInv
  <2>6. /\ journal[d[i]].sender = q.sender /\ journal[d[i]].ref = q.ref
        /\ journal[d[i]].total = q.total /\ journal[d[i]].part = q.part
        /\ journal[d[i]].text = <<q.text>>
    <3>1. PICK x : x = journal[d[i]]
      OBVIOUS
    <3>2. x = InRecord("PARTIAL", q, <<q.text>>)
      BY <2>5, <3>1
    <3>3. /\ x.sender = q.sender /\ x.ref = q.ref /\ x.total = q.total /\ x.part = q.part
          /\ x.text = <<q.text>>
      BY <3>2 DEF InRecord
    <3>4. QED
      BY <3>1, <3>3
  <2>7. QED
    BY <2>4, <2>6 DEF SameReference
<1>4. Assembled = [i \in 1 .. n |-> journal[d[i]].text[1]]
  BY <1>2 DEF Assembled
<1> HIDE DEF n, d
<1>5. ASSUME NEW i \in 1 .. n
      PROVE  /\ Texts(journal[d[i]]) = {Assembled[i]}
             /\ \E q \in Pdus : SameReference(Current, q) /\ q.part = i /\ q.text = Assembled[i]
  <2>1. PICK q \in Pdus : /\ SameReference(Current, q) /\ q.part = i
                          /\ journal[d[i]].text = <<q.text>>
    BY <1>3
  <2>2. Assembled[i] = q.text
    BY <1>4, <2>1
  <2>3. QED
    BY <2>1, <2>2, OneText
<1>6. d \in Seq(Ids) /\ d # <<>> /\ DOMAIN d = 1 .. n
  <2>1. DOMAIN d = 1 .. n /\ \A i \in 1 .. n : d[i] \in Ids
    BY <1>2, <1>3
  <2>2. d = [i \in 1 .. n |-> d[i]]
    BY <1>2
  <2>3. QED
    BY <1>1, <2>1, <2>2
<1>7. Len(Assembled) = n
  BY <1>1, <1>4
<1>8. Whole(Assembled)
  BY <1>1, <1>5, <1>7 DEF Whole, n
<1>9. QED
  BY <1>3, <1>5, <1>6, <1>8 DEF n, d

\* Then the parts are deleted one by one.
LEMMA AfterDrop ==
    ASSUME InboundInv, pc = "assemble", pc' = "drop", UNCHANGED <<batch, scanning, processed>>,
           KeepsAll, JournalInv', OneRecordPerMessage', Outside, faults' = faults \/ Fault,
           doomed' \in Seq(Ids), doomed' # <<>>,
           \A k \in DOMAIN doomed' : Spare(journal[doomed[k]])'
    PROVE  InboundInv'
<1>1. BatchInv'
  BY BatchFrame DEF InboundInv, Outside, Working
<1>2. \A p \in Pdus : p = Current' => Kept(p)'
  BY SameCurrent DEF InboundInv, KeptInv, KeepsAll
<1>3. KeptInv'
  BY <1>2, KeptFrame DEF InboundInv, Outside
<1>4. DoomedInv'
  BY DEF DoomedInv
<1>5. CountersInv'
  BY FaultType DEF InboundInv, CountersInv, Outside
<1>6. QED
  BY <1>1, <1>3, <1>4, <1>5 DEF InboundInv

\* A part whose text is in a message is spare.
LEMMA SpareByMessage ==
    ASSUME NEW d \in Ids, NEW k \in Ids, NEW t,
           journal'[d] = NoRecord \/ (journal'[d].status = "PARTIAL" /\ Texts(journal'[d]) = {t}),
           journal'[k].status = "RECEIVED", t \in Texts(journal'[k])
    PROVE  Spare(journal[d])'
<1>1. \A u \in Texts(journal'[d]) : journal'[d].status = "PARTIAL" => u = t
  <2>1. CASE journal'[d] = NoRecord
    <3>1. journal'[d].status = "EMPTY"
      BY <2>1 DEF NoRecord
    <3>2. QED
      BY <3>1
  <2>2. CASE Texts(journal'[d]) = {t}
    BY <2>2
  <2>3. QED
    BY <2>1, <2>2
<1>2. QED
  BY <1>1 DEF Spare, Texts

\* assemble_if_complete: not complete, known already, or new.
LEMMA AssembleStep ==
    ASSUME InboundInv, assemble_if_complete
    PROVE  InboundInv'
<1> DEFINE parts == 1 .. Current.total
           d     == partial_ids(Current)
           ts    == journal[Oldest(find_partial(Current, 1))].ts
           whole == [InRecord("RECEIVED", Current, Assembled) EXCEPT !.ts = ts]
           known == find_inbound_identity(Current.sender, whole.ts, Assembled)
           Drop  == /\ pc' = "drop" /\ doomed' = d
                    /\ UNCHANGED <<batch, scanning, processed>>
<1>1. pc = "assemble" /\ pc \in Working /\ Outside /\ "cmgd" \in {"assemble", "cmgd"}
  BY DEF assemble_if_complete, Working, Outside
<1>2. \/ /\ Goto("cmgd") /\ UNCHANGED <<flash, faults, discarded>>
      \/ /\ \A i \in parts : find_partial(Current, i) # {}
         /\ \/ known # {} /\ Drop /\ UNCHANGED <<flash, faults, discarded>>
            \/ /\ known = {}
               /\ \E ok \in BOOLEAN : save_new(whole, ok) /\ IF ok THEN Drop ELSE Return(FALSE)
  BY DEF assemble_if_complete, Assembled
<1>3. CASE Goto("cmgd") /\ UNCHANGED <<flash, faults, discarded>>
  <2>1. \A p \in Pdus : p = Current => Kept(p)
    BY <1>1 DEF InboundInv, KeptInv
  <2>2. QED
    BY <1>1, <1>3, <2>1, KnownStep
<1>4. whole.status = "RECEIVED" /\ whole.text = Assembled /\ whole.sender = Current.sender
  BY DEF InRecord
<1> HIDE DEF whole
<1>5. CASE \A i \in parts : find_partial(Current, i) # {}
  <2>1. /\ d \in Seq(Ids) /\ d # <<>> /\ DOMAIN d = parts
        /\ \A i \in parts : /\ d[i] \in Ids /\ journal[d[i]].status = "PARTIAL"
                            /\ Texts(journal[d[i]]) = {Assembled[i]}
        /\ Whole(Assembled)
    BY <1>1, <1>5, PartsFacts
  <2>2. \A i \in parts : d[i] \in Ids
    BY <2>1
  <2>3. DOMAIN Assembled = parts
    BY DEF Assembled
  <2> HIDE DEF d, parts
  <2>4. ASSUME NEW k \in Ids, journal'[k].status = "RECEIVED", journal'[k].text = Assembled,
               \A i \in parts : \/ journal'[d[i]] = journal[d[i]]
                                \/ journal'[d[i]] = NoRecord,
               doomed' = d
        PROVE  \A i \in DOMAIN doomed' : Spare(journal[doomed[i]])'
    <3>1. ASSUME NEW i \in DOMAIN doomed' PROVE Spare(journal[doomed[i]])'
      <4>1. i \in parts /\ d[i] \in Ids /\ doomed'[i] = d[i]
        BY <2>1, <2>2, <2>4, <3>1
      <4>2. Assembled[i] \in Texts(journal'[k])
        BY <2>3, <2>4, <4>1 DEF Texts
      <4>3. \/ journal'[d[i]] = NoRecord
            \/ journal'[d[i]].status = "PARTIAL" /\ Texts(journal'[d[i]]) = {Assembled[i]}
        BY <2>1, <2>4, <4>1
      <4>4. ASSUME NEW e \in Ids, e = d[i] PROVE Spare(journal[e])'
        BY <2>4, <4>2, <4>3, <4>4, SpareByMessage
      <4>5. QED
        BY <4>1, <4>4
    <3>2. QED
      BY <3>1
  <2>5. CASE known # {} /\ Drop /\ UNCHANGED <<flash, faults, discarded>>
    <3>1. JournalInv' /\ Gentle(NoRecord)
      BY <1>1, <2>5, JournalFrame DEF InboundInv, Outside, flash
    <3>2. OneRecordPerMessage'
      BY <2>5, OnceFrame DEF InboundInv, flash
    <3>3. PICK k \in Ids : journal[k].status = "RECEIVED" /\ journal[k].text = Assembled
      BY <2>5 DEF find_inbound_identity, Stored
    <3>4. \A i \in DOMAIN doomed' : Spare(journal[doomed[i]])'
      BY <2>4, <2>5, <3>3 DEF flash
    <3>5. QED
      BY <1>1, <2>1, <2>5, <3>1, <3>2, <3>4, GentleKeeps, AfterDrop
  <2>6. ASSUME NEW ok \in BOOLEAN, known = {}, save_new(whole, ok),
               IF ok THEN Drop ELSE Return(FALSE)
        PROVE  InboundInv'
    <3>1. JournalInv /\ arrivals' = arrivals /\ next_id \in Ids
      BY <1>1 DEF InboundInv, Outside, JournalInv
    <3>2. /\ Gentle(whole)
          /\ \A id \in Ids : \/ journal'[id] = journal[id]
                             \/ Pruned(id)
                             \/ id = next_id /\ journal'[id] = whole
          /\ ok => journal'[next_id] = whole
      BY <2>6, <3>1, SaveFacts
    <3>3. ValidRecord(whole)
      BY <1>4, <2>1 DEF ValidRecord
    <3>4. JournalInv'
      BY <2>6, <3>1, <3>3, SaveJournal
    <3>5. \A id \in Ids : \/ journal'[id] = journal[id]
                          \/ journal'[id] = NoRecord
                          \/ id = next_id /\ journal'[id] = whole
      BY <3>2 DEF Pruned
    <3>6. OneRecordPerMessage'
      BY <1>4, <2>6, <3>1, <3>5, OnceStays DEF InboundInv
    <3>7. faults' = faults \/ Fault
      BY <2>6 DEF save_new
    <3>8. CASE ok
      <4>1. ASSUME NEW i \in parts
            PROVE  journal'[d[i]] = journal[d[i]] \/ journal'[d[i]] = NoRecord
        <5>1. journal[next_id] = NoRecord
          BY <3>1, RecordsAssumption DEF JournalInv, Ids
        <5>2. d[i] # next_id
          BY <2>1, <5>1 DEF NoRecord
        <5>3. QED
          BY <2>2, <3>5, <5>2
      <4>2. \A i \in DOMAIN doomed' : Spare(journal[doomed[i]])'
        BY <1>4, <2>4, <2>6, <3>1, <3>2, <3>8, <4>1
      <4>3. QED
        BY <1>1, <2>1, <2>6, <3>2, <3>4, <3>6, <3>7, <3>8, <4>2, GentleKeeps, AfterDrop
    <3>9. CASE ~ok
      BY <1>1, <2>6, <3>2, <3>4, <3>6, <3>7, <3>9, GentleKeeps, AfterReturn
    <3>10. QED
      BY <3>8, <3>9
  <2>7. QED
    BY <1>2, <1>3, <2>5, <2>6
<1>6. QED
  BY <1>2, <1>3, <1>5

-----------------------------------------------------------------------------
(* What is deleted. *)

\* A part whose text is in the message, or was discarded, is deleted.
LEMMA DeletePartStep ==
    ASSUME InboundInv, delete_partial
    PROVE  InboundInv'
<1> DEFINE id     == Head(doomed)
           erased == [journal EXCEPT ![id] = NoRecord]
<1>1. /\ pc = "drop" /\ pc \in Working /\ Outside /\ UNCHANGED <<next_id, discarded>>
      /\ UNCHANGED <<batch, scanning, processed>>
      /\ journal' \in {journal, erased} /\ (faults' = faults \/ Fault)
      /\ doomed' = Tail(doomed)
      /\ pc' = IF Tail(doomed) # <<>> THEN "drop" ELSE "cmgd"
  BY DEF delete_partial, Working, Outside
<1>2. /\ doomed \in Seq(Ids) /\ doomed # <<>>
      /\ \A k \in DOMAIN doomed : Spare(journal[doomed[k]])
  BY <1>1 DEF InboundInv, DoomedInv
<1>3. id \in Ids /\ Spare(journal[id]) /\ Tail(doomed) \in Seq(Ids)
  <2>1. 1 \in DOMAIN doomed /\ id = doomed[1]
    BY <1>2
  <2>2. QED
    BY <1>2, <2>1
<1>4. \A k \in DOMAIN Tail(doomed) : \E j \in DOMAIN doomed : Tail(doomed)[k] = doomed[j]
  <2>1. \A k \in DOMAIN Tail(doomed) : k + 1 \in DOMAIN doomed /\ Tail(doomed)[k] = doomed[k + 1]
    BY <1>2
  <2>2. QED
    BY <2>1
<1> HIDE DEF id
<1>5. JournalInv /\ journal = [k \in Ids |-> journal[k]]
  BY DEF InboundInv, JournalInv
<1>6. /\ journal' = [k \in Ids |-> journal'[k]]
      /\ \A k \in Ids : \/ journal'[k] = journal[k]
                        \/ k = id /\ journal'[k] = NoRecord
  BY <1>1, <1>3, <1>5
<1> HIDE DEF erased
<1>7. JournalInv'
  <2>1. \A k \in Ids : ValidRecord(journal'[k])
    BY <1>5, <1>6 DEF JournalInv, ValidRecord
  <2>2. \A k \in Ids : ValidRecord(journal[k])'
    BY <2>1 DEF ValidRecord, Whole, SameReference, InRecord
  <2>3. QED
    BY <1>1, <1>5, <1>6, <2>2 DEF JournalInv
<1>8. OneRecordPerMessage'
  <2>1. NoRecord.status # "RECEIVED"
    BY DEF NoRecord
  <2>2. QED
    BY <1>3, <1>6, <2>1, OnceStays DEF InboundInv
<1>9. \A k \in Ids : journal[k].status = "RECEIVED" => journal'[k] = journal[k]
  BY <1>3, <1>6 DEF Spare, NoRecord
<1>10. KeepsAll
  <2> SUFFICES ASSUME NEW p \in Pdus, Kept(p) PROVE Kept(p)'
    BY DEF KeepsAll
  <2>1. CASE p.text \in discarded
    BY <1>1, <2>1 DEF Kept
  <2>2. ASSUME NEW k \in Ids, Held(journal[k], p) PROVE Kept(p)'
    <3>1. CASE journal'[k] = journal[k]
      <4>1. Held(journal[k], p)'
        BY <2>2, <3>1 DEF Held, Texts
      <4>2. QED
        BY <4>1 DEF Kept
    <3>2. CASE k = id
      <4>1. p.text \in Texts(journal[id]) /\ journal[id] # NoRecord
        BY <2>2, <3>2 DEF Held, NoRecord
      <4>2. CASE p.text \in discarded
        BY <1>1, <4>2 DEF Kept
      <4>3. ASSUME NEW j \in Ids, journal[j].status = "RECEIVED", p.text \in Texts(journal[j])
            PROVE  Kept(p)'
        <5>1. Held(journal[j], p)'
          BY <1>9, <4>3 DEF Held, Texts
        <5>2. QED
          BY <5>1 DEF Kept
      <4>4. QED
        BY <1>3, <4>1, <4>2, <4>3 DEF Spare
    <3>3. QED
      BY <1>6, <3>1, <3>2
  <2>3. CASE Replaced(p)
    BY <1>1, <2>3 DEF Replaced, Kept, Outside
  <2>4. QED
    BY <2>1, <2>2, <2>3 DEF Kept
<1>11. ASSUME NEW k \in DOMAIN doomed' PROVE Spare(journal[doomed[k]])'
  <2>1. PICK j \in DOMAIN doomed : doomed'[k] = doomed[j]
    BY <1>1, <1>4
  <2>2. PICK e \in Ids : e = doomed[j] /\ Spare(journal[e])
    BY <1>2
  <2>3. Spare(journal[e])'
    <3>1. CASE journal'[e] = NoRecord
      BY <3>1 DEF Spare
    <3>2. CASE journal'[e] = journal[e]
      <4>1. CASE journal[e] = NoRecord
        BY <3>2, <4>1 DEF Spare
      <4>2. CASE journal[e] # NoRecord
        <5>1. journal[e].status = "PARTIAL" /\ discarded \subseteq discarded'
          BY <1>1, <2>2, <4>2 DEF Spare
        <5>2. ASSUME NEW x \in Texts(journal[e]), x \notin discarded
              PROVE  \E i \in Ids : journal'[i].status = "RECEIVED" /\ x \in Texts(journal'[i])
          BY <1>9, <2>2, <4>2, <5>2 DEF Spare
        <5>3. QED
          <6>1. Texts(journal'[e]) = Texts(journal[e])
            BY <3>2
          <6>2. \A x \in Texts(journal'[e]) :
                   \/ x \in discarded'
                   \/ \E i \in Ids : journal'[i].status = "RECEIVED" /\ x \in Texts(journal'[i])
            BY <5>1, <5>2, <6>1
          <6>3. (\A x \in Texts(journal[e]) :
                   \/ x \in discarded
                   \/ \E i \in Ids : journal[i].status = "RECEIVED" /\ x \in Texts(journal[i]))'
            BY <6>2 DEF Texts
          <6>4. QED
            BY <3>2, <5>1, <6>3 DEF Spare
      <4>3. QED
        BY <4>1, <4>2
    <3>3. QED
      BY <1>6, <3>1, <3>2
  <2>4. QED
    BY <2>1, <2>2, <2>3
<1>12. \A p \in Pdus : p = Current' => Kept(p)'
  BY <1>1, <1>10, SameCurrent DEF InboundInv, KeptInv, KeepsAll
<1>13. KeptInv'
  BY <1>1, <1>10, <1>12, KeptFrame DEF InboundInv, Outside
<1>14. DoomedInv'
  BY <1>1, <1>3, <1>11 DEF DoomedInv
<1>15. BatchInv'
  BY <1>1, BatchFrame DEF InboundInv, Outside, Working
<1>16. CountersInv'
  BY <1>1, FaultType DEF InboundInv, CountersInv, Outside
<1>17. QED
  BY <1>7, <1>8, <1>13, <1>14, <1>15, <1>16 DEF InboundInv

\* AT+CMGD: the modem's copy may be gone, of a PDU that is kept.
LEMMA DeleteCopyStep ==
    ASSUME InboundInv, delete_modem_index
    PROVE  InboundInv'
<1> DEFINE i == Entry.index
<1>1. /\ pc = "cmgd" /\ pc \in Working /\ Return(TRUE) /\ (faults' = faults \/ Fault)
      /\ UNCHANGED <<journal, next_id, discarded, arrivals, replay_watermark, deletes, crashes>>
      /\ inbox' = inbox \/ (i # 0 /\ inbox' = [inbox EXCEPT ![i] = NoPdu])
      /\ handed_over' = handed_over \/ handed_over' = handed_over \cup {Current}
  BY DEF delete_modem_index, Working, flash
<1>2. i \in Indexes \cup {0} /\ Current \in Pdus
  BY <1>1, CurrentIn DEF InboundInv
<1> HIDE DEF i
<1>3. pc' \in {"persist", "scan", "idle"} /\ doomed' = <<>>
      /\ batch' \subseteq batch /\ (pc' = "persist" => batch' # {})
      /\ scanning' \in BOOLEAN /\ processed' \in BOOLEAN
  BY <1>1 DEF Return, InboundInv, CountersInv
<1>4. inbox' \in [Indexes -> Pdus \cup {NoPdu}]
      /\ \A k \in Indexes : inbox'[k] # NoPdu => inbox'[k] = inbox[k]
  BY <1>1, <1>2 DEF InboundInv, BatchInv
<1>5. BatchInv'
  BY <1>1, <1>3, <1>4 DEF InboundInv, BatchInv, Working
<1>6. JournalInv' /\ Gentle(NoRecord)
  BY <1>1, JournalFrame DEF InboundInv
<1>7. KeptInv'
  <2>1. KeepsAll
    BY <1>6, GentleKeeps
  <2>2. Kept(Current)
    BY <1>1, <1>2 DEF InboundInv, KeptInv
  <2>3. \A p \in handed_over' : p \in Pdus /\ Kept(p)
    BY <1>1, <1>2, <2>2 DEF InboundInv, KeptInv
  <2>4. QED
    BY <1>3, <2>1, <2>3 DEF KeptInv, KeepsAll
<1>8. DoomedInv'
  BY <1>3 DEF DoomedInv
<1>9. CountersInv'
  BY <1>1, <1>3, FaultType DEF InboundInv, CountersInv
<1>10. OneRecordPerMessage'
  BY <1>1, OnceFrame DEF InboundInv
<1>11. QED
  BY <1>5, <1>6, <1>7, <1>8, <1>9, <1>10 DEF InboundInv

-----------------------------------------------------------------------------
(* The other tasks, the network and resets. *)

\* The API deletes a record, also one the service is about to delete.
LEMMA ApiDeleteStep ==
    ASSUME InboundInv, NEW id \in Ids, sms_service_delete(id)
    PROVE  InboundInv'
<1>1. /\ deletes < MaxDeletes /\ deletes' = deletes + 1
      /\ journal' = [journal EXCEPT ![id] = NoRecord]
      /\ discarded' = discarded \cup Texts(journal[id])
      /\ UNCHANGED <<next_id, replay_watermark, inbox, arrivals, faults, crashes, handed_over>>
      /\ UNCHANGED <<pc, batch, scanning, processed, doomed>>
  BY DEF sms_service_delete, service
<1>2. JournalInv /\ journal = [k \in Ids |-> journal[k]]
  BY DEF InboundInv, JournalInv
<1>3. /\ journal' = [k \in Ids |-> journal'[k]]
      /\ \A k \in Ids : \/ journal'[k] = journal[k]
                        \/ k = id /\ journal'[k] = NoRecord
  BY <1>1, <1>2
<1>4. Gentle(NoRecord)
  BY <1>1, <1>3 DEF Gentle, HistoryGrows, Removed
<1>5. JournalInv'
  <2>1. \A k \in Ids : ValidRecord(journal'[k])
    BY <1>2, <1>3 DEF JournalInv, ValidRecord
  <2>2. \A k \in Ids : ValidRecord(journal[k])'
    BY <2>1 DEF ValidRecord, Whole, SameReference, InRecord
  <2>3. QED
    BY <1>1, <1>2, <1>3, <2>2 DEF JournalInv
<1>6. OneRecordPerMessage'
  <2>1. NoRecord.status # "RECEIVED"
    BY DEF NoRecord
  <2>2. QED
    BY <1>3, <2>1, OnceStays DEF InboundInv
<1>7. BatchInv'
  BY <1>1, BatchFrame DEF InboundInv, BatchInv
<1>8. KeptInv'
  <2>1. KeepsAll
    BY <1>4, GentleKeeps
  <2>2. pc \in {"assemble", "drop", "cmgd"} => \A p \in Pdus : p = Current' => Kept(p)'
    BY <1>1, <2>1, SameCurrent DEF InboundInv, KeptInv, KeepsAll
  <2>3. QED
    BY <1>1, <2>1, <2>2, KeptFrame DEF InboundInv
<1>9. DoomedInv'
  BY <1>1, <1>2, <1>3, <1>4, DoomedFrame DEF InboundInv
<1>10. CountersInv'
  BY <1>1, InboundAssumption DEF InboundInv, CountersInv
<1>11. QED
  BY <1>5, <1>6, <1>7, <1>8, <1>9, <1>10 DEF InboundInv

\* Steps that leave the journal and the service's place alone.
LEMMA ElsewhereStep ==
    ASSUME InboundInv, UNCHANGED <<journal, next_id, discarded, handed_over>>,
           UNCHANGED <<pc, batch, doomed>>,
           \A p \in Pdus : arrivals[p] > 0 => arrivals'[p] > 0,
           BatchInv', CountersInv'
    PROVE  InboundInv'
<1>1. JournalInv' /\ Gentle(NoRecord)
  BY JournalFrame DEF InboundInv
<1>2. OneRecordPerMessage'
  BY OnceFrame DEF InboundInv
<1>3. KeptInv'
  <2>1. KeepsAll
    BY <1>1, GentleKeeps
  <2>2. pc \in {"assemble", "drop", "cmgd"} => \A p \in Pdus : p = Current' => Kept(p)'
    BY <2>1, SameCurrent DEF InboundInv, KeptInv, KeepsAll
  <2>3. QED
    BY <2>1, <2>2, KeptFrame DEF InboundInv
<1>4. DoomedInv'
  BY <1>1, DoomedFrame DEF InboundInv
<1>5. QED
  BY <1>1, <1>2, <1>3, <1>4 DEF InboundInv

\* MQTT moves the watermark.
LEMMA WatermarkStep ==
    ASSUME InboundInv, NEW id \in Ids, set_replay_watermark(id)
    PROVE  InboundInv'
<1>1. /\ replay_watermark' = id
      /\ UNCHANGED <<journal, next_id, inbox, pc, batch, scanning, processed, doomed>>
      /\ UNCHANGED <<arrivals, deletes, faults, crashes, handed_over, discarded>>
  BY DEF set_replay_watermark, flash, service, bounds, history
<1>2. replay_watermark' \in 0 .. IdMax
  BY <1>1, RecordsAssumption DEF Ids
<1>3. BatchInv' /\ CountersInv'
  BY <1>1, <1>2 DEF InboundInv, BatchInv, CountersInv
<1>4. QED
  BY <1>1, <1>3, ElsewhereStep

\* The network delivers a PDU to the modem's storage.
LEMMA ArriveStep ==
    ASSUME InboundInv, NEW p \in Pdus, NEW i \in Indexes, Arrive(p, i)
    PROVE  InboundInv'
<1>1. /\ inbox' = [inbox EXCEPT ![i] = p]
      /\ UNCHANGED <<journal, next_id, replay_watermark, pc, batch, scanning, processed, doomed>>
      /\ UNCHANGED <<deletes, faults, crashes, handed_over, discarded>>
  BY DEF Arrive, flash, service, history
<1>2. Delivered(p)
  BY OneMoreArrival DEF Arrive, InboundInv, BatchInv
<1>3. inbox' \in [Indexes -> Pdus \cup {NoPdu}]
      /\ \A k \in Indexes : inbox'[k] = p \/ inbox'[k] = inbox[k]
  BY <1>1 DEF InboundInv, BatchInv
<1>4. \A k \in Indexes : inbox'[k] # NoPdu => arrivals'[inbox'[k]] > 0
  BY <1>2, <1>3 DEF InboundInv, BatchInv, Delivered
<1>5. \A e \in batch : arrivals'[e.pdu] > 0
  <2>1. \A e \in batch : e.pdu \in Pdus /\ arrivals[e.pdu] > 0
    BY DEF InboundInv, BatchInv, Entries
  <2>2. QED
    BY <1>2, <2>1 DEF Delivered
<1>6. BatchInv'
  BY <1>1, <1>2, <1>3, <1>4, <1>5 DEF InboundInv, BatchInv, Delivered
<1>7. CountersInv'
  BY <1>1 DEF InboundInv, CountersInv
<1>8. QED
  BY <1>1, <1>2, <1>6, <1>7, ElsewhereStep DEF Delivered

\* A reset: the service starts over.
LEMMA CrashStep ==
    ASSUME InboundInv, Crash
    PROVE  InboundInv'
<1>1. /\ crashes < MaxCrashes /\ crashes' = crashes + 1 /\ replay_watermark' = 0
      /\ pc' = "idle" /\ batch' = {} /\ scanning' = FALSE /\ processed' = FALSE
      /\ doomed' = <<>>
      /\ UNCHANGED <<journal, next_id, inbox, arrivals, deletes, faults, handed_over, discarded>>
  BY DEF Crash, flash, history
<1>2. BatchInv'
  BY <1>1 DEF InboundInv, BatchInv, Working
<1>3. CountersInv'
  <2>1. replay_watermark' \in 0 .. IdMax
    BY <1>1, RecordsAssumption
  <2>2. crashes' \in 0 .. MaxCrashes
    BY <1>1, InboundAssumption DEF InboundInv, CountersInv
  <2>3. scanning' \in BOOLEAN /\ processed' \in BOOLEAN
    BY <1>1
  <2>4. QED
    BY <1>1, <2>1, <2>2, <2>3 DEF InboundInv, CountersInv
<1>4. QED
  BY <1>1, <1>2, <1>3, QuietStep

-----------------------------------------------------------------------------
(* The invariant. *)

\* The invariant holds of an empty journal.
LEMMA InitInboundInv ==
    ASSUME Init
    PROVE  InboundInv
<1>1. JournalInv
  BY RecordsAssumption DEF Init, JournalInv, ValidRecord, Ids
<1>2. OneRecordPerMessage
  BY DEF Init, OneRecordPerMessage, Received, Stored, NoRecord
<1>3. BatchInv
  <2>1. arrivals \in [Pdus -> 0 .. MaxArrivals]
    BY InboundAssumption DEF Init
  <2>2. QED
    BY <2>1 DEF Init, BatchInv, Working
<1>4. KeptInv
  BY DEF Init, KeptInv
<1>5. DoomedInv
  BY DEF Init, DoomedInv
<1>6. CountersInv
  <2>1. /\ deletes \in 0 .. MaxDeletes /\ faults \in 0 .. MaxFaults
        /\ crashes \in 0 .. MaxCrashes
    BY InboundAssumption DEF Init
  <2>2. replay_watermark \in 0 .. IdMax
    BY RecordsAssumption DEF Init
  <2>3. QED
    BY <2>1, <2>2 DEF Init, CountersInv
<1>7. QED
  BY <1>1, <1>2, <1>3, <1>4, <1>5, <1>6 DEF InboundInv

\* Every step of the service, of the other tasks, of the network and every reset
\* keeps it.
LEMMA StepInboundInv ==
    ASSUME InboundInv, [Next]_vars
    PROVE  InboundInv'
<1>1. CASE UNCHANGED vars
  <2>1. /\ UNCHANGED <<journal, next_id, discarded, handed_over, pc, batch, doomed, arrivals>>
        /\ UNCHANGED <<inbox, replay_watermark, scanning, processed, deletes, faults, crashes>>
    BY <1>1 DEF vars, flash, service, bounds, history
  <2>2. BatchInv' /\ CountersInv'
    BY <2>1 DEF InboundInv, BatchInv, CountersInv
  <2>3. QED
    BY <2>1, <2>2, ElsewhereStep
<1>2. CASE ServiceStep
  <2>1. CASE scan_stored_messages
    BY <2>1, ScanStep
  <2>2. CASE process_undecodable \/ process_fails
    BY <2>2, RefusedStep
  <2>3. CASE persist_unsupported_deliver
    BY <2>3, QuarantineStep
  <2>4. CASE persist_single
    BY <2>4, SingleStep
  <2>5. CASE persist_part
    BY <2>5, PartStep
  <2>6. CASE assemble_if_complete
    BY <2>6, AssembleStep
  <2>7. CASE delete_partial
    BY <2>7, DeletePartStep
  <2>8. CASE delete_modem_index
    BY <2>8, DeleteCopyStep
  <2>9. QED
    BY <1>2, <2>1, <2>2, <2>3, <2>4, <2>5, <2>6, <2>7, <2>8 DEF ServiceStep
<1>3. CASE poll_inbox
  BY <1>3, ScanStep
<1>4. CASE (\E i \in Indexes : read_modem_index(i)) \/ (\E p \in Pdus : handle_direct_urc(p))
  BY <1>4, IndicationStep
<1>5. ASSUME NEW id \in Ids, sms_service_delete(id) PROVE InboundInv'
  BY <1>5, ApiDeleteStep
<1>6. ASSUME NEW id \in Ids, set_replay_watermark(id) PROVE InboundInv'
  BY <1>6, WatermarkStep
<1>7. ASSUME NEW p \in Pdus, NEW i \in Indexes, Arrive(p, i) PROVE InboundInv'
  BY <1>7, ArriveStep
<1>8. CASE Crash
  BY <1>8, CrashStep
<1>9. QED
  BY <1>1, <1>2, <1>3, <1>4, <1>5, <1>6, <1>7, <1>8 DEF Next

\* The inductive invariant holds in every reachable state.
LEMMA InboundInvariant == Spec => []InboundInv
<1>1. Init => InboundInv
  BY InitInboundInv
<1>2. InboundInv /\ [Next]_vars => InboundInv'
  BY StepInboundInv
<1>3. QED
  BY <1>1, <1>2, PTL DEF Spec

-----------------------------------------------------------------------------
(* The results. *)

\* Type correctness of the inbound service.
THEOREM TypeCorrect == Spec => []TypeOK
<1>1. InboundInv => TypeOK
  <2> SUFFICES ASSUME InboundInv PROVE TypeOK
    OBVIOUS
  <2>1. \A id \in Ids : journal[id] # NoRecord =>
           journal[id].status \in {"PARTIAL", "RECEIVED", "UNSUPPORTED"}
    BY RecordStatus DEF InboundInv, JournalInv
  <2>2. handed_over \subseteq Pdus
    BY DEF InboundInv, KeptInv
  <2>3. QED
    BY <2>1, <2>2
       DEF InboundInv, JournalInv, BatchInv, DoomedInv, CountersInv, TypeOK, Working, Entries
<1>2. QED
  BY <1>1, InboundInvariant, PTL

\* No message is lost on its way from the modem to the journal: AT+CMGD is sent
\* only for what is in the journal, and parts are deleted only when the message
\* that holds their text is there, through resets, failing writes and pruning.
THEOREM NothingForgotten == Spec => []HandedOverKept
<1>1. InboundInv => HandedOverKept
  <2> SUFFICES ASSUME InboundInv, NEW p \in handed_over
               PROVE  \/ p.text \in discarded
                      \/ \E id \in Stored(journal) : p.text \in Texts(journal[id])
                      \/ Replaced(p)
    BY DEF HandedOverKept, Replaced
  <2>1. Kept(p)
    BY DEF InboundInv, KeptInv
  <2>2. ASSUME NEW id \in Ids, Held(journal[id], p)
        PROVE  id \in Stored(journal) /\ p.text \in Texts(journal[id])
    BY <2>2 DEF Held, Stored
  <2>3. QED
    BY <2>1, <2>2 DEF Kept
<1>2. QED
  BY <1>1, InboundInvariant, PTL

\* What the journal shows as received is complete and there once, whatever is read
\* twice, and wherever a reset interrupts the assembly.
THEOREM ReceivedIntact == Spec => []MessagesIntact
<1>1. InboundInv => MessagesIntact
  <2> SUFFICES ASSUME InboundInv PROVE MessagesIntact
    OBVIOUS
  <2>1. ASSUME NEW id \in Received PROVE Whole(journal[id].text)
    <3>1. id \in Ids /\ journal[id].status = "RECEIVED" /\ ValidRecord(journal[id])
      BY DEF Received, Stored, InboundInv, JournalInv
    <3>2. QED
      BY <3>1, ReceivedRecord
  <2>2. WholeMessages
    BY <2>1 DEF WholeMessages, Whole
  <2>3. QED
    BY <2>2 DEF InboundInv, MessagesIntact
<1>2. QED
  BY <1>1, InboundInvariant, PTL

\* What a save leaves of a message.
LEMMA SavePrunes ==
    ASSUME InboundInv, NEW r, r.status # "EMPTY", NEW ok \in BOOLEAN, save_new(r, ok), Outside,
           NEW id \in Ids, journal[id].status = "RECEIVED", journal'[id] = NoRecord
    PROVE  id <= replay_watermark
<1>1. \/ journal'[id] = journal[id]
      \/ Pruned(id)
      \/ id = next_id /\ journal'[id] = r
  BY SaveFacts DEF InboundInv, Outside
<1>2. journal[id] # NoRecord /\ r # NoRecord
  BY DEF NoRecord
<1>3. Pruned(id)
  BY <1>1, <1>2
<1>4. QED
  BY <1>3 DEF Pruned, record_prunable

\* What the steps of the service leave of a message.
LEMMA ServicePrunes ==
    ASSUME InboundInv, ServiceStep,
           NEW id \in Ids, journal[id].status = "RECEIVED", journal'[id] = NoRecord
    PROVE  id <= replay_watermark
<1>1. journal'[id] # journal[id]
  <2>1. NoRecord.status = "EMPTY"
    BY DEF NoRecord
  <2>2. QED
    BY <2>1
<1>2. CASE \/ scan_stored_messages \/ process_undecodable \/ process_fails
           \/ delete_modem_index
  BY <1>1, <1>2 DEF scan_stored_messages, process_undecodable, process_fails,
                    delete_modem_index, flash
<1>3. CASE persist_unsupported_deliver
  <2>1. PICK ok \in BOOLEAN :
           save_new(InRecord("UNSUPPORTED", Current, <<Current.text>>), ok)
    BY <1>1, <1>3 DEF persist_unsupported_deliver, flash
  <2>2. Outside
    BY <1>3 DEF persist_unsupported_deliver, Outside
  <2>3. InRecord("UNSUPPORTED", Current, <<Current.text>>).status # "EMPTY"
    BY DEF InRecord
  <2>4. QED
    BY <2>1, <2>2, <2>3, SavePrunes
<1>4. CASE persist_single
  <2>1. PICK ok \in BOOLEAN :
           save_new(InRecord("RECEIVED", Current, <<Current.text>>), ok)
    BY <1>1, <1>4 DEF persist_single, flash
  <2>2. Outside
    BY <1>4 DEF persist_single, Outside
  <2>3. InRecord("RECEIVED", Current, <<Current.text>>).status # "EMPTY"
    BY DEF InRecord
  <2>4. QED
    BY <2>1, <2>2, <2>3, SavePrunes
<1>5. CASE persist_part
  <2> DEFINE r == InRecord("PARTIAL", Current, <<Current.text>>)
             k == Oldest(find_partial(Current, Current.part))
  <2>1. r.status # "EMPTY" /\ r # NoRecord
    BY DEF InRecord, NoRecord
  <2>2. \/ journal' = journal
        \/ journal' = [journal EXCEPT ![k] = r]
        \/ \E ok \in BOOLEAN : save_new(r, ok)
    BY <1>5 DEF persist_part, flash
  <2>3. Outside
    BY <1>5 DEF persist_part, Outside
  <2> HIDE DEF r, k
  <2>4. CASE journal' = [journal EXCEPT ![k] = r]
    BY <1>1, <2>1, <2>4 DEF InboundInv, JournalInv
  <2>5. ASSUME NEW ok \in BOOLEAN, save_new(r, ok) PROVE id <= replay_watermark
    BY <2>1, <2>3, <2>5, SavePrunes
  <2>6. QED
    BY <1>1, <2>2, <2>4, <2>5
<1>6. CASE assemble_if_complete
  <2> DEFINE whole == [InRecord("RECEIVED", Current, Assembled) EXCEPT
                          !.ts = journal[Oldest(find_partial(Current, 1))].ts]
  <2>1. \/ UNCHANGED flash
        \/ \E ok \in BOOLEAN : save_new(whole, ok)
    BY <1>6 DEF assemble_if_complete, Assembled
  <2>2. Outside
    BY <1>6 DEF assemble_if_complete, Outside
  <2>3. whole.status # "EMPTY"
    BY DEF InRecord
  <2> HIDE DEF whole
  <2>4. ASSUME NEW ok \in BOOLEAN, save_new(whole, ok) PROVE id <= replay_watermark
    BY <2>2, <2>3, <2>4, SavePrunes
  <2>5. QED
    BY <1>1, <2>1, <2>4 DEF flash
<1>7. CASE delete_partial
  <2>1. pc = "drop" /\ journal' \in {journal, [journal EXCEPT ![Head(doomed)] = NoRecord]}
    BY <1>7 DEF delete_partial
  <2>2. Spare(journal[Head(doomed)])
    <3>1. /\ doomed \in Seq(Ids) /\ doomed # <<>>
          /\ \A k \in DOMAIN doomed : Spare(journal[doomed[k]])
      BY <2>1 DEF InboundInv, DoomedInv
    <3>2. 1 \in DOMAIN doomed /\ Head(doomed) = doomed[1]
      BY <3>1
    <3>3. QED
      BY <3>1, <3>2
  <2>3. Head(doomed) # id
    BY <2>2 DEF Spare, NoRecord
  <2>4. journal'[id] = journal[id]
    BY <2>1, <2>3 DEF InboundInv, JournalInv
  <2>5. QED
    BY <1>1, <2>4
<1>8. QED
  BY <1>2, <1>3, <1>4, <1>5, <1>6, <1>7 DEF ServiceStep

\* Backpressure: the service removes a message only to make room, and then only one
\* that MQTT has published (sms_store_save with replay protection).
THEOREM PublishedOnly == Spec => OnlyPublishedPruned
<1>1. InboundInv /\ [Next]_vars =>
         [\A id \in Received :
             journal'[id] = NoRecord /\ deletes' = deletes => id <= replay_watermark]_vars
  <2> SUFFICES ASSUME InboundInv, Next, NEW id \in Received,
                      journal'[id] = NoRecord, deletes' = deletes
               PROVE  id <= replay_watermark
    OBVIOUS
  <2>1. id \in Ids /\ journal[id].status = "RECEIVED" /\ journal'[id] # journal[id]
    BY DEF Received, Stored, NoRecord
  <2>2. CASE ServiceStep
    BY <2>1, <2>2, ServicePrunes
  <2>3. ASSUME NEW k \in Ids, sms_service_delete(k) PROVE FALSE
    BY <2>3 DEF sms_service_delete, InboundInv, CountersInv
  <2>4. CASE \/ poll_inbox \/ Crash
             \/ \E i \in Indexes : read_modem_index(i)
             \/ \E p \in Pdus : handle_direct_urc(p)
             \/ \E k \in Ids : set_replay_watermark(k)
             \/ \E p \in Pdus, i \in Indexes : Arrive(p, i)
    BY <2>1, <2>4 DEF poll_inbox, Crash, read_modem_index, handle_direct_urc,
                      set_replay_watermark, Arrive, flash
  <2>5. QED
    BY <2>2, <2>3, <2>4 DEF Next
<1>2. QED
  BY <1>1, InboundInvariant, PTL DEF Spec, OnlyPublishedPruned

-----------------------------------------------------------------------------
(* What is announced. *)

\* A text of m was discarded.
Gone(m) == \E i \in DOMAIN m.text : m.text[i] \in discarded

\* find_inbound_identity finds m.
Known(m) == \E id \in Ids : journal[id].status = "RECEIVED" /\ Message(journal[id]) = m

\* A message is not empty.
TextsInv == \A id \in Ids : journal[id].status = "RECEIVED" => 1 \in DOMAIN journal[id].text

\* What was announced, and what will be once its parts are deleted, can be found
\* again or was discarded; and only what was discarded is announced again.
EventsInv ==
    /\ received_events \in [DOMAIN received_events -> Nat \ {0}]
    /\ \A m \in DOMAIN received_events :
          /\ Known(m) \/ Gone(m)
          /\ received_events[m] > 1 => Gone(m)
    /\ created # NoRecord =>
          /\ pc = "drop"
          /\ Known(Message(created)) \/ Gone(Message(created))
          /\ Message(created) \in DOMAIN received_events => Gone(Message(created))

\* Messages stay, or are removed and count as discarded.
Lasting ==
    /\ discarded \subseteq discarded'
    /\ \A id \in Ids : journal[id].status = "RECEIVED" =>
                          journal'[id] = journal[id] \/ Removed(id)

\* An event for r is one more copy of its message.
LEMMA NotifyAdds ==
    ASSUME received_events \in [DOMAIN received_events -> Nat \ {0}], NEW r, Notify(r)
    PROVE  /\ received_events' \in [DOMAIN received_events' -> Nat \ {0}]
           /\ DOMAIN received_events' = DOMAIN received_events \cup {Message(r)}
           /\ \A m \in DOMAIN received_events : m # Message(r) => received_events'[m] = received_events[m]
           /\ Message(r) \notin DOMAIN received_events => received_events'[Message(r)] = 1
<1> DEFINE m == Message(r)
           B == received_events
<1>1. received_events' = [e \in DOMAIN B \cup {m} |-> IF e = m THEN Events(e) + 1 ELSE B[e]]
  BY DEF Notify
<1> HIDE DEF m
<1>2. DOMAIN received_events' = DOMAIN B \cup {m}
  BY <1>1
<1>3. \A e \in DOMAIN B : e # m => received_events'[e] = B[e]
  BY <1>1
<1>4. received_events'[m] = Events(m) + 1
  BY <1>1
<1>5. m \notin DOMAIN B => received_events'[m] = 1
  BY <1>4 DEF Events
<1>6. \A e \in DOMAIN B : B[e] \in Nat \ {0}
  OBVIOUS
<1>7. received_events'[m] \in Nat \ {0}
  BY <1>4, <1>6 DEF Events
<1>8. \A e \in DOMAIN received_events' : received_events'[e] \in Nat \ {0}
  BY <1>2, <1>3, <1>6, <1>7
<1>9. received_events' \in [DOMAIN received_events' -> Nat \ {0}]
  BY <1>1, <1>8
<1>10. QED
  BY <1>2, <1>3, <1>5, <1>9 DEF m

\* A message that can be found can be found afterwards, or was discarded.
LEMMA KnownLasts ==
    ASSUME TextsInv, Lasting, NEW m
    PROVE  /\ Gone(m) => Gone(m)'
           /\ Known(m) \/ Gone(m) => Known(m)' \/ Gone(m)'
<1>1. Gone(m) => Gone(m)'
  BY DEF Gone, Lasting
<1>2. ASSUME NEW id \in Ids, journal[id].status = "RECEIVED", Message(journal[id]) = m
      PROVE  Known(m)' \/ Gone(m)'
  <2>1. CASE journal'[id] = journal[id]
    BY <1>2, <2>1 DEF Known, Message
  <2>2. CASE Removed(id)
    <3>1. m.text = journal[id].text
      BY <1>2 DEF Message
    <3>2. 1 \in DOMAIN m.text /\ m.text[1] \in discarded'
      BY <1>2, <2>2, <3>1 DEF TextsInv, Removed, Texts
    <3>3. QED
      BY <3>2 DEF Gone
  <2>3. QED
    BY <1>2, <2>1, <2>2 DEF Lasting
<1>3. QED
  BY <1>1, <1>2 DEF Known

\* Without an event, and with nothing new to announce.
LEMMA QuietEvents ==
    ASSUME TextsInv, EventsInv, Lasting, UNCHANGED received_events,
           created' = NoRecord \/ (created' = created /\ (pc = "drop" => pc' = "drop"))
    PROVE  EventsInv'
<1>1. ASSUME NEW m \in DOMAIN received_events'
      PROVE  (Known(m)' \/ Gone(m)') /\ (received_events'[m] > 1 => Gone(m)')
  BY <1>1, KnownLasts DEF EventsInv
<1>2. ASSUME created' # NoRecord
      PROVE  /\ pc' = "drop"
             /\ Known(Message(created))' \/ Gone(Message(created))'
             /\ Message(created') \in DOMAIN received_events' => Gone(Message(created))'
  <2>1. created' = created /\ pc = "drop" /\ pc' = "drop"
    BY <1>2 DEF EventsInv
  <2>2. PICK m : m = Message(created)
    OBVIOUS
  <2>3. /\ Known(m)' \/ Gone(m)'
        /\ m \in DOMAIN received_events => Gone(m)'
    BY <1>2, <2>1, <2>2, KnownLasts DEF EventsInv
  <2>4. m = Message(created')
    BY <2>1, <2>2
  <2>5. (Known(Message(created))' <=> Known(m)') /\ (Gone(Message(created))' <=> Gone(m)')
    BY <2>4 DEF Known, Gone
  <2>6. QED
    BY <2>1, <2>3, <2>4, <2>5
<1>3. received_events' \in [DOMAIN received_events' -> Nat \ {0}]
  BY DEF EventsInv
<1>4. QED
  BY <1>1, <1>2, <1>3 DEF EventsInv

\* Saving a record, or not, keeps what was announced.
LEMMA GentleLasts ==
    ASSUME TextsInv, NEW r, Gentle(r), r.status = "RECEIVED" => 1 \in DOMAIN r.text
    PROVE  Lasting /\ TextsInv'
<1>1. Lasting
  BY DEF Gentle, HistoryGrows, Lasting, NoRecord
<1>2. ASSUME NEW id \in Ids, journal'[id].status = "RECEIVED" PROVE 1 \in DOMAIN journal'[id].text
  <2>1. journal'[id] # NoRecord
    BY <1>2 DEF NoRecord
  <2>2. journal'[id] = journal[id] \/ journal'[id] = r
    BY <2>1 DEF Gentle, Removed
  <2>3. QED
    BY <1>2, <2>2 DEF TextsInv
<1>3. QED
  BY <1>1, <1>2 DEF TextsInv

\* So does leaving the journal alone.
LEMMA StillLasts ==
    ASSUME TextsInv, UNCHANGED <<journal, discarded>>
    PROVE  Lasting /\ TextsInv'
  BY DEF TextsInv, Lasting

\* find_inbound_identity knows what was announced and not discarded.
LEMMA UnknownIsNew ==
    ASSUME NEW r, find_inbound_identity(r.sender, r.ts, r.text) = {}
    PROVE  ~Known(Message(r))
<1> SUFFICES ASSUME NEW id \in Ids, journal[id].status = "RECEIVED",
                    Message(journal[id]) = Message(r)
             PROVE  FALSE
  BY DEF Known
<1>1. /\ journal[id].sender = r.sender /\ journal[id].ts = r.ts /\ journal[id].text = r.text
  BY DEF Message
<1>2. id \in find_inbound_identity(r.sender, r.ts, r.text)
  BY <1>1 DEF find_inbound_identity, Stored
<1>3. QED
  BY <1>2

\* The event of a message that was not known and is stored now.
LEMMA AnnounceStored ==
    ASSUME TextsInv, EventsInv, Lasting, created = NoRecord, created' = NoRecord,
           NEW r, NEW id \in Ids, journal'[id] = r, r.status = "RECEIVED",
           ~Known(Message(r)), Notify(r)
    PROVE  EventsInv'
<1> DEFINE n == Message(r)
<1>1. /\ received_events' \in [DOMAIN received_events' -> Nat \ {0}]
      /\ DOMAIN received_events' = DOMAIN received_events \cup {n}
      /\ \A m \in DOMAIN received_events : m # n => received_events'[m] = received_events[m]
      /\ n \notin DOMAIN received_events => received_events'[n] = 1
  BY NotifyAdds DEF EventsInv
<1>2. Known(n)'
  BY DEF Known, Message
<1> HIDE DEF n
<1>3. ASSUME NEW m \in DOMAIN received_events'
      PROVE  (Known(m)' \/ Gone(m)') /\ (received_events'[m] > 1 => Gone(m)')
  <2>1. CASE m # n
    BY <1>1, <1>3, <2>1, KnownLasts DEF EventsInv
  <2>2. CASE m = n /\ n \in DOMAIN received_events
    <3>1. Gone(n)
      BY <2>2 DEF EventsInv, n
    <3>2. Gone(n)'
      BY <3>1, KnownLasts
    <3>3. QED
      BY <2>2, <3>2
  <2>3. CASE m = n /\ n \notin DOMAIN received_events
    BY <1>1, <1>2, <2>3
  <2>4. QED
    BY <2>1, <2>2, <2>3
<1>4. QED
  BY <1>1, <1>3 DEF EventsInv

\* The event of a message whose parts were deleted after it was stored.
LEMMA AnnounceAssembled ==
    ASSUME TextsInv, EventsInv, Lasting, created # NoRecord, created' = NoRecord,
           Notify(created)
    PROVE  EventsInv'
<1>0. PICK n : n = Message(created)
  OBVIOUS
<1>1. /\ received_events' \in [DOMAIN received_events' -> Nat \ {0}]
      /\ DOMAIN received_events' = DOMAIN received_events \cup {n}
      /\ \A m \in DOMAIN received_events : m # n => received_events'[m] = received_events[m]
      /\ n \notin DOMAIN received_events => received_events'[n] = 1
  BY <1>0, NotifyAdds DEF EventsInv
<1>2. (Known(n) \/ Gone(n)) /\ (n \in DOMAIN received_events => Gone(n))
  BY <1>0 DEF EventsInv
<1>3. (Known(n)' \/ Gone(n)') /\ (n \in DOMAIN received_events => Gone(n)')
  BY <1>2, KnownLasts
<1>4. ASSUME NEW m \in DOMAIN received_events'
      PROVE  (Known(m)' \/ Gone(m)') /\ (received_events'[m] > 1 => Gone(m)')
  <2>1. CASE m # n
    BY <1>1, <1>4, <2>1, KnownLasts DEF EventsInv
  <2>2. CASE m = n
    BY <1>1, <1>3, <2>2
  <2>3. QED
    BY <2>1, <2>2
<1>5. QED
  BY <1>1, <1>4 DEF EventsInv

\* A new part, or an 8-bit message, is announced to nobody.
LEMMA SavesQuietly ==
    ASSUME InboundInv, TextsInv, EventsInv, pc \in {"persist", "assemble"},
           NEW r, r.status # "RECEIVED", NEW ok \in BOOLEAN, save_new(r, ok), Outside,
           UNCHANGED received_events, created' \in {created, NoRecord}
    PROVE  TextsInv' /\ EventsInv'
<1>1. Gentle(r)
  BY SaveFacts DEF InboundInv, Outside
<1>2. Lasting /\ TextsInv'
  BY <1>1, GentleLasts
<1>3. QED
  BY <1>2, QuietEvents

\* A message of one part: known, new, or refused.
LEMMA SingleEvents ==
    ASSUME InboundInv, TextsInv, EventsInv, persist_single
    PROVE  TextsInv' /\ EventsInv'
<1> DEFINE r == InRecord("RECEIVED", Current, <<Current.text>>)
<1>1. pc = "persist" /\ created = NoRecord /\ Outside
  BY DEF persist_single, EventsInv, Outside
<1>2. /\ r.status = "RECEIVED" /\ r.sender = Current.sender /\ r.ts = Current.ts
      /\ r.text = <<Current.text>>
  BY RecordFields
<1>3. \/ Goto("cmgd") /\ UNCHANGED <<flash, discarded, received_events>>
      \/ /\ find_inbound_identity(Current.sender, Current.ts, <<Current.text>>) = {}
         /\ \E ok \in BOOLEAN :
               /\ save_new(r, ok)
               /\ IF ok THEN Goto("cmgd") /\ Notify(r)
                        ELSE Return(FALSE) /\ UNCHANGED received_events
  BY DEF persist_single
<1> HIDE DEF r
<1>4. CASE Goto("cmgd") /\ UNCHANGED <<flash, discarded, received_events>>
  <2>1. Lasting /\ TextsInv'
    BY <1>4, StillLasts DEF flash
  <2>2. QED
    BY <1>1, <1>4, <2>1, QuietEvents DEF Goto
<1>5. ASSUME find_inbound_identity(Current.sender, Current.ts, <<Current.text>>) = {},
             NEW ok \in BOOLEAN, save_new(r, ok),
             IF ok THEN Goto("cmgd") /\ Notify(r)
                   ELSE Return(FALSE) /\ UNCHANGED received_events
      PROVE  TextsInv' /\ EventsInv'
  <2>1. PICK s : s = r
    OBVIOUS
  <2>2. /\ s.status = "RECEIVED" /\ 1 \in DOMAIN s.text /\ save_new(s, ok)
        /\ find_inbound_identity(s.sender, s.ts, s.text) = {}
    BY <1>2, <1>5, <2>1
  <2>3. Gentle(s) /\ (ok => next_id \in Ids /\ journal'[next_id] = s)
    BY <1>1, <2>2, SaveFacts DEF InboundInv, Outside
  <2>4. Lasting /\ TextsInv'
    BY <2>2, <2>3, GentleLasts
  <2>5. CASE ok
    <3>1. created' = NoRecord /\ Notify(s)
      BY <1>1, <1>5, <2>1, <2>5 DEF Goto
    <3>2. ~Known(Message(s))
      BY <2>2, UnknownIsNew
    <3>3. QED
      BY <1>1, <2>2, <2>3, <2>4, <2>5, <3>1, <3>2, AnnounceStored
  <2>6. CASE ~ok
    <3>1. created' = NoRecord /\ UNCHANGED received_events
      BY <1>5, <2>6 DEF Return
    <3>2. QED
      BY <2>4, <3>1, QuietEvents
  <2>7. QED
    BY <2>5, <2>6
<1>6. QED
  BY <1>3, <1>4, <1>5

\* A part replaces another part; messages are not touched.
LEMMA OverwriteLasts ==
    ASSUME InboundInv, TextsInv, NEW k \in Ids, journal[k].status # "RECEIVED",
           NEW r, r.status # "RECEIVED", journal' = [journal EXCEPT ![k] = r],
           UNCHANGED discarded
    PROVE  Lasting /\ TextsInv'
<1>1. \A id \in Ids : journal'[id] = IF id = k THEN r ELSE journal[id]
  BY DEF InboundInv, JournalInv
<1>2. QED
  BY <1>1 DEF Lasting, TextsInv

\* A part: known, changed or new.
LEMMA PartEvents ==
    ASSUME InboundInv, TextsInv, EventsInv, persist_part
    PROVE  TextsInv' /\ EventsInv'
<1> DEFINE found == find_partial(Current, Current.part)
           k     == Oldest(found)
           r     == InRecord("PARTIAL", Current, <<Current.text>>)
           over  == [journal EXCEPT ![k] = r]
<1>1. /\ pc = "persist" /\ Outside /\ UNCHANGED received_events
      /\ created' \in {created, NoRecord}
  BY DEF persist_part, Outside, Goto, Return
<1>2. \/ UNCHANGED <<journal, discarded>>
      \/ found # {} /\ journal' = over /\ UNCHANGED discarded
      \/ \E ok \in BOOLEAN : save_new(r, ok)
  BY DEF persist_part, flash
<1>3. r.status # "RECEIVED"
  BY DEF InRecord
<1>4. found # {} => k \in Ids /\ journal[k].status # "RECEIVED"
  <2>1. found \in SUBSET Ids /\ \A id \in found : journal[id].status = "PARTIAL"
    BY DEF find_partial, Stored
  <2>2. found # {} => k \in found
    BY <2>1, OldestIn
  <2>3. QED
    BY <2>1, <2>2
<1>5. CASE UNCHANGED <<journal, discarded>>
  BY <1>1, <1>5, StillLasts, QuietEvents
<1> HIDE DEF found, k, r
<1>6. CASE found # {} /\ journal' = over /\ UNCHANGED discarded
  <2>1. PICK i \in Ids : i = k
    BY <1>4, <1>6
  <2>2. PICK s : s = r
    OBVIOUS
  <2>3. Lasting /\ TextsInv'
    BY <1>3, <1>4, <1>6, <2>1, <2>2, OverwriteLasts
  <2>4. QED
    BY <1>1, <2>3, QuietEvents
<1>7. ASSUME NEW ok \in BOOLEAN, save_new(r, ok) PROVE TextsInv' /\ EventsInv'
  <2>1. PICK s : s = r
    OBVIOUS
  <2>2. QED
    BY <1>1, <1>3, <1>7, <2>1, SavesQuietly
<1>8. QED
  BY <1>2, <1>5, <1>6, <1>7

\* A message is put together: it is announced once its parts are deleted.
LEMMA AssembleEvents ==
    ASSUME InboundInv, TextsInv, EventsInv, assemble_if_complete
    PROVE  TextsInv' /\ EventsInv'
<1> DEFINE ts    == journal[Oldest(find_partial(Current, 1))].ts
           whole == [InRecord("RECEIVED", Current, Assembled) EXCEPT !.ts = ts]
<1>1. pc = "assemble" /\ created = NoRecord /\ Outside /\ UNCHANGED received_events
  BY DEF assemble_if_complete, EventsInv, Outside
<1>2. \/ UNCHANGED <<flash, discarded>> /\ created' \in {created, NoRecord}
      \/ /\ find_inbound_identity(Current.sender, whole.ts, Assembled) = {}
         /\ \E ok \in BOOLEAN :
               /\ save_new(whole, ok)
               /\ IF ok THEN pc' = "drop" /\ created' = whole ELSE Return(FALSE)
  BY DEF assemble_if_complete, Assembled, Goto
<1>3. whole.status = "RECEIVED" /\ whole.text = Assembled /\ whole.sender = Current.sender
  BY DEF InRecord
<1>4. 1 \in DOMAIN Assembled
  <2>1. Current \in Pdus /\ PduType(Current)
    BY <1>1, CurrentIn DEF InboundInv, Working
  <2>2. QED
    BY <2>1 DEF PduType, Assembled
<1> HIDE DEF whole
<1>5. CASE UNCHANGED <<flash, discarded>> /\ created' \in {created, NoRecord}
  <2>1. Lasting /\ TextsInv'
    BY <1>5, StillLasts DEF flash
  <2>2. QED
    BY <1>1, <1>5, <2>1, QuietEvents
<1>6. ASSUME find_inbound_identity(Current.sender, whole.ts, Assembled) = {},
             NEW ok \in BOOLEAN, save_new(whole, ok),
             IF ok THEN pc' = "drop" /\ created' = whole ELSE Return(FALSE)
      PROVE  TextsInv' /\ EventsInv'
  <2>1. PICK s : s = whole
    OBVIOUS
  <2>2. /\ s.status = "RECEIVED" /\ 1 \in DOMAIN s.text /\ save_new(s, ok)
        /\ find_inbound_identity(s.sender, s.ts, s.text) = {}
    BY <1>3, <1>4, <1>6, <2>1
  <2>3. Gentle(s) /\ (ok => next_id \in Ids /\ journal'[next_id] = s)
    BY <1>1, <2>2, SaveFacts DEF InboundInv, Outside
  <2>4. Lasting /\ TextsInv'
    BY <2>2, <2>3, GentleLasts
  <2>5. CASE ok
    <3>1. created' = s /\ pc' = "drop"
      BY <1>6, <2>1, <2>5
    <3>2. PICK n : n = Message(s)
      OBVIOUS
    <3>3. Known(n)'
      BY <2>2, <2>3, <2>5, <3>2 DEF Known
    <3>4. ~Known(n)
      BY <2>2, <3>2, UnknownIsNew
    <3>5. n \in DOMAIN received_events => Gone(n)'
      BY <3>4, <2>4, KnownLasts DEF EventsInv
    <3>6. ASSUME NEW m \in DOMAIN received_events'
          PROVE  (Known(m)' \/ Gone(m)') /\ (received_events'[m] > 1 => Gone(m)')
      BY <1>1, <2>4, <3>6, KnownLasts DEF EventsInv
    <3>7. n = Message(created')
      BY <3>1, <3>2
    <3>8. Known(Message(created))' /\ (Gone(Message(created))' <=> Gone(n)')
      BY <3>3, <3>7 DEF Known, Gone
    <3>9. received_events' \in [DOMAIN received_events' -> Nat \ {0}]
      BY <1>1 DEF EventsInv
    <3>10. EventsInv'
      BY <1>1, <3>1, <3>5, <3>6, <3>7, <3>8, <3>9 DEF EventsInv
    <3>11. QED
      BY <2>4, <3>10
  <2>6. CASE ~ok
    <3>1. created' = NoRecord
      BY <1>6, <2>6 DEF Return
    <3>2. QED
      BY <1>1, <2>4, <3>1, QuietEvents
  <2>7. QED
    BY <2>5, <2>6
<1>7. QED
  BY <1>2, <1>5, <1>6

\* The parts go, and with the last one the event.
LEMMA DropEvents ==
    ASSUME InboundInv, TextsInv, EventsInv, delete_partial
    PROVE  TextsInv' /\ EventsInv'
<1> DEFINE k == Head(doomed)
<1>1. /\ pc = "drop" /\ UNCHANGED discarded
      /\ journal' \in {journal, [journal EXCEPT ![k] = NoRecord]}
  BY DEF delete_partial
<1>2. k \in Ids /\ journal[k].status # "RECEIVED"
  <2>1. /\ doomed \in Seq(Ids) /\ doomed # <<>>
        /\ \A j \in DOMAIN doomed : Spare(journal[doomed[j]])
    BY <1>1 DEF InboundInv, DoomedInv
  <2>2. 1 \in DOMAIN doomed /\ k = doomed[1] /\ k \in Ids
    BY <2>1
  <2>3. Spare(journal[k])
    BY <2>1, <2>2
  <2>4. QED
    BY <2>2, <2>3 DEF Spare, NoRecord
<1> HIDE DEF k
<1>3. Lasting /\ TextsInv'
  <2>1. CASE journal' = journal
    BY <1>1, <2>1, StillLasts
  <2>2. CASE journal' = [journal EXCEPT ![k] = NoRecord]
    <3>1. PICK i \in Ids : i = k
      BY <1>2
    <3>2. NoRecord.status # "RECEIVED"
      BY DEF NoRecord
    <3>3. QED
      BY <1>1, <1>2, <2>2, <3>1, <3>2, OverwriteLasts
  <2>3. QED
    BY <1>1, <2>1, <2>2
<1>4. CASE created # NoRecord /\ created' = NoRecord /\ Notify(created)
  BY <1>3, <1>4, AnnounceAssembled
<1>5. CASE UNCHANGED received_events /\ (created' = NoRecord \/ (created' = created /\ pc' = "drop"))
  BY <1>3, <1>5, QuietEvents
<1>6. QED
  BY <1>4, <1>5 DEF delete_partial

\* The API deletes a record: what it held counts as discarded.
LEMMA ApiDeleteEvents ==
    ASSUME InboundInv, TextsInv, EventsInv, NEW k \in Ids, sms_service_delete(k)
    PROVE  TextsInv' /\ EventsInv'
<1>1. /\ journal' = [journal EXCEPT ![k] = NoRecord]
      /\ discarded' = discarded \cup Texts(journal[k])
      /\ UNCHANGED <<received_events, created, pc>>
  BY DEF sms_service_delete, service
<1>2. \A id \in Ids : journal'[id] = IF id = k THEN NoRecord ELSE journal[id]
  BY <1>1 DEF InboundInv, JournalInv
<1>3. Lasting
  BY <1>1, <1>2 DEF Lasting, Removed
<1>4. TextsInv'
  BY <1>2 DEF TextsInv, NoRecord
<1>5. QED
  BY <1>1, <1>3, <1>4, QuietEvents

\* Every step keeps what is known of the events.
LEMMA StepEvents ==
    ASSUME InboundInv, TextsInv, EventsInv, [Next]_vars
    PROVE  TextsInv' /\ EventsInv'
<1>1. CASE /\ UNCHANGED <<journal, discarded, received_events>>
           /\ created' = NoRecord \/ (created' = created /\ (pc = "drop" => pc' = "drop"))
  BY <1>1, StillLasts, QuietEvents
<1>2. CASE \/ scan_stored_messages \/ process_undecodable \/ process_fails
           \/ delete_modem_index \/ poll_inbox \/ Crash
           \/ \E i \in Indexes : read_modem_index(i)
           \/ \E p \in Pdus : handle_direct_urc(p)
           \/ \E id \in Ids : set_replay_watermark(id)
           \/ \E p \in Pdus, i \in Indexes : Arrive(p, i)
  BY <1>1, <1>2 DEF scan_stored_messages, process_undecodable, process_fails, history, service,
        delete_modem_index, poll_inbox, Crash, read_modem_index, handle_direct_urc,
        set_replay_watermark, Arrive, flash, Goto, Return
<1>3. CASE persist_unsupported_deliver
  <2>1. /\ pc = "persist" /\ Outside /\ UNCHANGED received_events
        /\ created' \in {created, NoRecord}
    BY <1>3 DEF persist_unsupported_deliver, Outside, Goto, Return
  <2>2. PICK r : r = InRecord("UNSUPPORTED", Current, <<Current.text>>)
    OBVIOUS
  <2>3. r.status # "RECEIVED"
    BY <2>2 DEF InRecord
  <2>4. \/ UNCHANGED <<journal, discarded>>
        \/ \E ok \in BOOLEAN : save_new(r, ok)
    BY <1>3, <2>2 DEF persist_unsupported_deliver, flash
  <2>5. QED
    BY <2>1, <2>3, <2>4, <1>1, SavesQuietly
<1>4. CASE persist_single
  BY <1>4, SingleEvents
<1>5. CASE persist_part
  BY <1>5, PartEvents
<1>6. CASE assemble_if_complete
  BY <1>6, AssembleEvents
<1>7. CASE delete_partial
  BY <1>7, DropEvents
<1>8. ASSUME NEW k \in Ids, sms_service_delete(k) PROVE TextsInv' /\ EventsInv'
  BY <1>8, ApiDeleteEvents
<1>9. CASE UNCHANGED vars
  BY <1>1, <1>9 DEF vars, flash, service, history
<1>10. QED
  BY <1>2, <1>3, <1>4, <1>5, <1>6, <1>7, <1>8, <1>9 DEF Next, ServiceStep

\* A message is announced to the listeners (MQTT, and whoever else registered)
\* at most once, whatever is read twice and wherever a reset interrupts the
\* assembly, unless it was deleted or pruned in between and arrives again.
THEOREM AnnouncedAtMostOnce == Spec => []AnnouncedOnce
<1>1. Init => TextsInv /\ EventsInv
  <2> SUFFICES ASSUME Init PROVE TextsInv /\ EventsInv
    OBVIOUS
  <2>1. DOMAIN received_events = {} /\ received_events \in [{} -> Nat \ {0}]
    BY DEF Init
  <2>2. QED
    BY <2>1 DEF Init, TextsInv, EventsInv, NoRecord
<1>2. InboundInv /\ (TextsInv /\ EventsInv) /\ [Next]_vars => (TextsInv /\ EventsInv)'
  BY StepEvents
<1>3. EventsInv => AnnouncedOnce
  BY DEF EventsInv, AnnouncedOnce, Gone
<1>4. QED
  BY <1>1, <1>2, <1>3, InboundInvariant, PTL DEF Spec
=============================================================================
