----------------------------- MODULE SmsRecords -----------------------------
(***************************************************************************)
(* The vocabulary of the SMS journal (components/sms_store): what a record  *)
(* looks like to the operations that select one, and which record each      *)
(* selection returns.                                                       *)
(*                                                                          *)
(* A journal is a function from local message ids to records.  A record     *)
(* that is not there is NoRecord.  The operators here only read the fields  *)
(* every record has (status, and report for outbound ones); the modules     *)
(* that use them add the fields they need.                                  *)
(***************************************************************************)
EXTENDS Integers, FiniteSets

CONSTANTS
    Capacity,   \* SMS_STORE_MAX_RECORDS
    IdMax       \* UINT32_MAX, the largest id

ASSUME RecordsAssumption ==
    /\ Capacity \in Nat \ {0}
    /\ IdMax \in Nat \ {0}

Ids == 1 .. IdMax

NoRecord == [status |-> "EMPTY"]

Stored(j) == {id \in Ids : j[id].status # "EMPTY"}

Full(j) == Cardinality(Stored(j)) >= Capacity

Oldest(S) == CHOOSE id \in S : \A k \in S : id <= k

Newest(S) == CHOOSE id \in S : \A k \in S : k <= id

\* uint32_t increment that skips zero.
NextId(id) == IF id = IdMax THEN 1 ELSE id + 1

\* Mutants: the watermark does not protect received messages; a message that
\* is still to be sent may go.
record_prunable_Received(r, id, protection, watermark) ==
    \/ r.status = "SENT" /\ ~r.report
    \/ r.status \in {"RECEIVED", "DELIVERED", "FAILED", "UNSUPPORTED"}

record_prunable_Unfinished(r, id, protection, watermark) ==
    r.status \in {"QUEUED", "SENT", "RECEIVED", "DELIVERED", "FAILED", "UNSUPPORTED"}

record_prunable(r, id, protection, watermark) ==
    \/ r.status = "RECEIVED" /\ (~protection \/ id <= watermark)
    \/ r.status = "SENT" /\ ~r.report
    \/ r.status \in {"DELIVERED", "FAILED", "UNSUPPORTED"}

\* The scan starts from best_id = UINT32_MAX and compares with <, so a record
\* whose id is UINT32_MAX itself is never selected.
Prunable(j, protection, watermark) ==
    {id \in Stored(j) : /\ record_prunable(j[id], id, protection, watermark)
                        /\ id < IdMax}

WithStatus(j, status) == {id \in Stored(j) : j[id].status = status /\ id < IdMax}

\* Room for one more record: the journal itself, or the journal without its
\* oldest prunable record when it is full.
HasRoom(j, protection, watermark) ==
    Full(j) => Prunable(j, protection, watermark) # {}

MakeRoom(j, protection, watermark) ==
    IF Full(j)
    THEN [j EXCEPT ![Oldest(Prunable(j, protection, watermark))] = NoRecord]
    ELSE j
=============================================================================
