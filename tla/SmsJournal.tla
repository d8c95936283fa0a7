----------------------------- MODULE SmsJournal -----------------------------
(***************************************************************************)
(* What the durable SMS store promises the rest of the gateway: a bounded   *)
(* map from ids to records that gives every new record an id of its own,    *)
(* loses a record only on request or when it is the oldest prunable one of  *)
(* a full store, and forgets nothing in a reset except the replay           *)
(* watermark.  SmsStore implements it.                                      *)
(***************************************************************************)
EXTENDS SmsRecords

CONSTANT Records   \* the contents a record may have

VARIABLES
    journal,            \* [Ids -> Records \cup {NoRecord}]
    issued,             \* ids that were ever given to a record
    deleting,           \* the id that a caller asks to delete, or 0
    replay_protection,  \* s_replay_protection_enabled
    replay_watermark    \* s_replay_watermark

vars == <<journal, issued, deleting, replay_protection, replay_watermark>>

TypeOK ==
    /\ journal \in [Ids -> Records \cup {NoRecord}]
    /\ issued \subseteq Ids
    /\ deleting \in Ids \cup {0}
    /\ replay_protection \in BOOLEAN
    /\ replay_watermark \in 0 .. IdMax

Init ==
    /\ journal = [id \in Ids |-> NoRecord]
    /\ issued = {}
    /\ deleting = 0
    /\ replay_protection = TRUE
    /\ replay_watermark = 0

\* A new record goes under an id no record ever had.
Insert(id, r) ==
    /\ deleting = 0
    /\ id \notin issued
    /\ ~Full(journal)
    /\ journal' = [journal EXCEPT ![id] = r]
    /\ issued' = issued \cup {id}
    /\ UNCHANGED <<deleting, replay_protection, replay_watermark>>

\* A record that has an id is replaced, or created again when it is gone.
Replace(id, r) ==
    /\ deleting = 0
    /\ id \in issued
    /\ id \in Stored(journal) \/ ~Full(journal)
    /\ journal' = [journal EXCEPT ![id] = r]
    /\ UNCHANGED <<issued, deleting, replay_protection, replay_watermark>>

\* A full journal makes room by dropping its oldest prunable record.
Evict ==
    /\ deleting = 0
    /\ Full(journal)
    /\ Prunable(journal, replay_protection, replay_watermark) # {}
    /\ journal' = MakeRoom(journal, replay_protection, replay_watermark)
    /\ UNCHANGED <<issued, deleting, replay_protection, replay_watermark>>

\* A deletion is asked for, then done or given up.
AskDelete(id) ==
    /\ deleting = 0
    /\ id \in Stored(journal)
    /\ deleting' = id
    /\ UNCHANGED <<journal, issued, replay_protection, replay_watermark>>

Delete(done) ==
    /\ deleting # 0
    /\ journal' = IF done THEN [journal EXCEPT ![deleting] = NoRecord] ELSE journal
    /\ deleting' = 0
    /\ UNCHANGED <<issued, replay_protection, replay_watermark>>

SetWatermark(protection, watermark) ==
    /\ deleting = 0
    /\ replay_protection' = protection
    /\ replay_watermark' = watermark
    /\ UNCHANGED <<journal, issued, deleting>>

Restart ==
    /\ deleting' = 0
    /\ replay_protection' = TRUE
    /\ replay_watermark' = 0
    /\ UNCHANGED <<journal, issued>>

Next ==
    \/ \E id \in Ids, r \in Records : Insert(id, r) \/ Replace(id, r)
    \/ Evict
    \/ \E id \in Ids : AskDelete(id)
    \/ \E done \in BOOLEAN : Delete(done)
    \/ Restart
    \/ \E protection \in BOOLEAN, watermark \in 0 .. IdMax :
          SetWatermark(protection, watermark)

Spec == Init /\ [][Next]_vars
=============================================================================
