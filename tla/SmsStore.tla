------------------------------ MODULE SmsStore ------------------------------
(***************************************************************************)
(* components/sms_store: records in numbered NVS slots.  Every operation    *)
(* holds s_mutex from its first scan to its last NVS call, so operations do *)
(* not interleave with each other; a reset can come between any two NVS     *)
(* calls, and each NVS call can fail.                                       *)
(***************************************************************************)
EXTENDS SmsRecords

CONSTANTS
    Records,         \* the contents a record may have
    MaxAllocations,  \* bound on the ids handed out
    MaxFaults,       \* bound on failing NVS calls
    MaxCrashes       \* bound on resets

ASSUME StoreAssumption ==
    /\ \A r \in Records : r.status # "EMPTY"
    /\ MaxAllocations \in Nat
    /\ MaxAllocations < IdMax     \* the 32-bit counter does not wrap
    /\ MaxFaults \in Nat
    /\ MaxCrashes \in Nat

VARIABLES
    slots,              \* the blobs "s000".."s127"
    next_id,            \* the "next_id" value in NVS
    replay_protection,  \* s_replay_protection_enabled
    replay_watermark,   \* s_replay_watermark
    op,                 \* the NVS call the mutex holder makes next
    slot,               \* the slot it works on
    message,            \* the message it saves: [id, r]
    is_new,             \* the message had no id
    faults, crashes,
    allocations,        \* ids handed out so far
    issued              \* history: ids under which a record was written

nvs    == <<slots, next_id>>
replay == <<replay_protection, replay_watermark>>
holder == <<op, slot, message, is_new>>
vars   == <<nvs, replay, holder, faults, crashes, allocations, issued>>

Slots == 0 .. Capacity - 1

Empty == [id |-> 0, r |-> NoRecord]

Blob == [id : Ids, r : Records]

Ops == {"idle", "erase", "allocate", "write", "delete"}

TypeOK ==
    /\ slots \in [Slots -> Blob \cup {Empty}]
    /\ next_id \in Ids
    /\ replay_protection \in BOOLEAN
    /\ replay_watermark \in 0 .. IdMax
    /\ op \in Ops
    /\ slot \in Slots
    /\ message \in [id : 0 .. IdMax, r : Records \cup {NoRecord}]
    /\ is_new \in BOOLEAN
    /\ faults \in 0 .. MaxFaults
    /\ crashes \in 0 .. MaxCrashes
    /\ allocations \in 0 .. MaxAllocations
    /\ issued \subseteq Ids

Init ==
    /\ slots = [s \in Slots |-> Empty]
    /\ next_id = 1
    /\ replay_protection = TRUE
    /\ replay_watermark = 0
    /\ op = "idle" /\ slot = 0 /\ message = Empty /\ is_new = FALSE
    /\ faults = 0 /\ crashes = 0 /\ allocations = 0
    /\ issued = {}

-----------------------------------------------------------------------------
(* Scans.                                                                   *)

FirstSlot(S) == CHOOSE s \in S : \A k \in S : s <= k

find_id_slot(id) == {s \in Slots : slots[s].id = id}

find_empty_slot == {s \in Slots : slots[s] = Empty}

\* The prunable slots, and among them the one with the smallest id below
\* UINT32_MAX (the first of them, if an id is there twice).
PrunableSlots ==
    {s \in Slots : /\ slots[s] # Empty
                   /\ record_prunable(slots[s].r, slots[s].id,
                                      replay_protection, replay_watermark)
                   /\ slots[s].id < IdMax}

\* Mutant: the first prunable slot instead of the one with the oldest record.
find_prunable_slot_First == FirstSlot(PrunableSlots)

find_prunable_slot ==
    FirstSlot({s \in PrunableSlots :
                 \A k \in PrunableSlots : slots[s].id <= slots[k].id})

-----------------------------------------------------------------------------
(* Operations: the scan that starts one, then its NVS calls.                *)

Release == op' = "idle" /\ slot' = 0 /\ message' = Empty /\ is_new' = FALSE

Fault == faults < MaxFaults /\ faults' = faults + 1

\* sms_store_save of a message without an id.
save_new(r) ==
    /\ op = "idle"
    /\ allocations < MaxAllocations
    /\ \/ /\ find_empty_slot # {}
          /\ op' = "allocate" /\ slot' = FirstSlot(find_empty_slot)
       \/ /\ find_empty_slot = {} /\ PrunableSlots # {}
          /\ op' = "erase" /\ slot' = find_prunable_slot
    /\ message' = [id |-> 0, r |-> r] /\ is_new' = TRUE
    /\ UNCHANGED <<nvs, replay, faults, crashes, allocations, issued>>

\* sms_store_save of a message that has an id.
save_existing(id, r) ==
    /\ op = "idle"
    /\ id \in issued
    /\ \/ /\ find_id_slot(id) # {}
          /\ slot' = FirstSlot(find_id_slot(id))
       \/ /\ find_id_slot(id) = {} /\ find_empty_slot # {}
          /\ slot' = FirstSlot(find_empty_slot)
    /\ op' = "write"
    /\ message' = [id |-> id, r |-> r] /\ is_new' = FALSE
    /\ UNCHANGED <<nvs, replay, faults, crashes, allocations, issued>>

\* nvs_erase_key and nvs_commit; a failing commit leaves the key erased.
erase_slot ==
    /\ op = "erase"
    /\ \/ /\ slots' = [slots EXCEPT ![slot] = Empty]
          /\ op' = "allocate"
          /\ UNCHANGED <<slot, message, is_new, faults>>
       \/ /\ Fault
          /\ slots' \in {slots, [slots EXCEPT ![slot] = Empty]}
          /\ Release
    /\ UNCHANGED <<next_id, replay, crashes, allocations, issued>>

\* Mutant: the counter is not stored.
allocate_id_NotStored ==
    /\ op = "allocate"
    /\ allocations' = allocations + 1
    /\ message' = [message EXCEPT !.id = next_id]
    /\ op' = "write"
    /\ UNCHANGED <<next_id, slot, is_new, faults, slots, replay, crashes, issued>>

allocate_id ==
    /\ op = "allocate"
    /\ \/ /\ allocations' = allocations + 1
          /\ next_id' = NextId(next_id)
          /\ message' = [message EXCEPT !.id = next_id]
          /\ op' = "write"
          /\ UNCHANGED <<slot, is_new, faults>>
       \/ /\ Fault
          /\ Release
          /\ UNCHANGED <<allocations, next_id>>
    /\ UNCHANGED <<slots, replay, crashes, issued>>

\* nvs_set_blob and nvs_commit; a failing commit leaves the blob set.
write_slot ==
    /\ op = "write"
    /\ \/ /\ slots' = [slots EXCEPT ![slot] = message]
          /\ issued' = issued \cup {message.id}
          /\ UNCHANGED faults \/ Fault
       \/ /\ Fault
          /\ UNCHANGED <<slots, issued>>
    /\ Release
    /\ UNCHANGED <<next_id, replay, crashes, allocations>>

sms_store_delete(id) ==
    /\ op = "idle"
    /\ find_id_slot(id) # {}
    /\ op' = "delete" /\ slot' = FirstSlot(find_id_slot(id))
    /\ UNCHANGED <<nvs, replay, message, is_new, faults, crashes, allocations, issued>>

delete_erase ==
    /\ op = "delete"
    /\ \/ /\ slots' = [slots EXCEPT ![slot] = Empty]
          /\ UNCHANGED faults \/ Fault
       \/ /\ Fault
          /\ UNCHANGED slots
    /\ Release
    /\ UNCHANGED <<next_id, replay, crashes, allocations, issued>>

sms_store_set_replay_watermark(protection, watermark) ==
    /\ op = "idle"
    /\ replay_protection' = protection
    /\ replay_watermark' = watermark
    /\ UNCHANGED <<nvs, holder, faults, crashes, allocations, issued>>

\* A reset keeps NVS.  The watermark is RAM with static initial values.
Crash ==
    /\ crashes < MaxCrashes
    /\ crashes' = crashes + 1
    /\ replay_protection' = TRUE
    /\ replay_watermark' = 0
    /\ Release
    /\ UNCHANGED <<nvs, faults, allocations, issued>>

Next ==
    \/ \E r \in Records : save_new(r)
    \/ \E id \in Ids, r \in Records : save_existing(id, r)
    \/ erase_slot
    \/ allocate_id
    \/ write_slot
    \/ \E id \in Ids : sms_store_delete(id)
    \/ delete_erase
    \/ \E protection \in BOOLEAN, watermark \in 0 .. IdMax :
          sms_store_set_replay_watermark(protection, watermark)
    \/ Crash

Spec == Init /\ [][Next]_vars

-----------------------------------------------------------------------------
(* Properties.                                                              *)

\* sms_store_save: no two slots hold the same id, so find_id_slot cannot
\* update or delete the wrong record.
UniqueIds ==
    \A s, t \in Slots : slots[s].id = slots[t].id /\ slots[s] # Empty => s = t

\* allocate_id: the counter is stored before the record, so neither a failed
\* write nor a reset makes a new record take an id that was in use before.
FreshIds ==
    op = "write" /\ is_new => message.id \notin issued

\* Ids name records for ever: clients, MQTT's cursor and delivery reports refer
\* to them long after the record is gone (allocate_id, find_id_slot).
IdsNeverReused == UniqueIds /\ FreshIds

\* "It will not automatically prune queued, sending, uncertain or partial
\* messages ..." (docs/sms-subsystem.md, "Storage"): a slot whose record is not
\* prunable changes only when that id is saved again or deleted.
ProtectedKept ==
    [][\A s \in Slots :
          /\ slots[s] # Empty
          /\ ~record_prunable(slots[s].r, slots[s].id, replay_protection, replay_watermark)
          /\ slots'[s] # slots[s]
          => \/ op = "delete" /\ slot = s
             \/ slots'[s].id = slots[s].id]_vars

\* The journal that the slots represent.
JournalOf ==
    [id \in Ids |-> IF find_id_slot(id) = {} THEN NoRecord
                    ELSE slots[FirstSlot(find_id_slot(id))].r]

\* The id whose deletion is under way.
Deleting == IF op = "delete" THEN slots[slot].id ELSE 0

Journal == INSTANCE SmsJournal WITH journal <- JournalOf, deleting <- Deleting

\* The slot store implements the journal: pruning takes the oldest prunable
\* record of a full store, nothing else is lost, and resets between NVS calls
\* are invisible except for the watermark.
JournalSpec == Journal!Spec
=============================================================================
