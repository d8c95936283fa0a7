---------------------------- MODULE SmsStoreProofs ----------------------------
(***************************************************************************)
(* Proofs about SmsStore for any number of slots, any contents of records  *)
(* and any bound on allocations, failures and resets: ids are unique and   *)
(* fresh, pruning spares what is protected, and the slots implement the    *)
(* journal of SmsJournal.                                                  *)
(***************************************************************************)
EXTENDS SmsStore, FiniteSetTheorems, WellFoundedInduction, TLAPS

(* What the scans compute: a least element exists. *)
LEMMA LeastNatural ==
    ASSUME NEW S \in SUBSET Nat, S # {}
    PROVE  \E x \in S : \A y \in S : x <= y
<1>1. \E x \in S : \A y \in S : ~(<<y, x>> \in OpToRel(<, Nat))
  BY NatLessThanWellFounded, WFMin
<1>2. PICK x \in S : \A y \in S : ~(<<y, x>> \in OpToRel(<, Nat))
  BY <1>1
<1>3. \A y \in S : ~(y < x)
  BY <1>2 DEF OpToRel
<1>4. x \in Nat /\ \A y \in S : y \in Nat /\ x <= y
  BY <1>3
<1>5. QED
  BY <1>4

(* find_id_slot and find_empty_slot return a slot of the kind they look for. *)
LEMMA FirstSlotIn ==
    ASSUME NEW S \in SUBSET Slots, S # {}
    PROVE  FirstSlot(S) \in S
<1>1. S \in SUBSET Nat
  BY RecordsAssumption DEF Slots
<1>2. \E s \in S : \A k \in S : s <= k
  BY <1>1, LeastNatural
<1>3. QED
  BY <1>2 DEF FirstSlot

-----------------------------------------------------------------------------
(* A slot is empty or holds a record under an id. *)
LEMMA SlotContents ==
    ASSUME TypeOK, NEW s \in Slots
    PROVE  /\ slots[s] = Empty <=> slots[s].id = 0
           /\ slots[s] # Empty => slots[s] \in Blob /\ slots[s].id \in Ids /\ slots[s].r \in Records
<1>1. slots[s] \in Blob \cup {Empty}
  BY DEF TypeOK
<1>2. ASSUME NEW b \in Blob PROVE b.id \in Ids /\ b.r \in Records /\ b.id # 0
  BY DEF Blob, Ids
<1>3. Empty.id = 0
  BY DEF Empty
<1>4. QED
  BY <1>1, <1>2, <1>3

(* find_prunable_slot returns a prunable slot with the least id. *)
LEMMA PrunableSlotIn ==
    ASSUME TypeOK, PrunableSlots # {}
    PROVE  /\ find_prunable_slot \in PrunableSlots
           /\ \A k \in PrunableSlots : slots[find_prunable_slot].id <= slots[k].id
<1> DEFINE I == {slots[s].id : s \in PrunableSlots}
           F == {s \in PrunableSlots : \A k \in PrunableSlots : slots[s].id <= slots[k].id}
<1>1. PrunableSlots \subseteq Slots /\ \A s \in PrunableSlots : slots[s].id \in Nat
  BY SlotContents DEF PrunableSlots, Ids
<1>2. I \in SUBSET Nat /\ I # {}
  BY <1>1
<1>3. PICK i \in I : \A k \in I : i <= k
  BY <1>2, LeastNatural
<1>4. F # {} /\ F \in SUBSET Slots
  BY <1>1, <1>3
<1>5. FirstSlot(F) \in F
  BY <1>4, FirstSlotIn
<1>6. QED
  BY <1>5 DEF find_prunable_slot

-----------------------------------------------------------------------------
(* The counter in flash is ahead of every id a record ever had. *)
CounterInv ==
    /\ next_id = allocations + 1
    /\ \A id \in issued : id < next_id
    /\ \A s \in Slots : slots[s] # Empty => slots[s].id \in issued

(* What the holder of the mutex found before its next NVS call. *)
HolderInv ==
    /\ op = "erase" => /\ is_new /\ allocations < MaxAllocations /\ message.r \in Records
                       /\ find_empty_slot = {} /\ PrunableSlots # {}
                       /\ slot = find_prunable_slot
    /\ op = "allocate" => /\ is_new /\ allocations < MaxAllocations /\ message.r \in Records
                          /\ slots[slot] = Empty
    /\ op = "write" =>
         /\ message.id \in Ids /\ message.r \in Records /\ message.id < next_id
         /\ is_new => message.id \notin issued /\ slots[slot] = Empty
         /\ ~is_new => /\ message.id \in issued
                       /\ \/ slots[slot].id = message.id
                          \/ slots[slot] = Empty /\ find_id_slot(message.id) = {}
    /\ op = "delete" => slots[slot] # Empty

StoreInv == TypeOK /\ UniqueIds /\ CounterInv /\ HolderInv

(* An empty flash. *)
LEMMA InitStoreInv == Init => StoreInv
<1> SUFFICES ASSUME Init PROVE StoreInv
  OBVIOUS
<1>1. /\ 1 \in Ids /\ 0 \in 0..IdMax /\ 0 \in Slots /\ 0 \in 0..MaxFaults
      /\ 0 \in 0..MaxCrashes /\ 0 \in 0..MaxAllocations
  BY RecordsAssumption, StoreAssumption DEF Ids, Slots
<1>2. TypeOK
  BY <1>1 DEF Init, TypeOK, Empty, Ops
<1>3. UniqueIds /\ CounterInv /\ HolderInv
  BY DEF Init, UniqueIds, CounterInv, HolderInv
<1>4. QED
  BY <1>2, <1>3 DEF StoreInv

-----------------------------------------------------------------------------
(* Steps that leave the slots and the counter alone. *)
Kept == UNCHANGED <<slots, next_id, allocations, issued>>

(* They keep the invariants of both. *)
LEMMA KeptInv ==
    ASSUME StoreInv, Kept
    PROVE  UniqueIds' /\ CounterInv'
  BY DEF StoreInv, Kept, UniqueIds, CounterInv

(* An idle store holds nothing in its hands. *)
LEMMA Released ==
    ASSUME Release
    PROVE  /\ op' \in Ops /\ slot' \in Slots /\ is_new' \in BOOLEAN
           /\ message' \in [id : 0 .. IdMax, r : Records \cup {NoRecord}]
           /\ HolderInv'
<1>1. 0 \in 0..IdMax /\ 0 \in Slots
  BY RecordsAssumption DEF Slots
<1>2. QED
  BY <1>1 DEF Release, Ops, Empty, HolderInv

(* One more failure is within the bound. *)
LEMMA FaultType ==
    ASSUME TypeOK, Fault
    PROVE  faults' \in 0..MaxFaults
  BY StoreAssumption DEF TypeOK, Fault

(* sms_store_save finds a slot for a new message. *)
LEMMA SaveNewStep ==
    ASSUME StoreInv, NEW r \in Records, save_new(r)
    PROVE  StoreInv'
<1>1. Kept /\ UNCHANGED <<replay, faults, crashes>> /\ allocations < MaxAllocations
      /\ message' = [id |-> 0, r |-> r] /\ is_new' = TRUE
  BY DEF save_new, nvs, Kept
<1>2. message' \in [id : 0 .. IdMax, r : Records \cup {NoRecord}] /\ message'.r = r
  BY <1>1, RecordsAssumption
<1>3. CASE find_empty_slot # {} /\ op' = "allocate" /\ slot' = FirstSlot(find_empty_slot)
  <2>1. slot' \in Slots /\ slots[slot'] = Empty
    BY <1>3, FirstSlotIn DEF find_empty_slot
  <2>2. TypeOK'
    BY <1>1, <1>2, <1>3, <2>1 DEF StoreInv, TypeOK, Kept, replay, Ops
  <2>3. HolderInv'
    BY <1>1, <1>2, <1>3, <2>1 DEF Kept, HolderInv
  <2>4. QED
    BY <1>1, <2>2, <2>3, KeptInv DEF StoreInv
<1>4. CASE find_empty_slot = {} /\ PrunableSlots # {} /\ op' = "erase"
           /\ slot' = find_prunable_slot
  <2>1. slot' \in Slots
    BY <1>4, PrunableSlotIn DEF StoreInv, PrunableSlots
  <2>2. TypeOK'
    BY <1>1, <1>2, <1>4, <2>1 DEF StoreInv, TypeOK, Kept, replay, Ops
  <2>3. /\ find_empty_slot' = find_empty_slot /\ PrunableSlots' = PrunableSlots
        /\ find_prunable_slot' = find_prunable_slot
    BY <1>1 DEF Kept, replay, find_empty_slot, PrunableSlots, find_prunable_slot
  <2>4. HolderInv'
    BY <1>1, <1>2, <1>4, <2>3 DEF Kept, HolderInv
  <2>5. QED
    BY <1>1, <2>2, <2>4, KeptInv DEF StoreInv
<1>5. QED
  BY <1>3, <1>4 DEF save_new

(* sms_store_save finds the slot of a message that has an id, or an empty  *)
(* one.                                                                    *)
LEMMA SaveExistingStep ==
    ASSUME StoreInv, NEW id \in Ids, NEW r \in Records, save_existing(id, r)
    PROVE  StoreInv'
<1>1. /\ Kept /\ UNCHANGED <<replay, faults, crashes>> /\ op' = "write" /\ id \in issued
      /\ message' = [id |-> id, r |-> r] /\ is_new' = FALSE
  BY DEF save_existing, nvs, Kept
<1>2. message' \in [id : 0 .. IdMax, r : Records \cup {NoRecord}]
      /\ message'.r = r /\ message'.id = id
  BY <1>1, RecordsAssumption DEF Ids
<1>3. /\ slot' \in Slots
      /\ slots[slot'].id = id \/ (slots[slot'] = Empty /\ find_id_slot(id) = {})
  BY FirstSlotIn DEF save_existing, find_id_slot, find_empty_slot
<1>4. TypeOK'
  BY <1>1, <1>2, <1>3 DEF StoreInv, TypeOK, Kept, replay, Ops
<1>5. find_id_slot(id)' = find_id_slot(id) /\ id < next_id
  BY <1>1 DEF Kept, find_id_slot, StoreInv, CounterInv
<1>6. HolderInv'
  <2>1. message'.id \in Ids /\ message'.id < next_id' /\ message'.id \in issued'
    BY <1>1, <1>2, <1>5 DEF Kept
  <2>2. \/ slots'[slot'].id = message'.id
        \/ slots'[slot'] = Empty /\ find_id_slot(message.id)' = {}
    BY <1>1, <1>2, <1>3 DEF Kept, find_id_slot
  <2>3. QED
    BY <1>1, <1>2, <2>1, <2>2 DEF HolderInv
<1>7. QED
  BY <1>1, <1>4, <1>6, KeptInv DEF StoreInv

-----------------------------------------------------------------------------
(* A slot is erased. *)
LEMMA ErasedInv ==
    ASSUME StoreInv, NEW s \in Slots, slots' = [slots EXCEPT ![s] = Empty],
           UNCHANGED <<next_id, allocations, issued>>
    PROVE  /\ slots' \in [Slots -> Blob \cup {Empty}] /\ slots'[s] = Empty
           /\ UniqueIds' /\ CounterInv'
<1>1. /\ slots' \in [Slots -> Blob \cup {Empty}] /\ slots'[s] = Empty
      /\ \A t \in Slots : slots'[t] # Empty => slots'[t] = slots[t] /\ slots[t] # Empty
  BY DEF StoreInv, TypeOK
<1>2. CounterInv'
  BY <1>1 DEF StoreInv, CounterInv
<1>3. ASSUME NEW t \in Slots, NEW u \in Slots, slots'[t].id = slots'[u].id, slots'[t] # Empty
      PROVE  t = u
  <2>1. slots[t].id # 0 /\ slots'[t] = slots[t]
    BY <1>1, <1>3, SlotContents DEF StoreInv
  <2>2. slots'[u] # Empty
    BY <1>3, <2>1 DEF Empty
  <2>3. QED
    BY <1>1, <1>3, <2>1, <2>2 DEF StoreInv, UniqueIds
<1>4. QED
  BY <1>1, <1>2, <1>3 DEF UniqueIds

(* erase_slot makes room, or fails. *)
LEMMA EraseStep ==
    ASSUME StoreInv, erase_slot
    PROVE  StoreInv'
<1>1. /\ op = "erase" /\ slot \in Slots /\ UNCHANGED <<next_id, replay, crashes, allocations, issued>>
      /\ slots' \in {slots, [slots EXCEPT ![slot] = Empty]}
  BY DEF erase_slot, StoreInv, TypeOK
<1>2. slots' \in [Slots -> Blob \cup {Empty}] /\ UniqueIds' /\ CounterInv'
  <2>1. CASE slots' = slots
    BY <1>1, <2>1, KeptInv DEF Kept, StoreInv, TypeOK
  <2>2. CASE slots' = [slots EXCEPT ![slot] = Empty]
    BY <1>1, <2>2, ErasedInv
  <2>3. QED
    BY <1>1, <2>1, <2>2
<1>3. CASE Fault /\ Release
  BY <1>1, <1>2, <1>3, Released, FaultType DEF StoreInv, TypeOK, replay
<1>4. CASE /\ slots' = [slots EXCEPT ![slot] = Empty] /\ op' = "allocate"
           /\ UNCHANGED <<slot, message, is_new, faults>>
  <2>1. TypeOK'
    BY <1>1, <1>2, <1>4 DEF StoreInv, TypeOK, replay, Ops
  <2>2. slots'[slot] = Empty
    BY <1>1, <1>4, ErasedInv
  <2>3. HolderInv'
    BY <1>1, <1>4, <2>2 DEF StoreInv, HolderInv
  <2>4. QED
    BY <1>2, <2>1, <2>3 DEF StoreInv
<1>5. QED
  BY <1>3, <1>4 DEF erase_slot

(* allocate_id stores the counter before the id is used. *)
LEMMA AllocateStep ==
    ASSUME StoreInv, allocate_id
    PROVE  StoreInv'
<1>1. /\ op = "allocate" /\ UNCHANGED <<slots, replay, crashes, issued>>
  BY DEF allocate_id
<1>2. CASE Fault /\ Release /\ UNCHANGED <<allocations, next_id>>
  BY <1>1, <1>2, Released, FaultType, KeptInv DEF StoreInv, TypeOK, replay, Kept
<1>3. CASE /\ allocations' = allocations + 1 /\ next_id' = NextId(next_id)
           /\ message' = [message EXCEPT !.id = next_id] /\ op' = "write"
           /\ UNCHANGED <<slot, is_new, faults>>
  <2>1. /\ is_new /\ allocations < MaxAllocations /\ message.r \in Records
        /\ slots[slot] = Empty
    BY <1>1 DEF StoreInv, HolderInv
  <2>2. /\ next_id = allocations + 1 /\ allocations \in Nat /\ MaxAllocations \in Nat
        /\ MaxAllocations < IdMax /\ IdMax \in Nat /\ next_id \in Ids
    BY RecordsAssumption, StoreAssumption DEF StoreInv, CounterInv, TypeOK
  <2>3. next_id' = next_id + 1 /\ next_id' \in Ids /\ allocations' \in 0..MaxAllocations
    BY <1>3, <2>1, <2>2 DEF NextId, Ids
  <2>4. /\ message' \in [id : 0 .. IdMax, r : Records \cup {NoRecord}]
        /\ message'.id = next_id /\ message'.r = message.r
    BY <1>3, <2>2 DEF StoreInv, TypeOK, Ids
  <2>5. TypeOK'
    BY <1>1, <1>3, <2>3, <2>4 DEF StoreInv, TypeOK, replay, Ops
  <2>6. UniqueIds'
    BY <1>1 DEF StoreInv, UniqueIds
  <2>7. CounterInv'
    <3>1. \A id \in issued : id \in Nat /\ id < next_id
      BY DEF StoreInv, CounterInv, TypeOK, Ids
    <3>2. \A id \in issued' : id < next_id'
      BY <1>1, <2>2, <2>3, <3>1 DEF Ids
    <3>3. QED
      BY <1>1, <1>3, <2>2, <2>3, <3>2 DEF StoreInv, CounterInv
  <2>8. HolderInv'
    <3>1. message'.id \notin issued'
      BY <1>1, <2>2, <2>4 DEF StoreInv, CounterInv
    <3>2. message'.id \in Ids /\ message'.id < next_id'
      BY <2>2, <2>3, <2>4 DEF Ids
    <3>3. QED
      BY <1>1, <1>3, <2>1, <2>4, <3>1, <3>2 DEF HolderInv
  <2>9. QED
    BY <2>5, <2>6, <2>7, <2>8 DEF StoreInv
<1>4. QED
  BY <1>2, <1>3 DEF allocate_id

(* The message that is written goes to the slot of its id, or to an empty  *)
(* slot when no slot has that id.                                          *)
LEMMA WriteTarget ==
    ASSUME StoreInv, op = "write"
    PROVE  /\ slot \in Slots /\ message \in Blob /\ message.id \in Ids /\ message.id < next_id
           /\ slots[slot].id = message.id
              \/ (slots[slot] = Empty /\ find_id_slot(message.id) = {})
           /\ is_new => ~(slots[slot].id = message.id)
<1>1. /\ message.id \in Ids /\ message.r \in Records /\ message.id < next_id /\ slot \in Slots
      /\ is_new => message.id \notin issued /\ slots[slot] = Empty
      /\ ~is_new => slots[slot].id = message.id
                    \/ (slots[slot] = Empty /\ find_id_slot(message.id) = {})
  BY DEF StoreInv, HolderInv, TypeOK
<1>2. message \in Blob
  BY <1>1 DEF StoreInv, TypeOK, Blob
<1>3. ASSUME is_new PROVE find_id_slot(message.id) = {} /\ slots[slot].id # message.id
  <2>1. ASSUME NEW s \in Slots, slots[s].id = message.id PROVE FALSE
    <3>1. slots[s].id # 0
      BY <1>1, <2>1 DEF Ids
    <3>2. slots[s] # Empty
      BY <3>1, SlotContents DEF StoreInv
    <3>3. QED
      BY <1>1, <1>3, <2>1, <3>2 DEF StoreInv, CounterInv
  <2>2. QED
    BY <1>1, <2>1 DEF find_id_slot
<1>4. QED
  BY <1>1, <1>2, <1>3

(* A slot is written. *)
LEMMA WrittenInv ==
    ASSUME StoreInv, op = "write", slots' = [slots EXCEPT ![slot] = message],
           issued' = issued \cup {message.id}, UNCHANGED <<next_id, allocations>>
    PROVE  /\ slots' \in [Slots -> Blob \cup {Empty}] /\ issued' \subseteq Ids
           /\ UniqueIds' /\ CounterInv'
<1>1. /\ slot \in Slots /\ message \in Blob /\ message.id \in Ids /\ message.id < next_id
      /\ slots[slot].id = message.id \/ (slots[slot] = Empty /\ find_id_slot(message.id) = {})
  BY WriteTarget
<1>2. /\ slots' \in [Slots -> Blob \cup {Empty}] /\ slots'[slot] = message
      /\ \A t \in Slots \ {slot} : slots'[t] = slots[t]
  BY <1>1 DEF StoreInv, TypeOK
<1>3. issued' \subseteq Ids
  BY <1>1 DEF StoreInv, TypeOK
<1>4. CounterInv'
  BY <1>1, <1>2 DEF StoreInv, CounterInv
<1>5. ASSUME NEW t \in Slots \ {slot} PROVE slots[t].id # message.id
  <2>1. CASE slots[slot].id = message.id
    <3>1. slots[slot] # Empty
      BY <1>1, <2>1, SlotContents DEF StoreInv, Ids
    <3>2. QED
      BY <1>1, <1>5, <2>1, <3>1 DEF StoreInv, UniqueIds
  <2>2. CASE find_id_slot(message.id) = {}
    BY <1>5, <2>2 DEF find_id_slot
  <2>3. QED
    BY <1>1, <2>1, <2>2
<1>6. ASSUME NEW t \in Slots, NEW u \in Slots, slots'[t].id = slots'[u].id, slots'[t] # Empty
      PROVE  t = u
  <2>1. CASE t = slot \/ u = slot
    BY <1>2, <1>5, <1>6, <2>1
  <2>2. CASE t # slot /\ u # slot
    BY <1>2, <1>6, <2>2 DEF StoreInv, UniqueIds
  <2>3. QED
    BY <2>1, <2>2
<1>7. QED
  BY <1>2, <1>3, <1>4, <1>6 DEF UniqueIds

(* write_slot, also when its commit fails. *)
LEMMA WriteStep ==
    ASSUME StoreInv, write_slot
    PROVE  StoreInv'
<1>1. op = "write" /\ Release /\ UNCHANGED <<next_id, replay, crashes, allocations>>
  BY DEF write_slot
<1>2. faults' \in 0..MaxFaults
  BY FaultType DEF write_slot, StoreInv, TypeOK
<1>3. /\ slots' \in [Slots -> Blob \cup {Empty}] /\ issued' \subseteq Ids
      /\ UniqueIds' /\ CounterInv'
  <2>1. CASE slots' = [slots EXCEPT ![slot] = message] /\ issued' = issued \cup {message.id}
    BY <1>1, <2>1, WrittenInv
  <2>2. CASE UNCHANGED <<slots, issued>>
    BY <1>1, <2>2, KeptInv DEF Kept, StoreInv, TypeOK
  <2>3. QED
    BY <2>1, <2>2 DEF write_slot
<1>4. QED
  BY <1>1, <1>2, <1>3, Released DEF StoreInv, TypeOK, replay

(* sms_store_delete finds the slot. *)
LEMMA DeleteStep ==
    ASSUME StoreInv, NEW id \in Ids, sms_store_delete(id)
    PROVE  StoreInv' /\ slots[slot'].id = id
<1>1. /\ Kept /\ UNCHANGED <<replay, message, is_new, faults, crashes>> /\ op' = "delete"
      /\ find_id_slot(id) # {} /\ slot' = FirstSlot(find_id_slot(id))
  BY DEF sms_store_delete, nvs, Kept
<1>2. slot' \in Slots /\ slots[slot'].id = id
  BY <1>1, FirstSlotIn DEF find_id_slot
<1>3. slots[slot'] # Empty
  BY <1>2, SlotContents DEF StoreInv, Ids
<1>4. TypeOK'
  BY <1>1, <1>2 DEF StoreInv, TypeOK, Kept, replay, Ops
<1>5. HolderInv'
  BY <1>1, <1>3 DEF Kept, HolderInv
<1>6. QED
  BY <1>1, <1>2, <1>4, <1>5, KeptInv DEF StoreInv

(* sms_store_delete erases it, or fails. *)
LEMMA DeleteEraseStep ==
    ASSUME StoreInv, delete_erase
    PROVE  StoreInv'
<1>1. /\ op = "delete" /\ Release /\ slot \in Slots
      /\ UNCHANGED <<next_id, replay, crashes, allocations, issued>>
      /\ slots' \in {slots, [slots EXCEPT ![slot] = Empty]}
  BY DEF delete_erase, StoreInv, TypeOK
<1>2. faults' \in 0..MaxFaults
  BY FaultType DEF delete_erase, StoreInv, TypeOK
<1>3. slots' \in [Slots -> Blob \cup {Empty}] /\ UniqueIds' /\ CounterInv'
  <2>1. CASE slots' = slots
    BY <1>1, <2>1, KeptInv DEF Kept, StoreInv, TypeOK
  <2>2. CASE slots' = [slots EXCEPT ![slot] = Empty]
    BY <1>1, <2>2, ErasedInv
  <2>3. QED
    BY <1>1, <2>1, <2>2
<1>4. QED
  BY <1>1, <1>2, <1>3, Released DEF StoreInv, TypeOK, replay

(* sms_store_set_replay_watermark and a reset. *)
LEMMA WatermarkStep ==
    ASSUME StoreInv,
           \/ \E protection \in BOOLEAN, watermark \in 0 .. IdMax :
                 sms_store_set_replay_watermark(protection, watermark)
           \/ Crash
    PROVE  StoreInv'
<1>1. CASE Crash
  <2>1. /\ Kept /\ Release /\ faults' = faults /\ crashes' \in 0..MaxCrashes
        /\ replay_protection' = TRUE /\ replay_watermark' = 0
    BY <1>1, StoreAssumption DEF Crash, nvs, Kept, StoreInv, TypeOK
  <2>2. 0 \in 0..IdMax
    BY RecordsAssumption
  <2>3. QED
    BY <2>1, <2>2, Released, KeptInv DEF StoreInv, TypeOK, Kept
<1>2. ASSUME NEW protection \in BOOLEAN, NEW watermark \in 0 .. IdMax,
             sms_store_set_replay_watermark(protection, watermark)
      PROVE  StoreInv'
  <2>1. /\ op = "idle" /\ Kept /\ UNCHANGED <<op, slot, message, is_new, faults, crashes>>
        /\ replay_protection' = protection /\ replay_watermark' = watermark
    BY <1>2 DEF sms_store_set_replay_watermark, nvs, holder, Kept
  <2>2. TypeOK' /\ HolderInv'
    BY <2>1 DEF StoreInv, TypeOK, Kept, HolderInv
  <2>3. QED
    BY <2>1, <2>2, KeptInv DEF StoreInv
<1>3. QED
  BY <1>1, <1>2

(* A step that changes nothing. *)
LEMMA StutterStep ==
    ASSUME StoreInv, UNCHANGED vars
    PROVE  StoreInv'
  BY DEF StoreInv, vars, nvs, replay, holder, TypeOK, UniqueIds, CounterInv, HolderInv,
     find_empty_slot, find_id_slot, PrunableSlots, find_prunable_slot

(* One step per action. *)
LEMMA StepStoreInv == StoreInv /\ [Next]_vars => StoreInv'
<1> SUFFICES ASSUME StoreInv, [Next]_vars PROVE StoreInv'
  OBVIOUS
<1>1. CASE Next
  BY <1>1, SaveNewStep, SaveExistingStep, EraseStep, AllocateStep, WriteStep, DeleteStep,
     DeleteEraseStep, WatermarkStep DEF Next
<1>2. QED
  BY <1>1, StutterStep

(* The invariant holds in every behaviour. *)
LEMMA StoreInvariant == Spec => []StoreInv
  BY InitStoreInv, StepStoreInv, PTL DEF Spec

-----------------------------------------------------------------------------
(* Type correctness of the store. *)
THEOREM TypeCorrect == Spec => []TypeOK
<1>1. StoreInv => TypeOK
  BY DEF StoreInv
<1>2. QED
  BY <1>1, StoreInvariant, PTL

(* No two slots hold the same id, so sms_store_save and sms_store_delete   *)
(* work on the record they mean.                                           *)
THEOREM IdsUnique == Spec => []UniqueIds
<1>1. StoreInv => UniqueIds
  BY DEF StoreInv
<1>2. QED
  BY <1>1, StoreInvariant, PTL

(* A new record never gets an id that was in use before, whatever fails    *)
(* between allocate_id and write_slot, as long as the counter does not     *)
(* wrap.                                                                   *)
THEOREM IdsFresh == Spec => []FreshIds
<1>1. StoreInv => FreshIds
  BY DEF StoreInv, HolderInv, FreshIds
<1>2. QED
  BY <1>1, StoreInvariant, PTL

(* An id names one record and never another one later (allocate_id,        *)
(* find_id_slot).                                                          *)
THEOREM IdsNameOneRecord == Spec => []IdsNeverReused
  BY IdsUnique, IdsFresh, PTL DEF IdsNeverReused

-----------------------------------------------------------------------------
(* What may happen to a slot whose record is protected. *)
ProtectedStep ==
    \A s \in Slots :
       /\ slots[s] # Empty
       /\ ~record_prunable(slots[s].r, slots[s].id, replay_protection, replay_watermark)
       /\ slots'[s] # slots[s]
       => \/ op = "delete" /\ slot = s
          \/ slots'[s].id = slots[s].id

(* A protected record is never pruned: erase_slot only works on the slot   *)
(* that find_prunable_slot returned under the same mutex, and write_slot   *)
(* only on the slot of the id or on an empty one.                          *)
THEOREM ProtectedSurvive == Spec => ProtectedKept
<1>1. StoreInv /\ [Next]_vars => [ProtectedStep]_vars
  <2> SUFFICES ASSUME StoreInv, Next PROVE ProtectedStep
    OBVIOUS
  <2>1. CASE slots' = slots
    BY <2>1 DEF ProtectedStep
  <2>2. CASE op = "erase" /\ slots' = [slots EXCEPT ![slot] = Empty]
    <3>1. slot \in PrunableSlots
      BY <2>2, PrunableSlotIn DEF StoreInv, HolderInv
    <3>2. record_prunable(slots[slot].r, slots[slot].id, replay_protection, replay_watermark)
      BY <3>1 DEF PrunableSlots
    <3>3. \A s \in Slots : s # slot => slots'[s] = slots[s]
      BY <2>2 DEF StoreInv, TypeOK
    <3>4. QED
      BY <3>2, <3>3 DEF ProtectedStep
  <2>3. CASE op = "write" /\ slots' = [slots EXCEPT ![slot] = message]
    <3>1. slots[slot].id = message.id \/ slots[slot] = Empty
      BY <2>3, WriteTarget
    <3>2. \A s \in Slots : slots'[s] = IF s = slot THEN message ELSE slots[s]
      BY <2>3 DEF StoreInv, TypeOK
    <3>3. QED
      BY <3>1, <3>2 DEF ProtectedStep
  <2>4. CASE op = "delete" /\ slots' = [slots EXCEPT ![slot] = Empty]
    <3>1. \A s \in Slots : s # slot => slots'[s] = slots[s]
      BY <2>4 DEF StoreInv, TypeOK
    <3>2. QED
      BY <2>4, <3>1 DEF ProtectedStep
  <2>5. \/ slots' = slots
        \/ op \in {"erase", "delete"} /\ slots' = [slots EXCEPT ![slot] = Empty]
        \/ op = "write" /\ slots' = [slots EXCEPT ![slot] = message]
    BY DEF Next, save_new, save_existing, erase_slot, allocate_id, write_slot,
       sms_store_delete, delete_erase, sms_store_set_replay_watermark, Crash, nvs
  <2>6. QED
    BY <2>1, <2>2, <2>3, <2>4, <2>5
<1>2. QED
  BY <1>1, StoreInvariant, PTL DEF Spec, ProtectedKept, ProtectedStep

-----------------------------------------------------------------------------
(* The journal that the slots represent has the record of every slot under *)
(* its id, and nothing else.                                               *)
LEMMA JournalAt ==
    ASSUME TypeOK, UniqueIds
    PROVE  /\ \A s \in Slots : slots[s] # Empty => JournalOf[slots[s].id] = slots[s].r
           /\ \A id \in Ids : find_id_slot(id) = {} => JournalOf[id] = NoRecord
           /\ \A id \in Ids : \A s \in find_id_slot(id) : s \in Slots /\ slots[s] # Empty
<1>1. ASSUME NEW id \in Ids, NEW s \in find_id_slot(id)
      PROVE  s \in Slots /\ slots[s] # Empty
  <2>1. s \in Slots /\ slots[s].id = id /\ id # 0
    BY DEF find_id_slot, Ids
  <2>2. QED
    BY <2>1, SlotContents
<1>2. ASSUME NEW id \in Ids, find_id_slot(id) = {}
      PROVE  JournalOf[id] = NoRecord
  BY <1>2 DEF JournalOf
<1>3. ASSUME NEW s \in Slots, slots[s] # Empty
      PROVE  JournalOf[slots[s].id] = slots[s].r
  <2>1. slots[s].id \in Ids
    BY <1>3, SlotContents
  <2>2. s \in find_id_slot(slots[s].id) /\ find_id_slot(slots[s].id) \in SUBSET Slots
    BY DEF find_id_slot
  <2>3. FirstSlot(find_id_slot(slots[s].id)) \in find_id_slot(slots[s].id)
    BY <2>2, FirstSlotIn
  <2>4. FirstSlot(find_id_slot(slots[s].id)) = s
    BY <1>3, <2>3 DEF find_id_slot, UniqueIds
  <2>5. QED
    BY <2>1, <2>2, <2>4 DEF JournalOf
<1>4. QED
  BY <1>1, <1>2, <1>3

(* The ids of the slots are the stored ones. *)
LEMMA StoredIds ==
    ASSUME TypeOK, UniqueIds, NEW id \in Ids
    PROVE  /\ id \in Stored(JournalOf) <=> \E s \in Slots : slots[s].id = id
           /\ id \in Stored(JournalOf) <=> find_id_slot(id) # {}
<1>1. ASSUME NEW s \in Slots, slots[s].id = id PROVE id \in Stored(JournalOf)
  <2>1. slots[s] # Empty
    BY <1>1, SlotContents DEF Ids
  <2>2. JournalOf[id] = slots[s].r /\ slots[s].r \in Records
    BY <1>1, <2>1, JournalAt, SlotContents
  <2>3. QED
    BY <2>2, StoreAssumption DEF Stored
<1>2. ASSUME find_id_slot(id) = {} PROVE id \notin Stored(JournalOf)
  <2>1. JournalOf[id] = NoRecord
    BY <1>2, JournalAt
  <2>2. QED
    BY <2>1 DEF Stored, NoRecord
<1>3. find_id_slot(id) # {} <=> \E s \in Slots : slots[s].id = id
  BY DEF find_id_slot
<1>4. QED
  BY <1>1, <1>2, <1>3

(* The journal is full exactly when no slot is empty. *)
LEMMA FullSlots ==
    ASSUME TypeOK, UniqueIds
    PROVE  Full(JournalOf) <=> find_empty_slot = {}
<1> DEFINE U == Slots \ find_empty_slot
           f == [s \in U |-> slots[s].id]
<1>1. IsFiniteSet(Slots) /\ Cardinality(Slots) = Capacity /\ Capacity \in Nat
  <2>1. 0 \in Int /\ Capacity - 1 \in Int /\ ~(0 > Capacity - 1) /\ Capacity \in Nat
    BY RecordsAssumption
  <2>2. IsFiniteSet(0..(Capacity - 1)) /\ Cardinality(0..(Capacity - 1)) = Capacity - 1 - 0 + 1
    BY <2>1, FS_Interval
  <2>3. QED
    BY <2>1, <2>2 DEF Slots
<1>2. /\ IsFiniteSet(U) /\ Cardinality(U) <= Capacity /\ Cardinality(U) \in Nat
      /\ Cardinality(U) = Capacity => U = Slots
  BY <1>1, FS_Subset, FS_CardinalityType
<1>3. \A s \in U : s \in Slots /\ slots[s] # Empty
  BY DEF find_empty_slot
<1>4. f \in Bijection(U, Stored(JournalOf))
  <2>1. ASSUME NEW s \in U PROVE f[s] \in Stored(JournalOf)
    <3>1. slots[s].id \in Ids
      BY <1>3, SlotContents
    <3>2. QED
      BY <1>3, <3>1, StoredIds
  <2>2. ASSUME NEW s \in U, NEW t \in U, f[s] = f[t] PROVE s = t
    BY <1>3, <2>2 DEF UniqueIds
  <2>3. ASSUME NEW id \in Stored(JournalOf) PROVE \E s \in U : f[s] = id
    <3>1. id \in Ids
      BY DEF Stored
    <3>2. PICK s \in Slots : slots[s].id = id
      BY <3>1, StoredIds
    <3>3. slots[s] # Empty
      BY <3>1, <3>2, SlotContents DEF Ids
    <3>4. QED
      BY <3>2, <3>3 DEF find_empty_slot
  <2>4. f \in [U -> Stored(JournalOf)]
    BY <2>1
  <2>5. DOMAIN f = U
    OBVIOUS
  <2> HIDE DEF f
  <2>6. QED
    BY <2>2, <2>3, <2>4, <2>5 DEF Bijection, Injection, Surjection, IsInjective
<1> HIDE DEF U, f
<1>5. Cardinality(Stored(JournalOf)) = Cardinality(U)
  BY <1>2, <1>4, FS_Bijection DEF ExistsBijection
<1>6. U = Slots <=> find_empty_slot = {}
  BY DEF U, find_empty_slot
<1>7. QED
  BY <1>1, <1>2, <1>5, <1>6 DEF Full

(* The prunable records of the journal are those of the prunable slots,    *)
(* and the oldest of them is in the slot find_prunable_slot returns.       *)
LEMMA PrunableIds ==
    ASSUME TypeOK, UniqueIds, PrunableSlots # {}
    PROVE  LET ids == Prunable(JournalOf, replay_protection, replay_watermark)
           IN  ids # {} /\ Oldest(ids) = slots[find_prunable_slot].id
<1> DEFINE ids == Prunable(JournalOf, replay_protection, replay_watermark)
           old == slots[find_prunable_slot].id
<1>1. ASSUME NEW s \in PrunableSlots PROVE slots[s].id \in ids
  <2>1. s \in Slots /\ slots[s] # Empty /\ slots[s].id < IdMax
        /\ record_prunable(slots[s].r, slots[s].id, replay_protection, replay_watermark)
    BY DEF PrunableSlots
  <2>2. slots[s].id \in Ids /\ JournalOf[slots[s].id] = slots[s].r
    BY <2>1, SlotContents, JournalAt
  <2>3. slots[s].id \in Stored(JournalOf)
    BY <2>1, <2>2, StoredIds
  <2>4. QED
    BY <2>1, <2>2, <2>3 DEF Prunable
<1>2. ASSUME NEW id \in ids PROVE id \in Ids /\ \E s \in PrunableSlots : slots[s].id = id
  <2>1. /\ id \in Stored(JournalOf) /\ id \in Ids /\ id < IdMax
        /\ record_prunable(JournalOf[id], id, replay_protection, replay_watermark)
    BY DEF Prunable, Stored
  <2>2. PICK s \in Slots : slots[s].id = id
    BY <2>1, StoredIds
  <2>3. slots[s] # Empty
    BY <2>1, <2>2, SlotContents DEF Ids
  <2>4. JournalOf[id] = slots[s].r
    BY <2>2, <2>3, JournalAt
  <2>5. s \in PrunableSlots
    BY <2>1, <2>2, <2>3, <2>4 DEF PrunableSlots
  <2>6. QED
    BY <2>1, <2>2, <2>5
<1> HIDE DEF ids
<1>3. /\ find_prunable_slot \in PrunableSlots
      /\ \A k \in PrunableSlots : old <= slots[k].id
  BY PrunableSlotIn
<1>4. old \in ids /\ \A id \in ids : old <= id
  BY <1>1, <1>2, <1>3
<1>5. \A id \in ids : id \in Int
  BY <1>2 DEF Ids
<1> HIDE DEF old
<1>6. Oldest(ids) \in ids /\ \A k \in ids : Oldest(ids) <= k
  BY <1>4 DEF Oldest
<1>7. Oldest(ids) <= old /\ old <= Oldest(ids)
  BY <1>4, <1>6
<1>8. Oldest(ids) = old
  BY <1>4, <1>5, <1>6, <1>7
<1>9. QED
  BY <1>4, <1>8 DEF ids, old

(* Erasing a slot takes its record out of the journal. *)
LEMMA ErasedJournal ==
    ASSUME TypeOK, UniqueIds, TypeOK', UniqueIds',
           NEW s \in Slots, slots[s] # Empty, slots' = [slots EXCEPT ![s] = Empty]
    PROVE  JournalOf' = [JournalOf EXCEPT ![slots[s].id] = NoRecord]
<1> DEFINE gone == slots[s].id
<1>1. gone \in Ids
  BY SlotContents
<1>2. \A t \in Slots : slots'[t] = IF t = s THEN Empty ELSE slots[t]
  BY DEF TypeOK
<1>3. ASSUME NEW id \in Ids
      PROVE  JournalOf'[id] = IF id = gone THEN NoRecord ELSE JournalOf[id]
  <2>1. CASE id = gone
    <3>1. \A t \in Slots : slots'[t].id # id
      BY <1>1, <1>2, <2>1 DEF UniqueIds, Empty, Ids
    <3>2. find_id_slot(id)' = {}
      BY <3>1 DEF find_id_slot
    <3>3. QED
      BY <2>1, <3>2 DEF JournalOf
  <2>2. CASE id # gone
    <3>1. find_id_slot(id)' = find_id_slot(id) /\ s \notin find_id_slot(id)
      BY <1>2, <2>2 DEF find_id_slot, Empty, Ids
    <3>2. CASE find_id_slot(id) = {}
      BY <2>2, <3>1, <3>2 DEF JournalOf
    <3>3. CASE find_id_slot(id) # {}
      <4>1. FirstSlot(find_id_slot(id)) \in Slots \ {s}
        BY <3>1, <3>3, FirstSlotIn DEF find_id_slot
      <4>2. QED
        BY <1>2, <2>2, <3>1, <3>3, <4>1 DEF JournalOf
    <3>4. QED
      BY <3>2, <3>3
  <2>3. QED
    BY <2>1, <2>2
<1>4. JournalOf = [id \in Ids |-> JournalOf[id]] /\ JournalOf' = [id \in Ids |-> JournalOf'[id]]
  BY DEF JournalOf
<1> HIDE DEF gone
<1>5. JournalOf' = [JournalOf EXCEPT ![gone] = NoRecord]
  BY <1>1, <1>3, <1>4
<1>6. QED
  BY <1>5 DEF gone

(* Writing a slot puts the message into the journal. *)
LEMMA WrittenJournal ==
    ASSUME TypeOK, UniqueIds, TypeOK', UniqueIds',
           slot \in Slots, message.id \in Ids, message # Empty,
           \/ slots[slot].id = message.id
           \/ slots[slot] = Empty /\ find_id_slot(message.id) = {},
           slots' = [slots EXCEPT ![slot] = message]
    PROVE  JournalOf' = [JournalOf EXCEPT ![message.id] = message.r]
<1>1. \A t \in Slots : slots'[t] = IF t = slot THEN message ELSE slots[t]
  BY DEF TypeOK
<1>2. ASSUME NEW id \in Ids
      PROVE  JournalOf'[id] = IF id = message.id THEN message.r ELSE JournalOf[id]
  <2>1. CASE id = message.id
    <3>1. slot \in find_id_slot(id)' /\ find_id_slot(id)' \in SUBSET Slots
      BY <1>1, <2>1 DEF find_id_slot
    <3>2. FirstSlot(find_id_slot(id)') \in find_id_slot(id)'
      BY <3>1, FirstSlotIn
    <3>3. FirstSlot(find_id_slot(id)') = slot
      BY <1>1, <2>1, <3>1, <3>2 DEF find_id_slot, UniqueIds
    <3>4. QED
      BY <1>1, <2>1, <3>1, <3>3 DEF JournalOf
  <2>2. CASE id # message.id
    <3>1. find_id_slot(id)' = find_id_slot(id) /\ slot \notin find_id_slot(id)
      BY <1>1, <2>2 DEF find_id_slot, Empty, Ids
    <3>2. CASE find_id_slot(id) = {}
      BY <2>2, <3>1, <3>2 DEF JournalOf
    <3>3. CASE find_id_slot(id) # {}
      <4>1. FirstSlot(find_id_slot(id)) \in Slots \ {slot}
        BY <3>1, <3>3, FirstSlotIn DEF find_id_slot
      <4>2. QED
        BY <1>1, <2>2, <3>1, <3>3, <4>1 DEF JournalOf
    <3>4. QED
      BY <3>2, <3>3
  <2>3. QED
    BY <2>1, <2>2
<1>3. JournalOf = [id \in Ids |-> JournalOf[id]] /\ JournalOf' = [id \in Ids |-> JournalOf'[id]]
  BY DEF JournalOf
<1>4. QED
  BY <1>2, <1>3

-----------------------------------------------------------------------------
(* The vocabulary of the journal is that of the store. *)
LEMMA JournalWords ==
    ASSUME NEW j
    PROVE  /\ Journal!Ids = Ids /\ Journal!NoRecord = NoRecord
           /\ Journal!Stored(j) = Stored(j) /\ (Journal!Full(j) <=> Full(j))
           /\ \A p, w : Journal!Prunable(j, p, w) = Prunable(j, p, w)
           /\ \A S : Journal!Oldest(S) = Oldest(S)
<1>1. Journal!Ids = Ids /\ Journal!NoRecord = NoRecord
  BY DEF Journal!Ids, Ids, Journal!NoRecord, NoRecord
<1>2. Journal!Stored(j) = Stored(j)
  BY <1>1 DEF Journal!Stored, Stored
<1>3. Journal!Full(j) <=> Full(j)
  <2>1. \A S : Journal!Cardinality(S) = Cardinality(S)
    BY Zenon DEF Journal!Cardinality, Cardinality
  <2>2. QED
    BY <1>2, <2>1 DEF Journal!Full, Full
<1>4. ASSUME NEW p, NEW w PROVE Journal!Prunable(j, p, w) = Prunable(j, p, w)
  BY <1>2 DEF Journal!Prunable, Prunable, Journal!record_prunable, record_prunable
<1>5. ASSUME NEW S PROVE Journal!Oldest(S) = Oldest(S)
  BY DEF Journal!Oldest, Oldest
<1>6. QED
  BY <1>1, <1>2, <1>3, <1>4, <1>5

(* Empty slots are an empty journal. *)
LEMMA InitJournal == Init => Journal!Init
<1> SUFFICES ASSUME Init PROVE Journal!Init
  OBVIOUS
<1>1. \A id \in Ids : find_id_slot(id) = {}
  BY DEF Init, find_id_slot, Empty, Ids
<1>2. JournalOf = [id \in Ids |-> NoRecord]
  BY <1>1 DEF JournalOf
<1>3. Deleting = 0
  BY DEF Init, Deleting
<1>4. QED
  BY <1>2, <1>3, JournalWords DEF Init, Journal!Init

(* What the journal does not see. *)
LEMMA Invisible ==
    ASSUME UNCHANGED <<slots, issued, replay_protection, replay_watermark>>,
           op # "delete", op' # "delete"
    PROVE  UNCHANGED Journal!vars
<1>1. JournalOf' = JournalOf
  BY DEF JournalOf, find_id_slot
<1>2. Deleting' = Deleting
  BY DEF Deleting
<1>3. QED
  BY <1>1, <1>2 DEF Journal!vars

(* erase_slot is the eviction of the oldest prunable record. *)
LEMMA EraseEvicts ==
    ASSUME StoreInv, StoreInv', erase_slot, slots' # slots
    PROVE  Journal!Evict
<1>1. /\ op = "erase" /\ slots' = [slots EXCEPT ![slot] = Empty] /\ op' # "delete"
      /\ UNCHANGED <<issued, replay_protection, replay_watermark>>
  BY DEF erase_slot, Release, replay
<1>2. /\ find_empty_slot = {} /\ PrunableSlots # {} /\ slot = find_prunable_slot
      /\ TypeOK /\ UniqueIds /\ TypeOK' /\ UniqueIds'
  BY <1>1 DEF StoreInv, HolderInv
<1>3. slot \in Slots /\ slots[slot] # Empty
  BY <1>2, PrunableSlotIn DEF PrunableSlots
<1>4. JournalOf' = [JournalOf EXCEPT ![slots[slot].id] = NoRecord]
  BY <1>1, <1>2, <1>3, ErasedJournal
<1>5. Full(JournalOf)
  BY <1>2, FullSlots
<1>6. /\ Prunable(JournalOf, replay_protection, replay_watermark) # {}
      /\ Oldest(Prunable(JournalOf, replay_protection, replay_watermark)) = slots[slot].id
  BY <1>2, PrunableIds
<1>7. Deleting = 0 /\ Deleting' = 0
  BY <1>1 DEF Deleting
<1>8. QED
  BY <1>1, <1>4, <1>5, <1>6, <1>7, JournalWords DEF Journal!Evict, Journal!MakeRoom

(* write_slot inserts a new record or replaces one. *)
LEMMA WriteChanges ==
    ASSUME StoreInv, StoreInv', op = "write", op' = "idle",
           slots' = [slots EXCEPT ![slot] = message], issued' = issued \cup {message.id},
           UNCHANGED <<replay_protection, replay_watermark>>
    PROVE  \E id \in Ids, r \in Records : Journal!Insert(id, r) \/ Journal!Replace(id, r)
<1>1. TypeOK /\ UniqueIds /\ TypeOK' /\ UniqueIds'
  BY DEF StoreInv
<1>2. /\ slot \in Slots /\ message \in Blob /\ message.id \in Ids
      /\ slots[slot].id = message.id \/ (slots[slot] = Empty /\ find_id_slot(message.id) = {})
  BY WriteTarget
<1>3. message.r \in Records /\ message # Empty
  BY <1>2 DEF Blob, Empty, Ids
<1>4. JournalOf' = [JournalOf EXCEPT ![message.id] = message.r]
  BY <1>1, <1>2, <1>3, WrittenJournal
<1>5. Deleting = 0 /\ Deleting' = 0
  BY DEF Deleting
<1>6. slots[slot] = Empty => ~Full(JournalOf)
  BY <1>1, <1>2, FullSlots DEF find_empty_slot
<1>7. slots[slot].id = message.id => message.id \in Stored(JournalOf)
  BY <1>1, <1>2, StoredIds
<1>8. CASE is_new
  <2>1. message.id \notin issued /\ slots[slot] = Empty
    BY <1>8 DEF StoreInv, HolderInv
  <2>2. Journal!Insert(message.id, message.r)
    BY <1>4, <1>5, <1>6, <2>1, JournalWords DEF Journal!Insert
  <2>3. QED
    BY <1>2, <1>3, <2>2
<1>9. CASE ~is_new
  <2>1. message.id \in issued /\ issued' = issued
    BY <1>9 DEF StoreInv, HolderInv
  <2>2. message.id \in Stored(JournalOf) \/ ~Full(JournalOf)
    BY <1>2, <1>6, <1>7
  <2>3. Journal!Replace(message.id, message.r)
    BY <1>4, <1>5, <2>1, <2>2, JournalWords DEF Journal!Replace
  <2>4. QED
    BY <1>2, <1>3, <2>3
<1>10. QED
  BY <1>8, <1>9

(* delete_erase does what sms_store_delete announced, or gives it up. *)
LEMMA DeleteDeletes ==
    ASSUME StoreInv, StoreInv', delete_erase
    PROVE  \E done \in BOOLEAN : Journal!Delete(done)
<1>1. /\ op = "delete" /\ op' = "idle" /\ slots' \in {slots, [slots EXCEPT ![slot] = Empty]}
      /\ UNCHANGED <<issued, replay_protection, replay_watermark>>
  BY DEF delete_erase, Release, replay
<1>2. TypeOK /\ UniqueIds /\ TypeOK' /\ UniqueIds' /\ slot \in Slots /\ slots[slot] # Empty
  BY <1>1 DEF StoreInv, HolderInv, TypeOK
<1>3. Deleting = slots[slot].id /\ Deleting # 0 /\ Deleting' = 0
  BY <1>1, <1>2, SlotContents DEF Deleting
<1>4. CASE slots' = slots
  <2>1. JournalOf' = JournalOf
    BY <1>4 DEF JournalOf, find_id_slot
  <2>2. Journal!Delete(FALSE)
    BY <1>1, <1>3, <2>1 DEF Journal!Delete
  <2>3. QED
    BY <2>2
<1>5. CASE slots' = [slots EXCEPT ![slot] = Empty]
  <2>1. JournalOf' = [JournalOf EXCEPT ![slots[slot].id] = NoRecord]
    BY <1>2, <1>5, ErasedJournal
  <2>2. Journal!Delete(TRUE)
    BY <1>1, <1>3, <2>1, JournalWords DEF Journal!Delete
  <2>3. QED
    BY <2>2
<1>6. QED
  BY <1>1, <1>4, <1>5

(* Every step of the store is a step of the journal or invisible in it. *)
LEMMA StepJournal == StoreInv /\ StoreInv' /\ [Next]_vars => [Journal!Next]_(Journal!vars)
<1> SUFFICES ASSUME StoreInv, StoreInv', [Next]_vars PROVE [Journal!Next]_(Journal!vars)
  OBVIOUS
<1>1. ASSUME NEW r \in Records, save_new(r) PROVE UNCHANGED Journal!vars
  BY <1>1, Invisible DEF save_new, nvs, replay
<1>2. ASSUME NEW id \in Ids, NEW r \in Records, save_existing(id, r)
      PROVE  UNCHANGED Journal!vars
  BY <1>2, Invisible DEF save_existing, nvs, replay
<1>3. CASE erase_slot
  <2>1. CASE slots' = slots
    BY <1>3, <2>1, Invisible DEF erase_slot, Release, replay
  <2>2. CASE slots' # slots
    BY <1>3, <2>2, EraseEvicts DEF Journal!Next
  <2>3. QED
    BY <2>1, <2>2
<1>4. CASE allocate_id
  BY <1>4, Invisible DEF allocate_id, Release, replay
<1>5. CASE write_slot
  <2>1. CASE UNCHANGED <<slots, issued>>
    BY <1>5, <2>1, Invisible DEF write_slot, Release, replay
  <2>2. CASE slots' = [slots EXCEPT ![slot] = message] /\ issued' = issued \cup {message.id}
    <3>1. \E id \in Ids, r \in Records : Journal!Insert(id, r) \/ Journal!Replace(id, r)
      BY <1>5, <2>2, WriteChanges DEF write_slot, Release, replay
    <3>2. QED
      BY <3>1, JournalWords DEF Journal!Next
  <2>3. QED
    BY <1>5, <2>1, <2>2 DEF write_slot
<1>6. ASSUME NEW id \in Ids, sms_store_delete(id) PROVE Journal!Next
  <2>1. /\ op = "idle" /\ op' = "delete" /\ slots' = slots /\ find_id_slot(id) # {}
        /\ UNCHANGED <<issued, replay_protection, replay_watermark>>
    BY <1>6 DEF sms_store_delete, nvs, replay
  <2>2. slots[slot'].id = id
    BY <1>6, DeleteStep
  <2>3. Deleting = 0 /\ Deleting' = id /\ JournalOf' = JournalOf
    BY <2>1, <2>2 DEF Deleting, JournalOf, find_id_slot
  <2>4. id \in Stored(JournalOf)
    BY <2>1, StoredIds DEF StoreInv
  <2>5. Journal!AskDelete(id)
    BY <2>1, <2>3, <2>4, JournalWords DEF Journal!AskDelete
  <2>6. QED
    BY <2>5, JournalWords DEF Journal!Next
<1>7. CASE delete_erase
  BY <1>7, DeleteDeletes DEF Journal!Next
<1>8. ASSUME NEW protection \in BOOLEAN, NEW watermark \in 0 .. IdMax,
             sms_store_set_replay_watermark(protection, watermark)
      PROVE  Journal!Next
  <2>1. /\ op = "idle" /\ op' = "idle" /\ slots' = slots /\ issued' = issued
        /\ replay_protection' = protection /\ replay_watermark' = watermark
    BY <1>8 DEF sms_store_set_replay_watermark, nvs, holder
  <2>2. Deleting = 0 /\ Deleting' = 0 /\ JournalOf' = JournalOf
    BY <2>1 DEF Deleting, JournalOf, find_id_slot
  <2>3. Journal!SetWatermark(protection, watermark)
    BY <2>1, <2>2 DEF Journal!SetWatermark
  <2>4. QED
    BY <2>3 DEF Journal!Next
<1>9. CASE Crash
  <2>1. /\ op' = "idle" /\ slots' = slots /\ issued' = issued
        /\ replay_protection' = TRUE /\ replay_watermark' = 0
    BY <1>9 DEF Crash, Release, nvs
  <2>2. Deleting' = 0 /\ JournalOf' = JournalOf
    BY <2>1 DEF Deleting, JournalOf, find_id_slot
  <2>3. Journal!Restart
    BY <2>1, <2>2 DEF Journal!Restart
  <2>4. QED
    BY <2>3 DEF Journal!Next
<1>10. CASE UNCHANGED vars
  <2>1. JournalOf' = JournalOf /\ Deleting' = Deleting
    BY <1>10 DEF vars, nvs, holder, JournalOf, find_id_slot, Deleting
  <2>2. QED
    BY <1>10, <2>1 DEF vars, replay, Journal!vars
<1>11. QED
  BY <1>1, <1>2, <1>3, <1>4, <1>5, <1>6, <1>7, <1>8, <1>9, <1>10 DEF Next

(* The slots implement the journal: pruning takes the oldest prunable      *)
(* record of a full store, an update or a deletion touches no other        *)
(* record, and resets and failures between the NVS calls of sms_store_save *)
(* and sms_store_delete are invisible, but for the watermark.              *)
THEOREM ImplementsJournal == Spec => JournalSpec
  BY InitJournal, StepJournal, StoreInvariant, PTL DEF Spec, JournalSpec, Journal!Spec
=============================================================================
