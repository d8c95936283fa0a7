-------------------------- MODULE IdempotencyProofs ---------------------------
(***************************************************************************)
(* Proofs about Idempotency for any number of keys, requests and records,  *)
(* and any bound on messages, faults, clear-pendings and resets.           *)
(***************************************************************************)
EXTENDS Idempotency, FiniteSetTheorems, TLAPS

(* What find and evict loops compute: a least element exists. *)
LEMMA LeastNatural ==
    ASSUME NEW S \in SUBSET Nat, S # {}
    PROVE  \E x \in S : \A y \in S : x <= y
<1>1. \E x \in S : \A y \in S : ~(<<y, x>> \in OpToRel(<, Nat))
  BY NatLessThanWellFounded, WFMin
<1>2. PICK x \in S : \A y \in S : ~(<<y, x>> \in OpToRel(<, Nat))
  BY <1>1
<1>3. \A y \in S : ~(y < x)
  BY <1>2 DEF OpToRel
<1>4. x \in Nat /\ \A y \in S : y \in Nat /\ x <= y
  BY <1>3
<1>5. QED
  BY <1>4

(* The first slot of a set of slots. *)
LEMMA FirstIn ==
    ASSUME NEW S \in SUBSET Slots, S # {}
    PROVE  First(S) \in S
<1>1. S \in SUBSET Nat
  BY IdempotencyAssumption DEF Slots
<1>2. \E s \in S : \A u \in S : s <= u
  BY <1>1, LeastNatural
<1>3. QED
  BY <1>2 DEF First

-----------------------------------------------------------------------------
RecordType == [sequence : Nat \ {0}, key : Keys, request : Requests, message_id : Nat]

(* The ledger: a key is in it once, and its sequence numbers are bounded.  *)
LedgerInv ==
    /\ ledger \in [Slots -> {Free} \cup RecordType]
    /\ \E b \in Nat : \A s \in Used : ledger[s].sequence <= b
    /\ \A s, u \in Used : ledger[s].key = ledger[u].key => s = u

(* The tasks, and what they will record. *)
TaskInv ==
    /\ pc \in [Tasks -> {"idle", "send", "finalize", "release"}]
    /\ work \in [Tasks -> {NoWork} \cup RecordType]
    /\ \A t \in Tasks : pc[t] # "idle" => work[t] \in RecordType
    /\ attempt \in [Tasks -> 0 .. Attempts - 1]
    /\ messages \in Seq([key : Keys, request : Requests])
    /\ allowance \in [Keys -> Nat]

(* An id stands for a message with this key and this request. *)
Names(id, key, request) ==
    id \in 1 .. Len(messages) /\ messages[id] = [key |-> key, request |-> request]

TruthInv ==
    /\ \A s \in Finalized : Names(ledger[s].message_id, ledger[s].key, ledger[s].request)
    /\ \A t \in Tasks : pc[t] = "finalize" =>
         Names(work[t].message_id, work[t].key, work[t].request)
    /\ \A a \in answers : Names(a.id, a.key, a.request)

(* The messages a key has queued, those its requests under way may still   *)
(* queue (or, once they failed, may let a repetition queue), and the one   *)
(* that a new claim would queue when the ledger does not know the key, are *)
(* no more than the key's allowance.                                       *)
Open(t, k) == IF pc[t] \in {"send", "release"} /\ work[t].key = k THEN 1 ELSE 0
Missing(k) == IF SlotOf(k) = {} THEN 1 ELSE 0

Balanced(k) ==
    Cardinality(QueuedFor(k)) + Open("http", k) + Open("mqtt", k) + Missing(k)
      <= 1 + allowance[k]

LedgerTaskInv == LedgerInv /\ TaskInv
IdemInv == LedgerTaskInv /\ TruthInv /\ \A k \in Keys : Balanced(k)

-----------------------------------------------------------------------------
(* What is said of the messages stays true while ledger and tasks say no   *)
(* more than before.                                                       *)
LEMMA TruthKept ==
    ASSUME TruthInv, answers' = answers,
           \A id, key, request : Names(id, key, request) => Names(id, key, request)',
           \A s \in Finalized' : s \in Finalized /\ ledger'[s] = ledger[s],
           \A u \in Tasks : pc'[u] = "finalize" => pc[u] = "finalize" /\ work'[u] = work[u]
    PROVE  TruthInv'
<1>1. ASSUME NEW s \in Finalized'
      PROVE  Names(ledger[s].message_id, ledger[s].key, ledger[s].request)'
  <2>1. s \in Finalized /\ ledger'[s] = ledger[s]
    BY <1>1
  <2>2. Names(ledger[s].message_id, ledger[s].key, ledger[s].request)
    BY <2>1 DEF TruthInv
  <2>3. QED
    BY <2>1, <2>2 DEF Names
<1>2. ASSUME NEW u \in Tasks, pc'[u] = "finalize"
      PROVE  Names(work[u].message_id, work[u].key, work[u].request)'
  <2>1. pc[u] = "finalize" /\ work'[u] = work[u]
    BY <1>2
  <2>2. Names(work[u].message_id, work[u].key, work[u].request)
    BY <2>1 DEF TruthInv
  <2>3. QED
    BY <2>1, <2>2 DEF Names
<1>3. \A a \in answers' : Names(a.id, a.key, a.request)'
  BY DEF TruthInv
<1>4. QED
  BY <1>1, <1>2, <1>3 DEF TruthInv

(* No message is named otherwise while none is queued. *)
LEMMA SameNames ==
    ASSUME messages' = messages
    PROVE  \A id, key, request : Names(id, key, request) => Names(id, key, request)'
  BY DEF Names

(* MaxSequence is an upper bound, so the new record's number is positive.  *)
LEMMA MaxSequenceBounds ==
    ASSUME LedgerInv
    PROVE  MaxSequence \in Nat /\ \A s \in Used : ledger[s].sequence <= MaxSequence
<1>1. CASE Used = {}
  BY <1>1 DEF MaxSequence
<1>2. CASE Used # {}
  <2> DEFINE S == {ledger[s].sequence : s \in Used}
             U == {n \in Nat : \A s \in Used : ledger[s].sequence <= n}
  <2>1. S \subseteq Nat /\ S # {} /\ U # {} /\ U \in SUBSET Nat
    BY <1>2 DEF LedgerInv, RecordType, Used
  <2>2. PICK n \in U : \A m \in U : n <= m
    BY <2>1, LeastNatural
  <2>3. n \in S
    <3> SUFFICES ASSUME n \notin S PROVE FALSE
      OBVIOUS
    <3>1. ASSUME NEW s \in Used
          PROVE  ledger[s].sequence \in Nat /\ ledger[s].sequence < n
      <4>1. ledger[s].sequence \in S
        OBVIOUS
      <4>2. ledger[s].sequence \in Nat /\ ledger[s].sequence <= n /\ n \in Nat
        BY <2>1, <4>1
      <4>3. ledger[s].sequence # n
        BY <4>1
      <4>4. QED
        BY <4>2, <4>3
    <3>2. n \in Nat /\ n # 0
      BY <1>2, <2>2, <3>1
    <3>3. n - 1 \in U
      BY <3>1, <3>2
    <3>4. QED
      BY <2>2, <3>2, <3>3
  <2>4. \E m \in S : \A s \in Used : ledger[s].sequence <= m
    BY <2>2, <2>3
  <2>5. MaxSequence \in S /\ \A s \in Used : ledger[s].sequence <= MaxSequence
    BY <1>2, <2>4 DEF MaxSequence
  <2>6. QED
    BY <2>1, <2>5
<1>3. QED
  BY <1>1, <1>2

(* The claim takes one of the slots it may take. *)
LEMMA ClaimSlotIn ==
    ASSUME LedgerInv, Claimable # {}
    PROVE  ClaimSlot \in Claimable /\ ClaimSlot \in Slots
<1>1. Claimable \in SUBSET Slots
  BY DEF Claimable, Finalized, Used
<1>2. CASE Used # Slots
  BY <1>1, <1>2, FirstIn DEF ClaimSlot
<1>3. CASE Used = Slots
  <2> DEFINE S == {ledger[s].sequence : s \in Claimable}
             C == {s \in Claimable : \A u \in Claimable : ledger[s].sequence <= ledger[u].sequence}
  <2>1. S \in SUBSET Nat /\ S # {}
    BY <1>1, <1>3 DEF LedgerInv, RecordType, Used
  <2>2. PICK n \in S : \A m \in S : n <= m
    BY <2>1, LeastNatural
  <2>3. C # {} /\ C \in SUBSET Slots
    BY <1>1, <2>2
  <2>4. ClaimSlot = First(C)
    BY <1>3 DEF ClaimSlot
  <2>5. First(C) \in C
    BY <2>3, FirstIn
  <2>6. QED
    BY <1>1, <2>4, <2>5
<1>4. QED
  BY <1>2, <1>3

-----------------------------------------------------------------------------
(* gateway_idempotency_claim reserves the key in one slot.                 *)
LEMMA ClaimedLedger ==
    ASSUME LedgerInv, Claimable # {},
           NEW key \in Keys, NEW request \in Requests, SlotOf(key) = {},
           ledger' = [ledger EXCEPT ![ClaimSlot] = Record(MaxSequence + 1, key, request, 0)]
    PROVE  /\ LedgerInv'
           /\ Record(MaxSequence + 1, key, request, 0) \in RecordType
           /\ Used' = Used \cup {ClaimSlot}
           /\ Finalized' = Finalized \ {ClaimSlot}
           /\ \A s \in Used \ {ClaimSlot} : ledger'[s] = ledger[s]
           /\ ledger'[ClaimSlot].key = key
<1> DEFINE c == ClaimSlot
           r == Record(MaxSequence + 1, key, request, 0)
<1>1. c \in Slots
  BY ClaimSlotIn
<1>2. MaxSequence \in Nat /\ \A s \in Used : ledger[s].sequence <= MaxSequence
  BY MaxSequenceBounds
<1>3. /\ r \in RecordType /\ r.key = key /\ r.message_id = 0
      /\ r.sequence = MaxSequence + 1
  BY <1>2 DEF Record, RecordType
<1> HIDE DEF c, r
<1>4. r # Free
  BY <1>2, <1>3 DEF Free, RecordType
<1>5. ledger' \in [Slots -> {Free} \cup RecordType]
  BY <1>1, <1>3 DEF LedgerInv, r, c
<1>6. ledger'[c] = r /\ \A s \in Slots \ {c} : ledger'[s] = ledger[s]
  BY <1>1 DEF LedgerInv, r, c
<1>7. Used' = Used \cup {c}
  BY <1>1, <1>4, <1>6 DEF Used
<1>8. Finalized' = Finalized \ {c}
  BY <1>1, <1>3, <1>6, <1>7 DEF Finalized, Used
<1>9. \A s \in Used' : ledger'[s].sequence <= MaxSequence + 1
  <2> SUFFICES ASSUME NEW s \in Used' PROVE ledger'[s].sequence <= MaxSequence + 1
    OBVIOUS
  <2>1. CASE s = c
    BY <1>2, <1>3, <1>6, <2>1
  <2>2. CASE s # c
    <3>1. s \in Used /\ ledger'[s] = ledger[s] /\ ledger[s].sequence \in Nat
      BY <1>6, <1>7, <2>2 DEF Used, LedgerInv, RecordType
    <3>2. QED
      BY <1>2, <3>1
  <2>3. QED
    BY <2>1, <2>2
<1>10. \A s \in Used : ledger[s].key # key
  BY DEF SlotOf
<1>11. \A s, u \in Used' : ledger'[s].key = ledger'[u].key => s = u
  BY <1>3, <1>6, <1>7, <1>10 DEF LedgerInv, Used
<1>12. MaxSequence + 1 \in Nat
  BY <1>2
<1>13. LedgerInv'
  BY <1>5, <1>9, <1>11, <1>12 DEF LedgerInv
<1>14. \A s \in Used \ {c} : ledger'[s] = ledger[s]
  BY <1>6 DEF Used
<1>15. QED
  BY <1>3, <1>6, <1>7, <1>8, <1>13, <1>14 DEF c, r

(* A slot that loses its record adds to the allowance of its key, so a key *)
(* that goes missing has one more.                                         *)
LEMMA ForgetAllows ==
    ASSUME TaskInv, NEW S \in SUBSET Used, Forget(S), NEW k \in Keys
    PROVE  /\ allowance' \in [Keys -> Nat]
           /\ allowance'[k] >= allowance[k]
           /\ (\E s \in S : ledger[s].key = k) => allowance'[k] >= allowance[k] + 1
<1>1. S \subseteq 0 .. Records - 1 /\ IsFiniteSet(0 .. Records - 1)
  BY IdempotencyAssumption, FS_Interval DEF Used, Slots
<1>2. ASSUME NEW j \in Keys
      PROVE  Cardinality({s \in S : ledger[s].key = j}) \in Nat
             /\ ((\E s \in S : ledger[s].key = j) =>
                   Cardinality({s \in S : ledger[s].key = j}) >= 1)
  <2> DEFINE T == {s \in S : ledger[s].key = j}
  <2>1. T \in SUBSET (0 .. Records - 1)
    BY <1>1
  <2>2. IsFiniteSet(T)
    BY <1>1, <2>1, FS_Subset
  <2>3. Cardinality(T) \in Nat
    BY <2>2, FS_CardinalityType
  <2>4. Cardinality(T) = 0 <=> T = {}
    BY <2>2, FS_EmptySet
  <2>5. QED
    BY <2>3, <2>4
<1>3. allowance' = [j \in Keys |-> allowance[j] + Cardinality({s \in S : ledger[s].key = j})]
  BY DEF Forget
<1>4. allowance \in [Keys -> Nat]
  BY DEF TaskInv
<1>5. QED
  BY <1>2, <1>3, <1>4

-----------------------------------------------------------------------------
(* The numbers that make up a balance. *)
LEMMA CountTypes ==
    ASSUME TaskInv, NEW k \in Keys
    PROVE  /\ IsFiniteSet(QueuedFor(k)) /\ Cardinality(QueuedFor(k)) \in Nat
           /\ allowance[k] \in Nat
           /\ Missing(k) \in 0 .. 1 /\ \A t \in Tasks : Open(t, k) \in 0 .. 1
<1>1. QueuedFor(k) \in SUBSET (1 .. Len(messages)) /\ Len(messages) \in Nat
  BY DEF QueuedFor, TaskInv
<1>2. IsFiniteSet(1 .. Len(messages))
  BY <1>1, FS_Interval
<1>3. IsFiniteSet(QueuedFor(k))
  BY <1>1, <1>2, FS_Subset
<1>4. Cardinality(QueuedFor(k)) \in Nat
  BY <1>3, FS_CardinalityType
<1>5. QED
  BY <1>3, <1>4 DEF TaskInv, Missing, Open

(* A balance stays when no part of it grows but the allowance. *)
LEMMA BalanceKept ==
    ASSUME TaskInv, TaskInv', NEW k \in Keys, Balanced(k),
           messages' = messages, allowance'[k] >= allowance[k],
           \A t \in Tasks : Open(t, k)' <= Open(t, k), Missing(k)' <= Missing(k)
    PROVE  Balanced(k)'
<1>1. Cardinality(QueuedFor(k))' = Cardinality(QueuedFor(k))
  BY DEF QueuedFor
<1>2. /\ Cardinality(QueuedFor(k)) \in Nat /\ allowance[k] \in Nat
      /\ Missing(k) \in 0 .. 1 /\ Open("http", k) \in 0 .. 1 /\ Open("mqtt", k) \in 0 .. 1
  BY CountTypes DEF Tasks
<1>3. /\ allowance'[k] \in Nat
      /\ Missing(k)' \in 0 .. 1 /\ Open("http", k)' \in 0 .. 1 /\ Open("mqtt", k)' \in 0 .. 1
  BY DEF TaskInv, Missing, Open
<1>4. Open("http", k)' <= Open("http", k) /\ Open("mqtt", k)' <= Open("mqtt", k)
  BY DEF Tasks
<1> HIDE DEF Open, Missing
<1>5. QED
  BY <1>1, <1>2, <1>3, <1>4 DEF Balanced

(* A repeated request that finds its key. *)
LEMMA ClaimKnownStep ==
    ASSUME IdemInv, NEW t \in Tasks, NEW key \in Keys, NEW request \in Requests,
           claim_known(t, key, request)
    PROVE  IdemInv'
<1> DEFINE s == First(SlotOf(key))
<1>1. s \in SlotOf(key)
  BY FirstIn DEF claim_known, SlotOf, Used
<1>2. s \in Finalized /\ ledger[s].key = key /\ ledger[s].request = request
  BY <1>1 DEF claim_known, SlotOf, Finalized
<1>3. Names(ledger[s].message_id, key, request)
  BY <1>2 DEF IdemInv, TruthInv
<1> HIDE DEF s
<1>4. /\ answers' = answers \cup {[key |-> key, request |-> request, id |-> ledger[s].message_id]}
      /\ UNCHANGED <<ledger, pc, work, attempt, messages, allowance>>
  BY DEF claim_known, tasks, s
<1>5. LedgerTaskInv'
  BY <1>4 DEF IdemInv, LedgerTaskInv, LedgerInv, TaskInv, Used
<1>6. TruthInv'
  BY <1>3, <1>4 DEF IdemInv, TruthInv, Names, Finalized, Used
<1>7. \A k \in Keys : Balanced(k)'
  BY <1>4 DEF IdemInv, Balanced, QueuedFor, Open, Missing, SlotOf, Used
<1>8. QED
  BY <1>5, <1>6, <1>7 DEF IdemInv

(* A new key, reserved for the task or left behind by a failing commit.    *)
LEMMA ClaimNewStep ==
    ASSUME IdemInv, NEW t \in Tasks, NEW key \in Keys, NEW request \in Requests,
           claim_new(t, key, request)
    PROVE  IdemInv'
<1> DEFINE c == ClaimSlot
           r == Record(MaxSequence + 1, key, request, 0)
<1>0. LedgerInv /\ TaskInv /\ TruthInv /\ \A k \in Keys : Balanced(k)
  BY DEF IdemInv, LedgerTaskInv
<1>1. /\ SlotOf(key) = {} /\ Claimable # {} /\ pc[t] = "idle"
      /\ ledger' = [ledger EXCEPT ![c] = r] /\ Forget({c} \cap Used)
      /\ UNCHANGED <<attempt, messages, answers>>
  BY DEF claim_new
<1>2. \/ pc' = [pc EXCEPT ![t] = "send"] /\ work' = [work EXCEPT ![t] = r]
      \/ pc' = pc /\ work' = work
  BY DEF claim_new, Become
<1>3. /\ LedgerInv' /\ r \in RecordType /\ r.key = key
      /\ Used' = Used \cup {c} /\ Finalized' = Finalized \ {c}
      /\ \A s \in Used \ {c} : ledger'[s] = ledger[s]
      /\ ledger'[c].key = key
  <2>1. r.key = key
    BY DEF Record
  <2>2. QED
    BY <1>0, <1>1, <2>1, ClaimedLedger
<1> HIDE DEF c, r
<1>4. \A k \in Keys : /\ allowance' \in [Keys -> Nat]
                      /\ allowance'[k] >= allowance[k]
                      /\ (\E s \in {c} \cap Used : ledger[s].key = k) =>
                            allowance'[k] >= allowance[k] + 1
  <2>1. {c} \cap Used \in SUBSET Used
    OBVIOUS
  <2>2. QED
    BY <1>0, <1>1, <2>1, ForgetAllows
<1>5. TaskInv'
  <2>1. allowance' \in [Keys -> Nat]
    BY <1>4, IdempotencyAssumption
  <2>2. QED
    BY <1>0, <1>1, <1>2, <1>3, <2>1 DEF TaskInv
<1>6. TruthInv'
  <2>1. \A u \in Tasks : pc'[u] = "finalize" => pc[u] = "finalize" /\ work'[u] = work[u]
    BY <1>0, <1>1, <1>2 DEF TaskInv
  <2>2. \A s \in Finalized' : s \in Finalized /\ ledger'[s] = ledger[s]
    BY <1>3 DEF Finalized
  <2>3. QED
    BY <1>0, <1>1, <2>1, <2>2, SameNames, TruthKept
<1>7. ASSUME NEW k \in Keys PROVE Balanced(k)'
  <2>1. \A u \in Tasks \ {t} : Open(u, k)' = Open(u, k)
    BY <1>0, <1>2 DEF TaskInv, Open
  <2>2. CASE k = key
    <3>1. Missing(k) = 1 /\ Missing(k)' = 0
      BY <1>1, <1>3, <2>2 DEF Missing, SlotOf
    <3>2. Open(t, k) = 0 /\ Open(t, k)' \in 0 .. 1
      BY <1>1 DEF Open
    <3>3. Cardinality(QueuedFor(k))' = Cardinality(QueuedFor(k))
      BY <1>1 DEF QueuedFor
    <3>4. allowance'[k] >= allowance[k] /\ allowance'[k] \in Nat
      BY <1>4
    <3>5. /\ Cardinality(QueuedFor(k)) \in Nat /\ allowance[k] \in Nat
          /\ Open("http", k) \in 0 .. 1 /\ Open("mqtt", k) \in 0 .. 1
      BY <1>0, CountTypes DEF Tasks
    <3>6. t = "http" \/ t = "mqtt"
      BY DEF Tasks
    <3>7. CASE t = "http"
      <4>1. Open("mqtt", k)' = Open("mqtt", k)
        BY <2>1, <3>7 DEF Tasks
      <4> HIDE DEF Open, Missing
      <4>2. QED
        BY <1>0, <3>1, <3>2, <3>3, <3>4, <3>5, <3>7, <4>1 DEF Balanced
    <3>8. CASE t = "mqtt"
      <4>1. Open("http", k)' = Open("http", k)
        BY <2>1, <3>8 DEF Tasks
      <4> HIDE DEF Open, Missing
      <4>2. QED
        BY <1>0, <3>1, <3>2, <3>3, <3>4, <3>5, <3>8, <4>1 DEF Balanced
    <3>9. QED
      BY <3>6, <3>7, <3>8
  <2>3. CASE k # key
    <3>1. Open(t, k)' = 0 \/ Open(t, k)' = Open(t, k)
      BY <1>0, <1>2, <1>3, <2>3 DEF Open, TaskInv
    <3>2. \A u \in Tasks : Open(u, k)' <= Open(u, k)
      <4>1. \A u \in Tasks : Open(u, k) \in 0 .. 1 /\ Open(u, k)' \in 0 .. 1
        BY DEF Open
      <4>2. QED
        BY <2>1, <3>1, <4>1
    <3>3. CASE \E s \in {c} \cap Used : ledger[s].key = k
      <4>1. Missing(k) = 0 /\ Missing(k)' \in 0 .. 1
        BY <3>3 DEF Missing, SlotOf
      <4>2. allowance'[k] >= allowance[k] + 1 /\ allowance'[k] \in Nat
        BY <1>4, <3>3
      <4>3. Cardinality(QueuedFor(k))' = Cardinality(QueuedFor(k))
        BY <1>1 DEF QueuedFor
      <4>4. /\ Cardinality(QueuedFor(k)) \in Nat /\ allowance[k] \in Nat
            /\ Open("http", k) \in 0 .. 1 /\ Open("mqtt", k) \in 0 .. 1
        BY <1>0, CountTypes DEF Tasks
      <4>5. /\ Open("http", k)' \in 0 .. 1 /\ Open("http", k)' <= Open("http", k)
            /\ Open("mqtt", k)' \in 0 .. 1 /\ Open("mqtt", k)' <= Open("mqtt", k)
        BY <3>2 DEF Tasks, Open
      <4> HIDE DEF Open, Missing
      <4>6. QED
        BY <1>0, <4>1, <4>2, <4>3, <4>4, <4>5 DEF Balanced
    <3>4. CASE ~\E s \in {c} \cap Used : ledger[s].key = k
      <4>1. SlotOf(k)' = SlotOf(k)
        BY <1>3, <2>3, <3>4 DEF SlotOf
      <4>2. Missing(k)' <= Missing(k)
        BY <4>1 DEF Missing
      <4>3. QED
        BY <1>0, <1>1, <1>4, <1>5, <3>2, <4>2, BalanceKept
    <3>5. QED
      BY <3>3, <3>4
  <2>4. QED
    BY <2>2, <2>3
<1>8. QED
  BY <1>3, <1>5, <1>6, <1>7 DEF IdemInv, LedgerTaskInv

-----------------------------------------------------------------------------
(* modem_core_sms_send appends the message, and keeps the earlier ones.    *)
LEMMA QueuedMessage ==
    ASSUME TaskInv, NEW m \in [key : Keys, request : Requests], messages' = Append(messages, m),
           NEW k \in Keys
    PROVE  /\ messages' \in Seq([key : Keys, request : Requests])
           /\ Len(messages') = Len(messages) + 1 /\ messages'[Len(messages) + 1] = m
           /\ \A id, key, request : Names(id, key, request) => Names(id, key, request)'
           /\ Cardinality(QueuedFor(k))' =
                Cardinality(QueuedFor(k)) + (IF m.key = k THEN 1 ELSE 0)
<1> DEFINE n == Len(messages) + 1
<1>1. /\ messages \in Seq([key : Keys, request : Requests])
      /\ Len(messages) \in Nat /\ DOMAIN messages = 1 .. Len(messages)
  BY DEF TaskInv
<1>2. /\ messages' \in Seq([key : Keys, request : Requests])
      /\ Len(messages') = n /\ messages'[n] = m
      /\ \A i \in 1 .. Len(messages) : messages'[i] = messages[i]
  BY <1>1
<1>3. \A id, key, request : Names(id, key, request) => Names(id, key, request)'
  BY <1>1, <1>2 DEF Names
<1>4. QueuedFor(k)' = IF m.key = k THEN QueuedFor(k) \cup {n} ELSE QueuedFor(k)
  <2>1. DOMAIN messages' = 1 .. n /\ n \in Nat
    BY <1>1, <1>2
  <2>2. QED
    BY <1>1, <1>2, <2>1 DEF QueuedFor
<1>5. n \notin QueuedFor(k) /\ IsFiniteSet(QueuedFor(k))
  <2>1. IsFiniteSet(QueuedFor(k))
    BY CountTypes
  <2>2. QED
    BY <1>1, <2>1 DEF QueuedFor
<1>6. Cardinality(QueuedFor(k) \cup {n}) = Cardinality(QueuedFor(k)) + 1
  BY <1>5, FS_AddElement
<1>7. Cardinality(QueuedFor(k)) \in Nat
  BY CountTypes
<1>8. QED
  BY <1>2, <1>3, <1>4, <1>6, <1>7

(* The balance when one task moves on and a message may have been queued.  *)
LEMMA BalanceMoved ==
    ASSUME TaskInv, NEW k \in Keys, Balanced(k), NEW t \in Tasks,
           NEW n \in 0 .. 1, NEW d \in 0 .. 1,
           Cardinality(QueuedFor(k))' = Cardinality(QueuedFor(k)) + n,
           allowance'[k] = allowance[k] + d,
           Missing(k)' = Missing(k),
           \A u \in Tasks \ {t} : Open(u, k)' = Open(u, k),
           Open(t, k)' + n <= Open(t, k) + d
    PROVE  Balanced(k)'
<1>1. /\ Cardinality(QueuedFor(k)) \in Nat /\ allowance[k] \in Nat /\ Missing(k) \in 0 .. 1
      /\ Open("http", k) \in 0 .. 1 /\ Open("mqtt", k) \in 0 .. 1
  BY CountTypes DEF Tasks
<1>2. Open("http", k)' \in 0 .. 1 /\ Open("mqtt", k)' \in 0 .. 1
  BY DEF Open
<1>3. CASE t = "http"
  <2>1. Open("mqtt", k)' = Open("mqtt", k)
    BY <1>3 DEF Tasks
  <2>2. QED
    BY <1>1, <1>2, <1>3, <2>1 DEF Balanced
<1>4. CASE t = "mqtt"
  <2>1. Open("http", k)' = Open("http", k)
    BY <1>4 DEF Tasks
  <2>2. QED
    BY <1>1, <1>2, <1>4, <2>1 DEF Balanced
<1>5. QED
  BY <1>3, <1>4 DEF Tasks

(* The message is queued, or the send fails, with or without queueing it.  *)
LEMMA SendStep ==
    ASSUME IdemInv, NEW t \in Tasks, modem_core_sms_send(t)
    PROVE  IdemInv'
<1> DEFINE m == [key |-> work[t].key, request |-> work[t].request]
<1>0. LedgerInv /\ TaskInv /\ TruthInv /\ \A k \in Keys : Balanced(k)
  BY DEF IdemInv, LedgerTaskInv
<1>1. /\ pc[t] = "send" /\ work[t] \in RecordType /\ m \in [key : Keys, request : Requests]
      /\ work[t].key \in Keys /\ m.key = work[t].key
      /\ UNCHANGED <<ledger, attempt, answers>>
  BY <1>0 DEF modem_core_sms_send, TaskInv, RecordType
<1> HIDE DEF m
<1>2. LedgerInv' /\ \A k : Missing(k)' = Missing(k)
  BY <1>0, <1>1 DEF LedgerInv, Used, Missing, SlotOf
<1>3. \A s \in Finalized' : s \in Finalized /\ ledger'[s] = ledger[s]
  BY <1>1 DEF Finalized, Used
<1>4. CASE /\ messages' = Append(messages, m)
           /\ work' = [work EXCEPT ![t].message_id = Len(Append(messages, m))]
           /\ Become(t, "finalize")
           /\ UNCHANGED <<allowance, faults>>
  <2> DEFINE n == Len(messages) + 1
  <2>1. Len(Append(messages, m)) = n /\ n \in Nat
    BY <1>0, <1>1 DEF TaskInv
  <2>2. /\ pc' = [pc EXCEPT ![t] = "finalize"]
        /\ work' = [work EXCEPT ![t] = [@ EXCEPT !.message_id = n]]
    BY <1>0, <1>4, <2>1 DEF Become, TaskInv
  <2>3. /\ messages' \in Seq([key : Keys, request : Requests])
        /\ Len(messages') = n /\ messages'[n] = m
        /\ \A id, key, request : Names(id, key, request) => Names(id, key, request)'
    BY <1>0, <1>1, <1>4, QueuedMessage
  <2> HIDE DEF n
  <2>4. /\ [work[t] EXCEPT !.message_id = n] \in RecordType
        /\ [work[t] EXCEPT !.message_id = n].message_id = n
        /\ [work[t] EXCEPT !.message_id = n].key = work[t].key
        /\ [work[t] EXCEPT !.message_id = n].request = work[t].request
    BY <1>1, <2>1 DEF RecordType
  <2>5. TaskInv'
    <3>1. pc' \in [Tasks -> {"idle", "send", "finalize", "release"}]
      BY <1>0, <2>2 DEF TaskInv
    <3>2. work' \in [Tasks -> {NoWork} \cup RecordType] /\ work'[t] \in RecordType
      BY <1>0, <2>2, <2>4 DEF TaskInv
    <3>3. \A u \in Tasks : pc'[u] # "idle" => work'[u] \in RecordType
      BY <1>0, <2>2, <3>2 DEF TaskInv
    <3>4. QED
      BY <1>0, <1>1, <1>4, <2>3, <3>1, <3>2, <3>3 DEF TaskInv
  <2>6. Names(work[t].message_id, work[t].key, work[t].request)'
    <3>1. work'[t] = [work[t] EXCEPT !.message_id = n]
      BY <1>0, <2>2 DEF TaskInv
    <3>2. n \in 1 .. Len(messages')
      BY <1>0, <2>1, <2>3 DEF TaskInv, n
    <3>3. messages'[n] = [key |-> work'[t].key, request |-> work'[t].request]
          /\ work'[t].message_id = n
      BY <2>3, <2>4, <3>1 DEF m
    <3>4. QED
      BY <3>2, <3>3 DEF Names
  <2>7. TruthInv'
    <3>1. \A u \in Tasks \ {t} : pc'[u] = pc[u] /\ work'[u] = work[u]
      BY <1>0, <2>2 DEF TaskInv
    <3>2. ASSUME NEW u \in Tasks, pc'[u] = "finalize"
          PROVE  Names(work[u].message_id, work[u].key, work[u].request)'
      <4>1. CASE u = t
        BY <2>6, <4>1 DEF Names
      <4>2. CASE u # t
        BY <1>0, <2>3, <3>1, <3>2, <4>2 DEF TruthInv, Names
      <4>3. QED
        BY <4>1, <4>2
    <3>3. \A s \in Finalized' : Names(ledger[s].message_id, ledger[s].key, ledger[s].request)'
      BY <1>0, <1>1, <1>3, <2>3 DEF TruthInv, Names
    <3>4. \A a \in answers' : Names(a.id, a.key, a.request)'
      BY <1>0, <1>1, <2>3 DEF TruthInv
    <3>5. QED
      BY <3>2, <3>3, <3>4 DEF TruthInv
  <2>8. ASSUME NEW k \in Keys PROVE Balanced(k)'
    <3> DEFINE d == IF m.key = k THEN 1 ELSE 0
    <3>1. Cardinality(QueuedFor(k))' = Cardinality(QueuedFor(k)) + d
      BY <1>0, <1>1, <1>4, QueuedMessage
    <3>2. \A u \in Tasks \ {t} : Open(u, k)' = Open(u, k)
      BY <1>0, <2>2 DEF TaskInv, Open
    <3>3. Open(t, k)' = 0 /\ Open(t, k) = d
      BY <1>0, <1>1, <2>2 DEF TaskInv, Open
    <3>4. allowance'[k] = allowance[k] + 0
      BY <1>0, <1>4 DEF TaskInv
    <3>5. d \in 0 .. 1 /\ 0 \in 0 .. 1 /\ 0 + d <= d + 0
      OBVIOUS
    <3> HIDE DEF d
    <3>6. Open(t, k)' + d <= Open(t, k) + 0
      BY <3>3, <3>5
    <3>7. QED
      BY <1>0, <1>2, <3>1, <3>2, <3>4, <3>5, <3>6, BalanceMoved
  <2>9. QED
    BY <1>2, <2>5, <2>7, <2>8 DEF IdemInv, LedgerTaskInv
<1>5. CASE Become(t, "release") /\ UNCHANGED <<work, messages, allowance>>
  <2>1. TaskInv'
    BY <1>0, <1>1, <1>5 DEF TaskInv, Become
  <2>2. TruthInv'
    <3>1. \A u \in Tasks : pc'[u] = "finalize" => pc[u] = "finalize" /\ work'[u] = work[u]
      BY <1>0, <1>5 DEF TaskInv, Become
    <3>2. QED
      BY <1>0, <1>1, <1>3, <1>5, <3>1, SameNames, TruthKept
  <2>3. \A k \in Keys : \A u \in Tasks : Open(u, k)' = Open(u, k)
    BY <1>0, <1>1, <1>5 DEF Open, TaskInv, Become
  <2>4. ASSUME NEW k \in Keys PROVE Balanced(k)'
    <3>1. Missing(k)' <= Missing(k) /\ \A u \in Tasks : Open(u, k)' <= Open(u, k)
      BY <1>2, <2>3 DEF Missing, Open
    <3>2. allowance'[k] >= allowance[k]
      BY <1>0, <1>5 DEF TaskInv
    <3>3. QED
      BY <1>0, <1>5, <2>1, <3>1, <3>2, BalanceKept
  <2>5. QED
    BY <1>2, <2>1, <2>2, <2>4 DEF IdemInv, LedgerTaskInv
<1>6. CASE /\ Become(t, "release") /\ UNCHANGED work
           /\ messages' = Append(messages, m)
           /\ allowance' = [allowance EXCEPT ![work[t].key] = @ + 1]
  <2>1. /\ messages' \in Seq([key : Keys, request : Requests])
        /\ \A id, key, request : Names(id, key, request) => Names(id, key, request)'
    BY <1>0, <1>1, <1>6, QueuedMessage
  <2>2. allowance' \in [Keys -> Nat]
    BY <1>0, <1>1, <1>6 DEF TaskInv
  <2>3. TaskInv'
    BY <1>0, <1>1, <1>6, <2>1, <2>2 DEF TaskInv, Become
  <2>4. TruthInv'
    <3>1. \A u \in Tasks : pc'[u] = "finalize" => pc[u] = "finalize" /\ work'[u] = work[u]
      BY <1>0, <1>6 DEF TaskInv, Become
    <3>2. QED
      BY <1>0, <1>1, <1>3, <2>1, <3>1, TruthKept
  <2>5. ASSUME NEW k \in Keys PROVE Balanced(k)'
    <3> DEFINE d == IF m.key = k THEN 1 ELSE 0
    <3>1. Cardinality(QueuedFor(k))' = Cardinality(QueuedFor(k)) + d
      BY <1>0, <1>1, <1>6, QueuedMessage
    <3>2. \A u \in Tasks : Open(u, k)' = Open(u, k) /\ Open(u, k) \in 0 .. 1
      BY <1>0, <1>1, <1>6 DEF TaskInv, Open, Become
    <3>3. allowance'[k] = allowance[k] + d
      BY <1>0, <1>1, <1>6 DEF TaskInv
    <3>4. d \in 0 .. 1
      OBVIOUS
    <3> HIDE DEF d
    <3>5. Open(t, k)' + d <= Open(t, k) + d
      BY <3>2, <3>4
    <3>6. QED
      BY <1>0, <1>2, <3>1, <3>2, <3>3, <3>4, <3>5, BalanceMoved
  <2>6. QED
    BY <1>2, <2>3, <2>4, <2>5 DEF IdemInv, LedgerTaskInv
<1>7. QED
  BY <1>4, <1>5, <1>6 DEF modem_core_sms_send, m

-----------------------------------------------------------------------------
(* A task that goes on, or is done, opens nothing. *)
LEMMA TaskDone ==
    ASSUME TaskInv, NEW t \in Tasks,
           \/ Done(t)
           \/ /\ attempt' = [attempt EXCEPT ![t] = @ + 1] /\ attempt[t] + 1 < Attempts
              /\ UNCHANGED <<pc, work>>,
           UNCHANGED <<messages, allowance>>
    PROVE  /\ TaskInv'
           /\ \A k \in Keys, u \in Tasks : Open(u, k)' <= Open(u, k)
           /\ \A u \in Tasks : pc'[u] # "idle" => pc'[u] = pc[u] /\ work'[u] = work[u]
<1>1. CASE Done(t)
  <2>1. 0 \in 0 .. Attempts - 1
    BY IdempotencyAssumption
  <2>2. TaskInv'
    BY <1>1, <2>1 DEF Done, Become, TaskInv
  <2>3. \A u \in Tasks : pc'[u] # "idle" => pc'[u] = pc[u] /\ work'[u] = work[u]
    BY <1>1 DEF Done, Become, TaskInv
  <2>4. \A k \in Keys, u \in Tasks : Open(u, k)' <= Open(u, k)
    BY <2>3 DEF Open
  <2>5. QED
    BY <2>2, <2>3, <2>4
<1>2. CASE /\ attempt' = [attempt EXCEPT ![t] = @ + 1] /\ attempt[t] + 1 < Attempts
           /\ UNCHANGED <<pc, work>>
  <2>1. attempt[t] + 1 \in 0 .. Attempts - 1
    BY <1>2, IdempotencyAssumption DEF TaskInv
  <2>2. QED
    BY <1>2, <2>1 DEF TaskInv, Open
<1>3. QED
  BY <1>1, <1>2

(* The record of the task's key and request gets the message's id. *)
LEMMA FinishedLedger ==
    ASSUME LedgerInv, TaskInv, NEW t \in Tasks, pc[t] = "finalize", Mine(t) # {},
           TruthInv, messages' = messages, ledger' = Finish(t, First(Mine(t)))
    PROVE  /\ LedgerInv' /\ \A k : SlotOf(k)' = SlotOf(k)
           /\ \A s \in Finalized' :
                Names(ledger[s].message_id, ledger[s].key, ledger[s].request)'
<1> DEFINE s == First(Mine(t))
           r == [ledger[s] EXCEPT !.message_id = work[t].message_id]
<1>1. /\ s \in Slots /\ s \in Used /\ ledger[s].key = work[t].key
      /\ ledger[s].request = work[t].request
  <2>1. s \in Mine(t)
    BY FirstIn DEF Mine, SlotOf, Used
  <2>2. QED
    BY <2>1 DEF Mine, SlotOf, Used
<1>2. ledger[s] \in RecordType /\ work[t] \in RecordType
  BY <1>1 DEF LedgerInv, TaskInv, Used
<1> HIDE DEF s
<1>3. /\ r \in RecordType /\ r.sequence = ledger[s].sequence /\ r.key = ledger[s].key
      /\ r.request = ledger[s].request /\ r.message_id = work[t].message_id
  BY <1>2 DEF RecordType
<1>4. ledger' = [ledger EXCEPT ![s] = r]
  <2>1. ledger' = [ledger EXCEPT ![s].message_id = work[t].message_id]
    BY DEF Finish, s
  <2>2. QED
    BY <1>1, <2>1 DEF LedgerInv
<1> HIDE DEF r
<1>5. r # Free
  BY <1>3 DEF RecordType, Free
<1>6. /\ ledger' \in [Slots -> {Free} \cup RecordType]
      /\ ledger'[s] = r /\ \A u \in Slots \ {s} : ledger'[u] = ledger[u]
  BY <1>1, <1>3, <1>4 DEF LedgerInv
<1>7. Used' = Used
  BY <1>1, <1>5, <1>6 DEF Used
<1>8. \A u \in Used : /\ ledger'[u].key = ledger[u].key /\ ledger'[u].request = ledger[u].request
                      /\ ledger'[u].sequence = ledger[u].sequence
  BY <1>3, <1>6 DEF Used
<1>9. LedgerInv'
  BY <1>6, <1>7, <1>8 DEF LedgerInv
<1>10. \A k : SlotOf(k)' = SlotOf(k)
  BY <1>7, <1>8 DEF SlotOf
<1>11. ASSUME NEW u \in Finalized'
       PROVE  Names(ledger[u].message_id, ledger[u].key, ledger[u].request)'
  <2>1. CASE u = s
    <3>1. Names(work[t].message_id, work[t].key, work[t].request)
      BY DEF TruthInv
    <3>2. QED
      BY <1>1, <1>3, <1>6, <2>1, <3>1 DEF Names
  <2>2. CASE u # s
    <3>1. ledger'[u] = ledger[u] /\ u \in Finalized
      BY <1>6, <1>7, <2>2 DEF Finalized, Used
    <3>2. Names(ledger[u].message_id, ledger[u].key, ledger[u].request)
      BY <3>1 DEF TruthInv
    <3>3. QED
      BY <3>1, <3>2 DEF Names
  <2>3. QED
    BY <2>1, <2>2
<1>12. QED
  BY <1>9, <1>10, <1>11

(* Slots that are erased, by a release or a clear-pending. *)
LEMMA ErasedLedger ==
    ASSUME LedgerInv, NEW S \in SUBSET Used,
           ledger' = [s \in Slots |-> IF s \in S THEN Free ELSE ledger[s]]
    PROVE  /\ LedgerInv' /\ Used' = Used \ S
           /\ \A s \in Used' : ledger'[s] = ledger[s]
           /\ Finalized' \subseteq Finalized
           /\ \A k : SlotOf(k)' = SlotOf(k) \ S
<1>1. Used' = Used \ S /\ \A s \in Used \ S : ledger'[s] = ledger[s]
  BY DEF Used
<1>2. ledger' \in [Slots -> {Free} \cup RecordType]
  BY DEF LedgerInv
<1>3. PICK b \in Nat : \A s \in Used : ledger[s].sequence <= b
  BY DEF LedgerInv
<1>4. \A s \in Used' : ledger'[s].sequence <= b
  BY <1>1, <1>3
<1>5. \A s, u \in Used' : ledger'[s].key = ledger'[u].key => s = u
  BY <1>1 DEF LedgerInv
<1>6. LedgerInv'
  BY <1>2, <1>4, <1>5 DEF LedgerInv
<1>7. Finalized' \subseteq Finalized
  BY <1>1 DEF Finalized
<1>8. \A k : SlotOf(k)' = SlotOf(k) \ S
  BY <1>1 DEF SlotOf
<1>9. QED
  BY <1>1, <1>6, <1>7, <1>8

-----------------------------------------------------------------------------
(* gateway_idempotency_finalize, every outcome of it. *)
LEMMA FinalizeStep ==
    ASSUME IdemInv, NEW t \in Tasks, gateway_idempotency_finalize(t)
    PROVE  IdemInv'
<1>0. LedgerInv /\ TaskInv /\ TruthInv /\ \A k \in Keys : Balanced(k)
  BY DEF IdemInv, LedgerTaskInv
<1>1. /\ pc[t] = "finalize" /\ messages' = messages /\ answers' = answers
      /\ allowance' = allowance
  BY DEF gateway_idempotency_finalize, history
<1>2. \/ Done(t)
      \/ /\ attempt' = [attempt EXCEPT ![t] = @ + 1] /\ attempt[t] + 1 < Attempts
         /\ UNCHANGED <<pc, work>>
  BY DEF gateway_idempotency_finalize
<1>3. /\ TaskInv'
      /\ \A k \in Keys, u \in Tasks : Open(u, k)' <= Open(u, k)
      /\ \A u \in Tasks : pc'[u] # "idle" => pc'[u] = pc[u] /\ work'[u] = work[u]
  BY <1>0, <1>1, <1>2, TaskDone
<1>4. /\ LedgerInv' /\ \A k : SlotOf(k)' = SlotOf(k)
      /\ \A s \in Finalized' :
           Names(ledger[s].message_id, ledger[s].key, ledger[s].request)'
  <2>1. CASE Mine(t) # {} /\ ledger' = Finish(t, First(Mine(t)))
    BY <1>0, <1>1, <2>1, FinishedLedger
  <2>2. CASE ledger' = ledger
    <3>1. LedgerInv' /\ \A k : SlotOf(k)' = SlotOf(k)
      BY <1>0, <2>2 DEF LedgerInv, Used, SlotOf
    <3>2. Finalized' = Finalized
      BY <2>2 DEF Finalized, Used
    <3>3. \A s \in Finalized : Names(ledger[s].message_id, ledger[s].key, ledger[s].request)
      BY <1>0 DEF TruthInv
    <3>4. QED
      BY <1>1, <2>2, <3>1, <3>2, <3>3 DEF Names
  <2>3. QED
    BY <2>1, <2>2 DEF gateway_idempotency_finalize
<1>5. TruthInv'
  BY <1>0, <1>1, <1>3, <1>4 DEF TruthInv, Names
<1>6. ASSUME NEW k \in Keys PROVE Balanced(k)'
  <2>1. Missing(k)' <= Missing(k)
    BY <1>4 DEF Missing
  <2>2. allowance'[k] >= allowance[k]
    BY <1>0, <1>1 DEF TaskInv
  <2>3. QED
    BY <1>0, <1>1, <1>3, <2>1, <2>2, BalanceKept
<1>7. QED
  BY <1>3, <1>4, <1>5, <1>6 DEF IdemInv, LedgerTaskInv

(* gateway_idempotency_release_pending: the released key may be claimed    *)
(* again, which the request that failed has paid for.                      *)
LEMMA ReleaseStep ==
    ASSUME IdemInv, NEW t \in Tasks, gateway_idempotency_release_pending(t)
    PROVE  IdemInv'
<1>0. LedgerInv /\ TaskInv /\ TruthInv /\ \A k \in Keys : Balanced(k)
  BY DEF IdemInv, LedgerTaskInv
<1>1. /\ pc[t] = "release" /\ messages' = messages /\ answers' = answers
      /\ allowance' = allowance /\ Done(t)
  BY DEF gateway_idempotency_release_pending, history
<1>2. /\ TaskInv'
      /\ \A k \in Keys, u \in Tasks : Open(u, k)' <= Open(u, k)
      /\ \A u \in Tasks : pc'[u] # "idle" => pc'[u] = pc[u] /\ work'[u] = work[u]
  BY <1>0, <1>1, TaskDone
<1>3. PICK S \in {{}, Releasable(t)} :
        ledger' = [s \in Slots |-> IF s \in S THEN Free ELSE ledger[s]]
  <2>1. CASE ledger' = ledger
    BY <1>0, <2>1 DEF LedgerInv
  <2>2. CASE ledger' = [s \in Slots |-> IF s \in Releasable(t) THEN Free ELSE ledger[s]]
    BY <2>2
  <2>3. QED
    BY <2>1, <2>2 DEF gateway_idempotency_release_pending
<1>4. S \in SUBSET Used /\ \A s \in S : ledger[s].key = work[t].key
  BY <1>3 DEF Releasable, Mine, SlotOf
<1>5. /\ LedgerInv' /\ Used' = Used \ S
      /\ \A s \in Used' : ledger'[s] = ledger[s]
      /\ Finalized' \subseteq Finalized
      /\ \A k : SlotOf(k)' = SlotOf(k) \ S
  BY <1>0, <1>3, <1>4, ErasedLedger
<1>6. TruthInv'
  <2>1. \A id, key, request : Names(id, key, request)' <=> Names(id, key, request)
    BY <1>1 DEF Names
  <2>2. \A s \in Finalized' : s \in Finalized /\ ledger'[s] = ledger[s]
    BY <1>5 DEF Finalized
  <2>3. \A s \in Finalized' : Names(ledger'[s].message_id, ledger'[s].key, ledger'[s].request)
    BY <1>0, <2>2 DEF TruthInv
  <2>4. \A u \in Tasks : pc'[u] = "finalize" =>
           Names(work'[u].message_id, work'[u].key, work'[u].request)
    BY <1>0, <1>2 DEF TruthInv
  <2>5. \A a \in answers' : Names(a.id, a.key, a.request)
    BY <1>0, <1>1 DEF TruthInv
  <2> HIDE DEF Names
  <2>6. QED
    BY <2>1, <2>3, <2>4, <2>5 DEF TruthInv
<1>7. ASSUME NEW k \in Keys PROVE Balanced(k)'
  <2>1. allowance'[k] >= allowance[k] /\ allowance'[k] = allowance[k] /\ allowance[k] \in Nat
    BY <1>0, <1>1 DEF TaskInv
  <2>2. CASE k # work[t].key
    <3>1. SlotOf(k)' = SlotOf(k)
      BY <1>4, <1>5, <2>2 DEF SlotOf
    <3>2. Missing(k)' <= Missing(k)
      BY <3>1 DEF Missing
    <3>3. QED
      BY <1>0, <1>1, <1>2, <2>1, <3>2, BalanceKept
  <2>3. CASE k = work[t].key
    <3>1. Open(t, k) = 1 /\ Open(t, k)' = 0
      BY <1>0, <1>1, <2>3 DEF Open, TaskInv, Done, Become
    <3>2. \A u \in Tasks \ {t} : Open(u, k)' = Open(u, k)
      BY <1>0, <1>1 DEF Open, TaskInv, Done, Become
    <3>3. Cardinality(QueuedFor(k))' = Cardinality(QueuedFor(k))
      BY <1>1 DEF QueuedFor
    <3>4. /\ Cardinality(QueuedFor(k)) \in Nat /\ Missing(k) \in 0 .. 1 /\ Missing(k)' \in 0 .. 1
          /\ Open("http", k) \in 0 .. 1 /\ Open("mqtt", k) \in 0 .. 1
      <4>1. Missing(k)' \in 0 .. 1
        BY DEF Missing
      <4>2. QED
        BY <1>0, <4>1, CountTypes DEF Tasks
    <3>5. Open("http", k)' + Open("mqtt", k)' + 1 = Open("http", k) + Open("mqtt", k)
      BY <3>1, <3>2, <3>4 DEF Tasks
    <3>6. Open("http", k)' \in 0 .. 1 /\ Open("mqtt", k)' \in 0 .. 1
      BY DEF Open
    <3> HIDE DEF Open, Missing
    <3>7. QED
      BY <1>0, <2>1, <3>3, <3>4, <3>5, <3>6 DEF Balanced
  <2>4. QED
    BY <2>2, <2>3
<1>8. QED
  BY <1>2, <1>5, <1>6, <1>7 DEF IdemInv, LedgerTaskInv

(* gateway_idempotency_clear_pending: each erased key has one more chance. *)
LEMMA ClearStep ==
    ASSUME IdemInv, gateway_idempotency_clear_pending
    PROVE  IdemInv'
<1>0. LedgerInv /\ TaskInv /\ TruthInv /\ \A k \in Keys : Balanced(k)
  BY DEF IdemInv, LedgerTaskInv
<1>1. /\ messages' = messages /\ answers' = answers /\ pc' = pc /\ work' = work
      /\ attempt' = attempt
  BY DEF gateway_idempotency_clear_pending, tasks
<1>2. PICK n \in 0 .. Records :
        LET S == {s \in Used \ Finalized : s < n}
        IN  /\ ledger' = [s \in Slots |-> IF s \in S THEN Free ELSE ledger[s]]
            /\ Forget(S)
  BY DEF gateway_idempotency_clear_pending
<1> DEFINE S == {s \in Used \ Finalized : s < n}
<1>3. S \in SUBSET Used /\ ledger' = [s \in Slots |-> IF s \in S THEN Free ELSE ledger[s]]
      /\ Forget(S)
  BY <1>2
<1> HIDE DEF S
<1>4. /\ LedgerInv' /\ Used' = Used \ S
      /\ \A s \in Used' : ledger'[s] = ledger[s]
      /\ Finalized' \subseteq Finalized
      /\ \A k : SlotOf(k)' = SlotOf(k) \ S
  BY <1>0, <1>3, ErasedLedger
<1>5. \A k \in Keys : /\ allowance' \in [Keys -> Nat]
                      /\ allowance'[k] >= allowance[k]
                      /\ (\E s \in S : ledger[s].key = k) => allowance'[k] >= allowance[k] + 1
  BY <1>0, <1>3, ForgetAllows
<1>6. TaskInv'
  <2>1. allowance' \in [Keys -> Nat]
    BY <1>5, IdempotencyAssumption
  <2>2. QED
    BY <1>0, <1>1, <2>1 DEF TaskInv
<1>7. TruthInv'
  <2>1. \A s \in Finalized' : s \in Finalized /\ ledger'[s] = ledger[s]
    BY <1>4 DEF Finalized
  <2>2. QED
    BY <1>0, <1>1, <2>1, SameNames, TruthKept
<1>8. ASSUME NEW k \in Keys PROVE Balanced(k)'
  <2>1. \A u \in Tasks : Open(u, k)' = Open(u, k)
    BY <1>1 DEF Open
  <2>2. CASE ~\E s \in S : ledger[s].key = k
    <3>1. SlotOf(k)' = SlotOf(k)
      BY <1>4, <2>2 DEF SlotOf
    <3>2. Missing(k)' <= Missing(k) /\ \A u \in Tasks : Open(u, k)' <= Open(u, k)
      <4>1. Missing(k)' <= Missing(k)
        BY <3>1 DEF Missing
      <4>2. \A u \in Tasks : Open(u, k)' <= Open(u, k)
        BY <1>1 DEF Open
      <4>3. QED
        BY <4>1, <4>2
    <3>3. QED
      BY <1>0, <1>1, <1>5, <1>6, <3>2, BalanceKept
  <2>3. CASE \E s \in S : ledger[s].key = k
    <3>1. Missing(k) = 0 /\ Missing(k)' \in 0 .. 1
      BY <1>3, <2>3 DEF Missing, SlotOf
    <3>2. allowance'[k] >= allowance[k] + 1 /\ allowance'[k] \in Nat
      BY <1>5, <2>3
    <3>3. Cardinality(QueuedFor(k))' = Cardinality(QueuedFor(k))
      BY <1>1 DEF QueuedFor
    <3>4. /\ Cardinality(QueuedFor(k)) \in Nat /\ allowance[k] \in Nat
          /\ Open("http", k) \in 0 .. 1 /\ Open("mqtt", k) \in 0 .. 1
      BY <1>0, CountTypes DEF Tasks
    <3>5. Open("http", k)' = Open("http", k) /\ Open("mqtt", k)' = Open("mqtt", k)
      BY <2>1 DEF Tasks
    <3> HIDE DEF Open, Missing
    <3>6. Cardinality(QueuedFor(k)) + Open("http", k) + Open("mqtt", k) + 0 <= 1 + allowance[k]
      BY <1>0, <3>1 DEF Balanced
    <3>7. Cardinality(QueuedFor(k)) + Open("http", k) + Open("mqtt", k) + Missing(k)'
            <= 1 + allowance'[k]
      BY <3>1, <3>2, <3>4, <3>6
    <3>8. QED
      BY <3>3, <3>5, <3>7 DEF Balanced
  <2>4. QED
    BY <2>2, <2>3
<1>9. QED
  BY <1>4, <1>6, <1>7, <1>8 DEF IdemInv, LedgerTaskInv

(* A reset forgets the requests under way; the ledger is in flash. *)
LEMMA CrashStep ==
    ASSUME IdemInv, Crash
    PROVE  IdemInv'
<1>0. LedgerInv /\ TaskInv /\ TruthInv /\ \A k \in Keys : Balanced(k)
  BY DEF IdemInv, LedgerTaskInv
<1>1. /\ UNCHANGED <<ledger, messages, answers, allowance>>
      /\ pc' = [t \in Tasks |-> "idle"] /\ work' = [t \in Tasks |-> NoWork]
      /\ attempt' = [t \in Tasks |-> 0]
  BY DEF Crash, history
<1>2. LedgerInv'
  BY <1>0, <1>1 DEF LedgerInv, Used
<1>3. TaskInv'
  <2>1. 0 \in 0 .. Attempts - 1
    BY IdempotencyAssumption
  <2>2. QED
    BY <1>0, <1>1, <2>1 DEF TaskInv
<1>4. TruthInv'
  <2>1. \A s \in Finalized' : s \in Finalized /\ ledger'[s] = ledger[s]
    BY <1>1 DEF Finalized, Used
  <2>2. QED
    BY <1>0, <1>1, <2>1, SameNames, TruthKept
<1>5. ASSUME NEW k \in Keys PROVE Balanced(k)'
  <2>1. \A u \in Tasks : Open(u, k)' <= Open(u, k)
    BY <1>1 DEF Open
  <2>2. Missing(k)' <= Missing(k)
    BY <1>1 DEF Missing, SlotOf, Used
  <2>3. allowance'[k] >= allowance[k]
    BY <1>0, <1>1 DEF TaskInv
  <2>4. QED
    BY <1>0, <1>1, <1>3, <2>1, <2>2, <2>3, BalanceKept
<1>6. QED
  BY <1>2, <1>3, <1>4, <1>5 DEF IdemInv, LedgerTaskInv

-----------------------------------------------------------------------------
(* It holds of the empty ledger. *)
LEMMA InitIdemInv == Init => IdemInv
<1> SUFFICES ASSUME Init PROVE IdemInv
  OBVIOUS
<1>1. Used = {}
  BY DEF Init, Used
<1>2. LedgerInv
  <2>1. 0 \in Nat /\ \A s \in Used : ledger[s].sequence <= 0
    BY <1>1
  <2>2. ledger \in [Slots -> {Free} \cup RecordType]
    BY DEF Init
  <2>3. QED
    BY <1>1, <2>1, <2>2 DEF LedgerInv
<1>3. TaskInv
  <2>1. 0 \in 0 .. Attempts - 1
    BY IdempotencyAssumption
  <2>2. QED
    BY <2>1 DEF Init, TaskInv
<1>4. TruthInv
  BY <1>1 DEF Init, TruthInv, Finalized
<1>5. ASSUME NEW k \in Keys PROVE Balanced(k)
  <2>1. QueuedFor(k) = {}
    BY DEF Init, QueuedFor
  <2>2. Cardinality(QueuedFor(k)) = 0
    BY <2>1, FS_EmptySet
  <2>3. Open("http", k) = 0 /\ Open("mqtt", k) = 0 /\ Missing(k) = 1 /\ allowance[k] = 0
    BY <1>1 DEF Init, Open, Missing, SlotOf, Tasks
  <2>4. QED
    BY <2>2, <2>3 DEF Balanced
<1>6. QED
  BY <1>2, <1>3, <1>4, <1>5 DEF IdemInv, LedgerTaskInv

(* Every step of the tasks and of the operator keeps it. *)
LEMMA StepIdemInv == IdemInv /\ [Next]_vars => IdemInv'
<1> SUFFICES ASSUME IdemInv, [Next]_vars PROVE IdemInv'
  OBVIOUS
<1>1. ASSUME NEW t \in Tasks, NEW key \in Keys, NEW request \in Requests,
             claim_known(t, key, request) \/ claim_new(t, key, request)
      PROVE  IdemInv'
  BY <1>1, ClaimKnownStep, ClaimNewStep
<1>2. ASSUME NEW t \in Tasks, TaskStep(t) PROVE IdemInv'
  BY <1>2, SendStep, FinalizeStep, ReleaseStep DEF TaskStep
<1>3. CASE gateway_idempotency_clear_pending
  BY <1>3, ClearStep
<1>4. CASE Crash
  BY <1>4, CrashStep
<1>5. CASE UNCHANGED vars
  <2>1. UNCHANGED <<ledger, pc, work, attempt, messages, answers, allowance>>
    BY <1>5 DEF vars, tasks, history
  <2>2. LedgerTaskInv'
    BY <2>1 DEF IdemInv, LedgerTaskInv, LedgerInv, TaskInv, Used
  <2>3. TruthInv'
    BY <2>1 DEF IdemInv, TruthInv, Names, Finalized, Used
  <2>4. \A k \in Keys : Balanced(k)'
    BY <2>1 DEF IdemInv, Balanced, QueuedFor, Open, Missing, SlotOf, Used
  <2>5. QED
    BY <2>2, <2>3, <2>4 DEF IdemInv
<1>6. QED
  BY <1>1, <1>2, <1>3, <1>4, <1>5 DEF Next

(* So it is an invariant. *)
LEMMA IdemInvariant == Spec => []IdemInv
  BY InitIdemInv, StepIdemInv, PTL DEF Spec

(* Type correctness of the ledger and of the requests under way. *)
THEOREM TypeCorrect == Spec => []TypeOK
<1>1. IdemInv => TypeOK
  <2> SUFFICES ASSUME IdemInv PROVE TypeOK
    OBVIOUS
  <2>0. LedgerInv /\ TaskInv /\ TruthInv /\ Len(messages) \in Nat
    BY DEF IdemInv, LedgerTaskInv, TaskInv
  <2>1. ASSUME NEW s \in Used
        PROVE  ledger[s] \in [sequence : Nat \ {0}, key : Keys, request : Requests,
                              message_id : 0 .. Len(messages)]
    <3>1. ledger[s] \in RecordType
      BY <2>0 DEF LedgerInv, Used
    <3>2. ledger[s].message_id \in 0 .. Len(messages)
      <4>1. CASE ledger[s].message_id = 0
        BY <2>0, <4>1
      <4>2. CASE ledger[s].message_id # 0
        <5>1. ledger[s].message_id \in 1 .. Len(messages)
          BY <2>0, <4>2 DEF TruthInv, Names, Finalized
        <5>2. QED
          BY <2>0, <5>1
      <4>3. QED
        BY <4>1, <4>2
    <3>3. QED
      BY <3>1, <3>2 DEF RecordType
  <2>2. ASSUME NEW t \in Tasks, pc[t] # "idle"
        PROVE  /\ work[t].key \in Keys /\ work[t].request \in Requests
               /\ pc[t] = "finalize" => work[t].message_id \in 1 .. Len(messages)
    BY <2>0, <2>2 DEF TaskInv, TruthInv, Names, RecordType
  <2>3. QED
    BY <2>0, <2>1, <2>2 DEF TypeOK, TaskInv
<1>2. QED
  BY <1>1, IdemInvariant, PTL

(* A key is in the ledger at most once: gateway_idempotency_claim looks it *)
(* up and reserves it under one lock, and no other operation adds a key.   *)
THEOREM KeysUnique == Spec => []UniqueKeys
<1>1. IdemInv => UniqueKeys
  <2> SUFFICES ASSUME IdemInv, NEW key \in Keys PROVE Cardinality(SlotOf(key)) <= 1
    BY DEF UniqueKeys
  <2>1. CASE SlotOf(key) = {}
    BY <2>1, FS_EmptySet
  <2>2. CASE SlotOf(key) # {}
    <3>1. PICK s : s \in SlotOf(key)
      BY <2>2
    <3>2. SlotOf(key) = {s}
      BY <3>1 DEF SlotOf, IdemInv, LedgerTaskInv, LedgerInv
    <3>3. Cardinality(SlotOf(key)) = 1
      BY <3>2, FS_Singleton, Zenon
    <3>4. QED
      BY <3>3
  <2>3. QED
    BY <2>1, <2>2
<1>2. QED
  BY <1>1, IdemInvariant, PTL

(* However HTTP and MQTT requests with one key are repeated and interleave *)
(* with resets, failing writes and evictions, the key queues no more than  *)
(* one message and one for each time its record was cleared, evicted, or   *)
(* released after a save that had written all the same.                    *)
THEOREM DuplicatesAllowed == Spec => []NoSilentDuplicate
<1>1. IdemInv => NoSilentDuplicate
  <2> SUFFICES ASSUME IdemInv, NEW k \in Keys
               PROVE  Cardinality(QueuedFor(k)) <= 1 + allowance[k]
    BY DEF NoSilentDuplicate
  <2>1. TaskInv /\ Balanced(k)
    BY DEF IdemInv, LedgerTaskInv
  <2>2. /\ Cardinality(QueuedFor(k)) \in Nat /\ allowance[k] \in Nat /\ Missing(k) \in 0 .. 1
        /\ Open("http", k) \in 0 .. 1 /\ Open("mqtt", k) \in 0 .. 1
    BY <2>1, CountTypes DEF Tasks
  <2>3. QED
    BY <2>1, <2>2 DEF Balanced
<1>2. QED
  BY <1>1, IdemInvariant, PTL

(* A repeated request is answered with a message of its own key and        *)
(* content, although after a clear-pending two tasks may finalize and      *)
(* release each other's reservations.                                      *)
THEOREM AnswersTruthful == Spec => []ReplayTruthful
<1>1. IdemInv => ReplayTruthful
  BY DEF IdemInv, TruthInv, Names, ReplayTruthful
<1>2. QED
  BY <1>1, IdemInvariant, PTL

(* The clear-pending requests are counted. *)
LEMMA ClearsCounted == Spec => [](clears \in Nat)
<1>1. Init => clears \in Nat
  BY DEF Init
<1>2. clears \in Nat /\ [Next]_vars => (clears \in Nat)'
  <2> SUFFICES ASSUME clears \in Nat, [Next]_vars PROVE clears' \in {clears, clears + 1}
    OBVIOUS
  <2>1. QED
    BY Zenon DEF Next, claim_known, claim_new, TaskStep, modem_core_sms_send,
       gateway_idempotency_finalize, gateway_idempotency_release_pending,
       gateway_idempotency_clear_pending, Crash, bounds, vars
<1>3. QED
  BY <1>1, <1>2, PTL DEF Spec

(* A reservation whose message id could not be recorded stays: claims take *)
(* free or finalized slots only, finalize and release keep to the key of   *)
(* their request, and the operator's clear-pending is counted.             *)
THEOREM ReservationsKept == Spec => PendingKept
<1> DEFINE Kept == \A s \in Used \ Finalized :
                     ledger'[s] # ledger[s] =>
                       \/ ledger'[s] # Free /\ ledger'[s].key = ledger[s].key
                       \/ clears' > clears
                       \/ \E t \in Tasks : pc[t] = "release" /\ work[t].key = ledger[s].key
<1>1. IdemInv /\ clears \in Nat /\ [Next]_vars => [Kept]_vars
  <2> SUFFICES ASSUME IdemInv, clears \in Nat, Next, NEW s \in Used \ Finalized,
                      ledger'[s] # ledger[s]
               PROVE  \/ ledger'[s] # Free /\ ledger'[s].key = ledger[s].key
                      \/ clears' > clears
                      \/ \E t \in Tasks : pc[t] = "release" /\ work[t].key = ledger[s].key
    OBVIOUS
  <2>0. LedgerInv /\ TaskInv /\ s \in Slots
    BY DEF IdemInv, LedgerTaskInv, Used
  <2>1. ASSUME NEW t \in Tasks, NEW key \in Keys, NEW request \in Requests,
               claim_known(t, key, request) \/ claim_new(t, key, request)
        PROVE  FALSE
    <3>1. claim_new(t, key, request)
      BY <2>1 DEF claim_known
    <3>2. Claimable # {} /\ SlotOf(key) = {}
          /\ ledger' = [ledger EXCEPT ![ClaimSlot] = Record(MaxSequence + 1, key, request, 0)]
      BY <3>1 DEF claim_new
    <3>3. ClaimSlot \in Claimable
      BY <2>0, <3>2, ClaimSlotIn
    <3>4. s # ClaimSlot
      BY <3>3 DEF Claimable, Finalized
    <3>5. QED
      BY <2>0, <3>2, <3>4 DEF LedgerInv
  <2>2. ASSUME NEW t \in Tasks, TaskStep(t)
        PROVE  \/ ledger'[s] # Free /\ ledger'[s].key = ledger[s].key
               \/ pc[t] = "release" /\ work[t].key = ledger[s].key
    <3>1. CASE modem_core_sms_send(t)
      BY <3>1 DEF modem_core_sms_send
    <3>2. CASE gateway_idempotency_finalize(t)
      <4>1. Mine(t) # {} /\ ledger' = Finish(t, First(Mine(t))) /\ pc[t] = "finalize"
        BY <3>2 DEF gateway_idempotency_finalize
      <4>2. /\ messages' = messages /\ TruthInv
        BY <3>2 DEF gateway_idempotency_finalize, history, IdemInv
      <4>3. \A k : SlotOf(k)' = SlotOf(k)
        BY <2>0, <4>1, <4>2, FinishedLedger
      <4>4. PICK k \in Keys : k = ledger[s].key
        BY <2>0 DEF LedgerInv, Used, RecordType
      <4>5. s \in SlotOf(k)
        BY <4>4 DEF SlotOf
      <4>6. s \in SlotOf(k)'
        BY <4>3, <4>5
      <4>7. QED
        BY <4>4, <4>6 DEF SlotOf, Used
    <3>3. CASE gateway_idempotency_release_pending(t)
      <4>1. pc[t] = "release" /\ s \in Releasable(t)
        BY <2>0, <3>3 DEF gateway_idempotency_release_pending, LedgerInv
      <4>2. QED
        BY <4>1 DEF Releasable, Mine, SlotOf
    <3>4. QED
      BY <2>2, <3>1, <3>2, <3>3 DEF TaskStep
  <2>3. CASE gateway_idempotency_clear_pending
    <3>1. clears' = clears + 1 /\ clears \in Nat
      BY <2>3 DEF gateway_idempotency_clear_pending
    <3>2. QED
      BY <3>1
  <2>4. CASE Crash
    BY <2>4 DEF Crash
  <2>5. QED
    BY <2>1, <2>2, <2>3, <2>4 DEF Next
<1>2. QED
  BY <1>1, IdemInvariant, ClearsCounted, PTL DEF Spec, PendingKept
=============================================================================
