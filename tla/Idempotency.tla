---------------------------- MODULE Idempotency -----------------------------
(***************************************************************************)
(* components/api_idempotency with its two users: the handler of            *)
(* POST /api/v1/messages in the HTTP server task and the structured send    *)
(* command in the MQTT worker task.  A request claims its key, queues the   *)
(* message, and finalizes the claim with the message's id; each is a call   *)
(* of its own, so the tasks interleave between them and a reset can come    *)
(* between any two.                                                         *)
(***************************************************************************)
EXTENDS Integers, FiniteSets, Sequences

CONSTANTS
    Keys,          \* Idempotency-Key headers and request_ids
    Requests,      \* fingerprints of recipient, text and report flag
    Records,       \* GATEWAY_IDEMPOTENCY_MAX_RECORDS
    Attempts,      \* attempts to finalize
    MaxMessages,   \* bound on the messages queued
    MaxClears,     \* bound on the operator's clear-pending requests
    MaxFaults,     \* bound on failing flash writes and lock timeouts
    MaxCrashes     \* bound on resets

ASSUME IdempotencyAssumption ==
    /\ Keys # {} /\ Requests # {}
    /\ Records \in Nat \ {0}
    /\ Attempts \in Nat \ {0}
    /\ MaxMessages \in Nat
    /\ MaxClears \in Nat
    /\ MaxFaults \in Nat
    /\ MaxCrashes \in Nat

VARIABLES
    ledger,     \* the blobs "r00".."r31"
    pc,         \* where each task is
    work,       \* the request each task serves: key, request, message id
    attempt,    \* attempts to finalize so far
    messages,   \* history: the request of each message that was queued
    answers,    \* history: requests answered with the id of an earlier message
    allowance,  \* history: what may have made a key usable again
    clears, faults, crashes

tasks   == <<pc, work, attempt>>
bounds  == <<clears, faults, crashes>>
history == <<messages, answers, allowance>>
vars    == <<ledger, tasks, history, bounds>>

Tasks == {"http", "mqtt"}
Slots == 0 .. Records - 1

Free == [sequence |-> 0]

\* message_id 0 is a reservation that is pending.
Record(sequence, key, request, id) ==
    [sequence |-> sequence, key |-> key, request |-> request, message_id |-> id]

NoWork == [message_id |-> 0]

Init ==
    /\ ledger = [s \in Slots |-> Free]
    /\ pc = [t \in Tasks |-> "idle"]
    /\ work = [t \in Tasks |-> NoWork]
    /\ attempt = [t \in Tasks |-> 0]
    /\ messages = <<>>
    /\ answers = {}
    /\ allowance = [k \in Keys |-> 0]
    /\ clears = 0 /\ faults = 0 /\ crashes = 0

-----------------------------------------------------------------------------
(* The ledger.  Each operation runs under its mutex.                        *)

Used == {s \in Slots : ledger[s] # Free}

First(S) == CHOOSE s \in S : \A u \in S : s <= u

\* The slot that holds key, as a set.
SlotOf(key) == {s \in Used : ledger[s].key = key}

Finalized == {s \in Used : ledger[s].message_id # 0}

MaxSequence ==
    IF Used = {} THEN 0
    ELSE CHOOSE n \in {ledger[s].sequence : s \in Used} :
            \A s \in Used : ledger[s].sequence <= n

\* Mutant: pending reservations are evicted like finalized ones.
Claimable_Pending == IF Used # Slots THEN Slots \ Used ELSE Used

\* The slots a new reservation may take: a free one, else a finalized one.
Claimable == IF Used # Slots THEN Slots \ Used ELSE Finalized

\* The first free slot, or the finalized record with the smallest sequence.
ClaimSlot ==
    IF Used # Slots THEN First(Claimable)
    ELSE First({s \in Claimable :
                  \A u \in Claimable : ledger[s].sequence <= ledger[u].sequence})

Fault == faults < MaxFaults /\ faults' = faults + 1

\* What takes the record of a slot away makes its key usable again.
Forget(slots) ==
    allowance' = [k \in Keys |-> allowance[k] + Cardinality({s \in slots : ledger[s].key = k})]

Become(t, label) == pc' = [pc EXCEPT ![t] = label]

Done(t) ==
    /\ Become(t, "idle")
    /\ work' = [work EXCEPT ![t] = NoWork]
    /\ attempt' = [attempt EXCEPT ![t] = 0]

-----------------------------------------------------------------------------
(* A request.                                                               *)

\* gateway_idempotency_claim finds the key: the request is answered with the
\* id of the earlier message.  (A conflict, a pending reservation and a message
\* that is no longer stored are refused, which changes nothing.)
claim_known(t, key, request) ==
    LET r == ledger[First(SlotOf(key))] IN
    /\ pc[t] = "idle"
    /\ SlotOf(key) # {}
    /\ r.request = request /\ r.message_id # 0
    /\ answers' = answers \cup {[key |-> key, request |-> request, id |-> r.message_id]}
    /\ UNCHANGED <<ledger, tasks, messages, allowance, bounds>>

\* Mutant: the key is not looked up.
claim_new_Blind(t, key, request) ==
    LET r == Record(MaxSequence + 1, key, request, 0) IN
    /\ pc[t] = "idle"
    /\ Len(messages) < MaxMessages
    /\ Claimable # {}
    /\ ledger' = [ledger EXCEPT ![ClaimSlot] = r]
    /\ Forget({ClaimSlot} \cap Used)
    /\ Become(t, "send") /\ work' = [work EXCEPT ![t] = r]
    /\ UNCHANGED <<attempt, messages, answers, bounds>>

\* It does not find the key and reserves it.  A failing nvs_commit leaves the
\* reservation in flash; the client gets an error and nothing is queued.  Other
\* failures change nothing.
claim_new(t, key, request) ==
    LET r       == Record(MaxSequence + 1, key, request, 0)
        claimed == [ledger EXCEPT ![ClaimSlot] = r]
    IN
    /\ pc[t] = "idle"
    /\ Len(messages) < MaxMessages
    /\ SlotOf(key) = {}
    /\ Claimable # {}
    /\ \/ /\ ledger' = claimed
          /\ Forget({ClaimSlot} \cap Used)
          /\ Become(t, "send") /\ work' = [work EXCEPT ![t] = r]
          /\ UNCHANGED faults
       \/ /\ Fault
          /\ ledger' = claimed
          /\ Forget({ClaimSlot} \cap Used)
          /\ UNCHANGED <<pc, work>>
    /\ UNCHANGED <<attempt, messages, answers, clears, crashes>>

\* modem_core_sms_send stores the message and returns its id, or fails.  A save
\* that fails after the record was written has queued the message all the same.
modem_core_sms_send(t) ==
    LET queued == Append(messages, [key |-> work[t].key, request |-> work[t].request]) IN
    /\ pc[t] = "send"
    /\ \/ /\ messages' = queued
          /\ work' = [work EXCEPT ![t].message_id = Len(queued)]
          /\ Become(t, "finalize")
          /\ UNCHANGED <<allowance, faults>>
       \/ /\ Fault
          /\ Become(t, "release")
          /\ \/ UNCHANGED <<messages, allowance>>
             \/ /\ messages' = queued
                /\ allowance' = [allowance EXCEPT ![work[t].key] = @ + 1]
          /\ UNCHANGED work
    /\ UNCHANGED <<ledger, attempt, answers, clears, crashes>>

\* Mutant: the fingerprint is not compared.
Mine_AnyRequest(t) == SlotOf(work[t].key)

\* The slot with the task's key, when it holds the task's request.
Mine(t) == {s \in SlotOf(work[t].key) : ledger[s].request = work[t].request}

Finish(t, s) == [ledger EXCEPT ![s].message_id = work[t].message_id]

\* Tried up to three times, then the reservation stays pending.
gateway_idempotency_finalize(t) ==
    LET Again == IF attempt[t] + 1 < Attempts
                 THEN attempt' = [attempt EXCEPT ![t] = @ + 1] /\ UNCHANGED <<pc, work>>
                 ELSE Done(t)
    IN
    /\ pc[t] = "finalize"
    /\ \/ /\ Mine(t) # {}
          /\ ledger' = Finish(t, First(Mine(t)))
          /\ \/ Done(t) /\ UNCHANGED faults
             \/ Again /\ Fault
       \/ /\ Mine(t) = {}
          /\ Again
          /\ UNCHANGED <<ledger, faults>>
       \/ /\ Fault
          /\ Again
          /\ UNCHANGED ledger
    /\ UNCHANGED <<history, clears, crashes>>

Releasable(t) == {s \in Mine(t) : ledger[s].message_id = 0}

gateway_idempotency_release_pending(t) ==
    LET released == [s \in Slots |-> IF s \in Releasable(t) THEN Free ELSE ledger[s]] IN
    /\ pc[t] = "release"
    /\ \/ ledger' = released /\ UNCHANGED faults
       \/ ledger' \in {ledger, released} /\ Fault
    /\ Done(t)
    /\ UNCHANGED <<history, clears, crashes>>

-----------------------------------------------------------------------------
(* The operator and resets.                                                 *)

\* POST /system/idempotency/clear-pending, in the HTTP task: pending slots are
\* erased in order, up to the first that cannot be.
gateway_idempotency_clear_pending ==
    LET pending == Used \ Finalized IN
    /\ pc["http"] = "idle"
    /\ clears < MaxClears
    /\ clears' = clears + 1
    /\ pending # {}
    /\ \E n \in 0 .. Records :
          LET erased == {s \in pending : s < n} IN
          /\ \/ n = Records /\ UNCHANGED faults
             \/ Fault
          /\ ledger' = [s \in Slots |-> IF s \in erased THEN Free ELSE ledger[s]]
          /\ Forget(erased)
    /\ UNCHANGED <<tasks, messages, answers, crashes>>

Crash ==
    /\ crashes < MaxCrashes
    /\ crashes' = crashes + 1
    /\ pc' = [t \in Tasks |-> "idle"]
    /\ work' = [t \in Tasks |-> NoWork]
    /\ attempt' = [t \in Tasks |-> 0]
    /\ UNCHANGED <<ledger, history, clears, faults>>

TaskStep(t) ==
    \/ modem_core_sms_send(t)
    \/ gateway_idempotency_finalize(t)
    \/ gateway_idempotency_release_pending(t)

Next ==
    \/ \E t \in Tasks, key \in Keys, request \in Requests :
          claim_known(t, key, request) \/ claim_new(t, key, request)
    \/ \E t \in Tasks : TaskStep(t)
    \/ gateway_idempotency_clear_pending
    \/ Crash

Spec == Init /\ [][Next]_vars

-----------------------------------------------------------------------------
(* Properties.                                                              *)

TypeOK ==
    /\ \A s \in Used :
          ledger[s] \in [sequence : Nat \ {0}, key : Keys, request : Requests,
                         message_id : 0 .. Len(messages)]
    /\ pc \in [Tasks -> {"idle", "send", "finalize", "release"}]
    /\ \A t \in Tasks : pc[t] # "idle" =>
          /\ work[t].key \in Keys /\ work[t].request \in Requests
          /\ pc[t] = "finalize" => work[t].message_id \in 1 .. Len(messages)
    /\ attempt \in [Tasks -> 0 .. Attempts - 1]
    /\ messages \in Seq([key : Keys, request : Requests])

\* gateway_idempotency_claim looks the key up and reserves it under one lock: a
\* key is in the ledger at most once.
UniqueKeys == \A key \in Keys : Cardinality(SlotOf(key)) <= 1

QueuedFor(key) == {i \in DOMAIN messages : messages[i].key = key}

\* messages_post_handler and handle_structured_send: whatever is repeated over
\* HTTP and MQTT, in whatever order, with resets in between, a key queues one
\* message.  Every further one goes back to an operator's clear-pending, the
\* eviction of its finalized record, or a save that failed after writing.
NoSilentDuplicate ==
    \A key \in Keys : Cardinality(QueuedFor(key)) <= 1 + allowance[key]

\* A repeated request is answered with the id of a message that was queued for
\* the same key and the same content, also when the two tasks finalize and
\* release each other's reservations after a clear-pending.
ReplayTruthful ==
    \A a \in answers : messages[a.id] = [key |-> a.key, request |-> a.request]

\* "A reservation whose final message ID could not be recorded is not silently
\* expired" (docs/networking-api.md:117): a pending record leaves its slot only
\* in a clear-pending or when a request with its key has failed to queue.
PendingKept ==
    [][\A s \in Used \ Finalized :
          ledger'[s] # ledger[s] =>
              \/ ledger'[s] # Free /\ ledger'[s].key = ledger[s].key
              \/ clears' > clears
              \/ \E t \in Tasks : pc[t] = "release" /\ work[t].key = ledger[s].key]_vars
=============================================================================
