------------------------------ MODULE AtEngine ------------------------------
(***************************************************************************)
(* components/at_engine: one worker task owns the modem channel, executes  *)
(* the requests of the other tasks one at a time, and tells the lines that *)
(* answer the running command from the unsolicited ones (URCs).            *)
(*                                                                         *)
(* Received bytes reach the worker through a bounded queue of chunks; loss *)
(* of the transport, cancellation and queue overflow are signalled by      *)
(* epochs that the worker compares with the values it read before writing  *)
(* the command.  The modem and the USB pipe are the environment: the modem *)
(* may answer after the engine has stopped waiting, a line may be cut by a *)
(* transfer boundary, and the device may vanish and come back.             *)
(*                                                                         *)
(* A line is a record of what at_protocol tells apart and of the attempt   *)
(* (`of', 0 when unsolicited) the modem sent it for; `of' is a history     *)
(* field that no guard of the engine reads.                                *)
(***************************************************************************)
EXTENDS Integers, Sequences, FiniteSets, SequencesExt

CONSTANTS
    Callers,         \* tasks that call at_engine_execute
    Requests,        \* request records [prompt, expects, attempts, retry]
    Answers,         \* what the modem sends for a command: sequences of pieces
    Unsolicited,     \* what it sends unasked: sequences of pieces
    RequestDepth,    \* AT_REQUEST_QUEUE_DEPTH
    RxDepth,         \* AT_RX_QUEUE_DEPTH
    UrcDepth,        \* AT_URC_QUEUE_DEPTH
    MaxChunk,        \* pieces one USB transfer may carry
    MaxSerial,       \* bound on attempts written to the modem
    MaxDisturbances  \* bound on unsolicited messages, transport losses,
                     \* cancellations and failing writes together

VARIABLES
    requests,   \* request_queue: the callers waiting, in order
    calls,      \* caller -> the request it waits for, or NoRequest
    answered,   \* the response last given to a caller, until the next request
    rx,         \* rx_queue
    urcs,       \* number of lines in urc_queue
    epochs,     \* rx_overflow_epoch, transport_lost_epoch, cancel_epoch
    worker,     \* the worker task: program counter and transaction_ctx_t
    partial,    \* at_parser_t: the line being assembled, or NoLine
    usb,        \* the transport: ready, loss notice due, session number
    modem,      \* the modem: the prompt it stands at, what it has to send
    budget,     \* what is left of MaxDisturbances
    history     \* attempts given up, session of each attempt, last header
vars == <<requests, calls, answered, rx, urcs, epochs, worker, partial, usb, modem,
          budget, history>>

LineKinds == {"ok", "error", "info", "echo", "prompt", "urc", "header", "body",
              "long", "fragment", "none"}
Serials == 1..MaxSerial
Lines == [kind : LineKinds, of : 0..MaxSerial]
NoLine == [kind |-> "none", of |-> 0]
Parts == {"whole", "head", "tail"}
Results == {"ok", "error", "timeout", "canceled", "unavailable",
            "transport_error", "rx_overflow", "protocol_error"}

ASSUME AtEngineAssumption ==
    /\ {RequestDepth, RxDepth, UrcDepth, MaxChunk, MaxSerial} \subseteq Nat \ {0}
    /\ MaxDisturbances \in Nat
    /\ Requests \subseteq [prompt : BOOLEAN, expects : BOOLEAN,
                           attempts : Nat \ {0}, retry : SUBSET Results]
    /\ \A a \in Answers \cup Unsolicited :
          a \in Seq([kind : LineKinds, part : Parts])

-----------------------------------------------------------------------------
(* The modem (external) reads the bytes written to it in order; when they   *)
(* are answered is when at_engine_feed_rx delivers what is in `stream'.  At  *)
(* its prompt it takes whatever comes as the text of the message.           *)

Pieces(answer, s) ==
    [i \in DOMAIN answer |->
       [line |-> [kind |-> answer[i].kind, of |-> s], part |-> answer[i].part]]

Say(m, answer, s) ==
    [m EXCEPT !.stream = @ \o Pieces(answer, s),
              !.sent = @ \cup {[kind |-> answer[i].kind, of |-> s] : i \in DOMAIN answer}]

\* Bytes `what' of attempt s reach modem m, which answers with a; a message
\* command is refused or prompted for, a text nobody asked for is ignored.
Read(m, what, s, a) ==
    IF m.at # 0
    THEN Say([m EXCEPT !.at = 0, !.fed = @ \cup {<<what, s, m.at>>}], a, m.at)
    ELSE CASE what = "command" -> Say(m, a, s)
           [] what = "submit" ->
                IF Last(a).kind = "error" THEN Say(m, a, s)
                ELSE Say([m EXCEPT !.at = s], <<[kind |-> "prompt", part |-> "whole"]>>, s)
           [] OTHER -> [m EXCEPT !.fed = @ \cup {<<what, s, 0>>}]

-----------------------------------------------------------------------------
(* process_token: what one complete line does.  `acc' carries what the     *)
(* handler may change (the transaction tx, the parser, the URC queue, what *)
(* the modem has read), whether a write succeeds, and the modem's answer.  *)

\* Mutant: status URCs are missing from the table of prefixes.
RoutedAsUrc_NoStatus(line, request) == line.kind = "header"

\* at_protocol_should_route_as_urc: a default URC prefix the command does
\* not expect.
RoutedAsUrc(line, request) ==
    line.kind \in {"urc", "header"} /\ ~(line.kind = "urc" /\ request.expects)

\* at_protocol_urc_continuation_lines
Continuation(line) == IF line.kind = "header" THEN 1 ELSE 0

\* at_protocol_final_status and map_final_kind; the text of an SMS body is
\* allowed to be "OK".
FinalStatus(line) ==
    CASE line.kind \in {"ok", "body"} -> "ok"
      [] line.kind = "error" -> "error"
      [] OTHER -> "none"

\* queue_urc: the line is dropped when the queue is full.  `header' remembers
\* the attempt during which the header of a message was routed, 0 for none.
QueueUrc(acc, line, s) ==
    [acc EXCEPT !.urcs = IF @ < UrcDepth THEN @ + 1 ELSE @,
                !.header = IF line.kind = "header" THEN s ELSE @]

\* The '>' of a prompt transaction: the payload is written at once.
Prompt(acc) ==
    IF acc.writes
    THEN [acc EXCEPT !.tx.promptOn = FALSE, !.tx.paid = TRUE,
                     !.modem = Read(@, "payload", acc.tx.serial, acc.answer)]
    ELSE [acc EXCEPT !.tx.promptOn = FALSE, !.tx.done = TRUE,
                     !.tx.result = "transport_error"]

\* Mutant: OK completes a submission whose payload was never asked for.
FinalResult_NoPayload(tx, line) == FinalStatus(line)

FinalResult(tx, line) ==
    IF FinalStatus(line) = "ok" /\ tx.request.prompt /\ ~tx.paid
    THEN "protocol_error" ELSE FinalStatus(line)

\* A line that arrives while the command is unanswered: its own echo is
\* ignored, URCs and their continuation are routed before the line is asked
\* whether it is final (at_router_route_line), and the rest is the response.
CommandLine(acc, line) ==
    LET tx == acc.tx IN
    IF line.kind = "echo" /\ line.of \in tx.first..tx.serial
    THEN acc
    ELSE IF tx.skip > 0
    THEN [QueueUrc(acc, line, tx.serial) EXCEPT !.tx.skip = @ - 1]
    ELSE IF RoutedAsUrc(line, tx.request)
    THEN [QueueUrc(acc, line, tx.serial) EXCEPT !.tx.skip = Continuation(line)]
    ELSE IF FinalStatus(line) # "none"
    THEN [acc EXCEPT !.tx.done = TRUE, !.tx.final = line,
                     !.tx.result = FinalResult(tx, line)]
    ELSE [acc EXCEPT !.tx.lines = @ \cup {line}]

Token(acc, line) ==
    LET tx == acc.tx
    IN  CASE line.kind = "long" ->
               IF tx.active
               THEN [acc EXCEPT !.tx.done = TRUE, !.tx.result = "protocol_error"]
               ELSE acc
          [] line.kind = "prompt" /\ tx.promptOn -> Prompt(acc)
          [] OTHER -> IF tx.active /\ ~tx.done
                      THEN CommandLine(acc, line)
                      ELSE QueueUrc(acc, line, 0)

\* at_parser_feed: the head of a line waits in the parser for its end; the
\* end of a line whose head was thrown away is a line of its own.
Piece(acc, piece) ==
    CASE piece.part = "whole" -> Token(acc, piece.line)
      [] piece.part = "head" -> [acc EXCEPT !.partial = piece.line]
      [] OTHER ->
           Token([acc EXCEPT !.partial = NoLine],
                 IF acc.partial = piece.line THEN piece.line
                 ELSE [kind |-> "fragment", of |-> piece.line.of])

\* One rx event handed to the parser, with or without a transaction.
Feed(tx, pieces, writes, answer) ==
    FoldLeft(Piece,
             [tx |-> tx, partial |-> partial, urcs |-> urcs,
              modem |-> modem, header |-> history.header,
              writes |-> writes, answer |-> answer],
             pieces)

-----------------------------------------------------------------------------
NoRequest == [prompt |-> FALSE, expects |-> FALSE, attempts |-> 0, retry |-> {}]
NoTx ==
    [active |-> FALSE, request |-> NoRequest, serial |-> 0, first |-> 0,
     done |-> FALSE, paid |-> FALSE, promptOn |-> FALSE, skip |-> 0,
     result |-> "protocol_error", final |-> NoLine, lines |-> {}]
NoResponse == [result |-> "none", request |-> NoRequest, serial |-> 0,
               final |-> NoLine, lines |-> {}]

\* at_engine_init after the transport has come up once.
Init ==
    /\ requests = <<>>
    /\ calls = [c \in Callers |-> NoRequest]
    /\ answered = NoResponse
    /\ rx = <<>>
    /\ urcs = 0
    /\ epochs = [overflow |-> 0, lost |-> 0, cancel |-> 0]
    /\ worker = [pc |-> "idle", caller |-> "none", attempt |-> 0,
                 seen |-> [overflow |-> 0, lost |-> 0, cancel |-> 0], tx |-> NoTx]
    /\ partial = NoLine
    /\ usb = [ready |-> TRUE, notice |-> FALSE, session |-> 1]
    /\ modem = [at |-> 0, stream |-> <<>>, sent |-> {}, fed |-> {}]
    /\ budget = MaxDisturbances
    /\ history = [serial |-> 0, abandoned |-> {}, session |-> [s \in Serials |-> 0],
                  header |-> 0]

-----------------------------------------------------------------------------
(* Callers.                                                                *)

\* Attempts the waiting callers may still take (for the bound MaxSerial).
Outstanding ==
    MapThenSumSet(LAMBDA c : calls[c].attempts, Callers)

\* at_engine_execute up to the wait for completion: the send blocks while the
\* request queue is full.
at_engine_execute(c, request) ==
    /\ calls[c] = NoRequest
    /\ Len(requests) < RequestDepth
    /\ history.serial + Outstanding + request.attempts <= MaxSerial
    /\ requests' = Append(requests, c)
    /\ calls' = [calls EXCEPT ![c] = request]
    /\ UNCHANGED <<answered, rx, urcs, epochs, worker, partial, usb, modem, budget,
                   history>>

-----------------------------------------------------------------------------
(* The worker task.                                                        *)

\* A request leaves the queue; execute_request starts with process_idle_rx.
worker_take ==
    /\ worker.pc = "idle"
    /\ requests # <<>>
    /\ worker' = [worker EXCEPT !.pc = "drain", !.caller = Head(requests),
                                !.attempt = 1,
                                !.tx = [NoTx EXCEPT !.request = calls[Head(requests)]]]
    /\ requests' = Tail(requests)
    /\ answered' = NoResponse
    /\ UNCHANGED <<calls, rx, urcs, epochs, partial, usb, modem, budget, history>>

\* One event of process_idle_rx, or of the idle branch of worker_task: lines
\* are routed without a transaction, a loss or a cancel resets the parser.
process_idle_rx ==
    /\ worker.pc \in {"idle", "drain"}
    /\ rx # <<>>
    /\ rx' = Tail(rx)
    /\ LET acc == Feed(NoTx, Head(rx).pieces, FALSE, <<>>) IN
         /\ urcs' = acc.urcs
         /\ partial' = IF Head(rx).kind = "data" THEN acc.partial ELSE NoLine
         /\ history' = [history EXCEPT !.header = acc.header]
    /\ UNCHANGED <<requests, calls, answered, epochs, worker, usb, modem, budget>>

\* execute_attempt reads the epochs once nothing is left to drain.
snapshot_epochs ==
    /\ worker.pc = "drain"
    /\ rx = <<>>
    /\ worker' = [worker EXCEPT !.pc = "send", !.seen = epochs]
    /\ UNCHANGED <<requests, calls, answered, rx, urcs, epochs, partial, usb, modem, budget,
                   history>>

\* The end of an attempt: a failed one resets the parser; it is repeated when
\* the policy says so (should_retry) and attempts are left, otherwise the
\* caller is released.
EndAttempt(tx, result) ==
    LET again == /\ result # "ok"
                 /\ result \in tx.request.retry
                 /\ worker.attempt < tx.request.attempts
    IN  /\ worker' = [worker EXCEPT
                        !.pc = IF again THEN "drain" ELSE "idle",
                        !.caller = IF again THEN @ ELSE "none",
                        !.attempt = IF again THEN @ + 1 ELSE 0,
                        !.tx = IF again
                               THEN [NoTx EXCEPT !.request = tx.request, !.first = tx.first]
                               ELSE NoTx]
        /\ calls' = IF again THEN calls ELSE [calls EXCEPT ![worker.caller] = NoRequest]
        /\ answered' = IF again THEN answered
                       ELSE [result |-> result, request |-> tx.request, serial |-> tx.serial,
                             final |-> tx.final, lines |-> tx.lines]

\* send_command: not ready, a failing write, or the command is on its way.
send_command ==
    /\ worker.pc = "send"
    /\ \/ /\ ~usb.ready
          /\ EndAttempt(worker.tx, "unavailable")
          /\ partial' = NoLine
          /\ UNCHANGED <<modem, budget, history>>
       \/ /\ usb.ready
          /\ budget > 0
          /\ budget' = budget - 1
          /\ EndAttempt(worker.tx, "transport_error")
          /\ partial' = NoLine
          /\ UNCHANGED <<modem, history>>
       \/ /\ usb.ready
          /\ \E a \in Answers :
             LET s == history.serial + 1
                 request == worker.tx.request IN
               /\ history' = [history EXCEPT !.serial = s, !.session[s] = usb.session]
               /\ modem' = Read(modem, IF request.prompt THEN "submit" ELSE "command", s, a)
               /\ worker' = [worker EXCEPT !.pc = "check",
                               !.tx = [NoTx EXCEPT !.active = TRUE, !.request = request,
                                                   !.serial = s,
                                                   !.first = IF worker.tx.first = 0 THEN s
                                                             ELSE worker.tx.first,
                                                   !.promptOn = request.prompt]]
          /\ UNCHANGED <<calls, answered, partial, budget>>
    /\ UNCHANGED <<requests, rx, urcs, epochs, usb>>

\* Mutant: dropped transfers do not end the attempt.
Interrupted_NoOverflow ==
    CASE epochs.lost # worker.seen.lost -> "transport_error"
      [] epochs.cancel # worker.seen.cancel -> "canceled"
      [] OTHER -> "none"

\* What the epochs say at the head of the wait loop, in the order it asks.
Interrupted ==
    CASE epochs.overflow # worker.seen.overflow -> "rx_overflow"
      [] epochs.lost # worker.seen.lost -> "transport_error"
      [] epochs.cancel # worker.seen.cancel -> "canceled"
      [] OTHER -> "none"

\* The attempt ends although the modem still owes its answer.
GiveUp(result) ==
    /\ EndAttempt(worker.tx, result)
    /\ partial' = NoLine
    /\ history' = [history EXCEPT !.abandoned = @ \cup {worker.tx.serial}]

\* Mutant: the deadline is forgotten, the loop waits for an answer.
wait_check_NoDeadline ==
    /\ worker.pc \in {"check", "expired"}
    /\ \/ /\ worker.tx.done
          /\ EndAttempt(worker.tx, worker.tx.result)
          /\ partial' = NoLine
          /\ UNCHANGED history
       \/ /\ ~worker.tx.done
          /\ Interrupted # "none"
          /\ GiveUp(Interrupted)
       \/ /\ ~worker.tx.done
          /\ Interrupted = "none"
          /\ worker' = [worker EXCEPT !.pc = "receive"]
          /\ UNCHANGED <<calls, answered, partial, history>>
    /\ UNCHANGED <<requests, rx, urcs, epochs, usb, modem, budget>>

\* The head of the wait loop: a finished transaction leaves it, an epoch that
\* moved or a deadline that passed ends the attempt, otherwise the worker goes
\* on to receive.
wait_check ==
    /\ worker.pc \in {"check", "expired"}
    /\ \/ /\ worker.tx.done
          /\ EndAttempt(worker.tx, worker.tx.result)
          /\ partial' = IF worker.tx.result = "ok" THEN partial ELSE NoLine
          /\ history' = [history EXCEPT !.abandoned =
                           @ \cup ({worker.tx.serial} \ {worker.tx.final.of})]
       \/ /\ ~worker.tx.done
          /\ Interrupted # "none"
          /\ GiveUp(Interrupted)
       \/ /\ ~worker.tx.done
          /\ Interrupted = "none"
          /\ GiveUp("timeout")
       \/ /\ ~worker.tx.done
          /\ Interrupted = "none"
          /\ worker.pc = "check"
          /\ worker' = [worker EXCEPT !.pc = "receive"]
          /\ UNCHANGED <<calls, answered, partial, history>>
    /\ UNCHANGED <<requests, rx, urcs, epochs, usb, modem, budget>>

\* One event received by the running transaction.
wait_receive ==
    /\ worker.pc = "receive"
    /\ rx # <<>>
    /\ rx' = Tail(rx)
    /\ \/ /\ Head(rx).kind = "data"
          /\ \E fails \in IF budget > 0 THEN BOOLEAN ELSE {FALSE}, a \in Answers :
               LET acc == Feed(worker.tx, Head(rx).pieces, usb.ready /\ ~fails, a) IN
                 /\ worker' = [worker EXCEPT !.pc = "check", !.tx = acc.tx]
                 /\ urcs' = acc.urcs
                 /\ partial' = acc.partial
                 /\ modem' = acc.modem
                 /\ history' = [history EXCEPT !.header = acc.header]
                 /\ budget' = IF fails THEN budget - 1 ELSE budget
          /\ UNCHANGED <<calls, answered>>
       \/ /\ Head(rx).kind = "lost"
          /\ GiveUp("transport_error")
          /\ UNCHANGED <<urcs, modem, budget>>
       \/ /\ Head(rx).kind = "cancel"
          /\ GiveUp("canceled")
          /\ UNCHANGED <<urcs, modem, budget>>
    /\ UNCHANGED <<requests, epochs, usb>>

\* xQueueReceive waits for what is left of the deadline and nothing comes.
receive_expired ==
    /\ worker.pc = "receive"
    /\ rx = <<>>
    /\ worker' = [worker EXCEPT !.pc = "expired"]
    /\ UNCHANGED <<requests, calls, answered, rx, urcs, epochs, partial, usb, modem, budget,
                   history>>

\* urc_dispatch_task hands one line to the consumers.
urc_dispatch ==
    /\ urcs > 0
    /\ urcs' = urcs - 1
    /\ UNCHANGED <<requests, calls, answered, rx, epochs, worker, partial, usb, modem, budget,
                   history>>

-----------------------------------------------------------------------------
(* Ingress: called from the USB tasks and from other callers.              *)

Event(kind, pieces) == [kind |-> kind, pieces |-> pieces]

\* at_engine_feed_rx for one transfer: a full queue counts an overflow and
\* the transfer is dropped.
at_engine_feed_rx(n) ==
    /\ usb.ready
    /\ n <= Len(modem.stream)
    /\ LET pieces == SubSeq(modem.stream, 1, n) IN
         IF Len(rx) < RxDepth
         THEN rx' = Append(rx, Event("data", pieces)) /\ UNCHANGED epochs
         ELSE epochs' = [epochs EXCEPT !.overflow = @ + 1] /\ UNCHANGED rx
    /\ modem' = [modem EXCEPT !.stream = SubSeq(@, n + 1, Len(@))]
    /\ UNCHANGED <<requests, calls, answered, urcs, worker, partial, usb, budget, history>>

\* An event that goes to the front of the receive queue, if there is room.
SendToFront(kind) ==
    rx' = IF Len(rx) < RxDepth THEN <<Event(kind, <<>>)>> \o rx ELSE rx

\* The device vanishes: the transport is not ready from the USB callback on,
\* what it still had to send is gone, and the loss is reported later by the
\* USB worker.
DeviceGone ==
    /\ usb.ready
    /\ budget > 0
    /\ usb' = [usb EXCEPT !.ready = FALSE, !.notice = TRUE]
    /\ budget' = budget - 1
    /\ modem' = [modem EXCEPT !.at = 0, !.stream = <<>>]
    /\ UNCHANGED <<requests, calls, answered, rx, urcs, epochs, worker, partial, history>>

\* Called for a device that vanished, and by manager_hard_reset just before it
\* cuts the power of one that has not.
at_engine_notify_transport_lost ==
    /\ \/ usb.notice /\ usb' = [usb EXCEPT !.notice = FALSE] /\ UNCHANGED budget
       \/ /\ usb.ready /\ budget > 0
          /\ budget' = budget - 1 /\ UNCHANGED usb
    /\ epochs' = [epochs EXCEPT !.lost = @ + 1]
    /\ SendToFront("lost")
    /\ UNCHANGED <<requests, calls, answered, urcs, worker, partial, modem, history>>

\* Enumeration and probing take hundreds of milliseconds: an event that was
\* waiting for the worker has been received by then.
DeviceBack ==
    /\ ~usb.ready
    /\ ~usb.notice
    /\ worker.pc = "receive" => rx = <<>>
    /\ usb' = [usb EXCEPT !.ready = TRUE, !.session = @ + 1]
    /\ UNCHANGED <<requests, calls, answered, rx, urcs, epochs, worker, partial, modem, budget,
                   history>>

at_engine_cancel_current ==
    /\ budget > 0
    /\ budget' = budget - 1
    /\ epochs' = [epochs EXCEPT !.cancel = @ + 1]
    /\ SendToFront("cancel")
    /\ UNCHANGED <<requests, calls, answered, urcs, worker, partial, usb, modem, history>>

modem_unsolicited ==
    /\ usb.ready
    /\ budget > 0
    /\ budget' = budget - 1
    /\ \E a \in Unsolicited : modem' = Say(modem, a, 0)
    /\ UNCHANGED <<requests, calls, answered, rx, urcs, epochs, worker, partial, usb, history>>

-----------------------------------------------------------------------------
WorkerStep ==
    \/ worker_take
    \/ process_idle_rx
    \/ snapshot_epochs
    \/ send_command
    \/ wait_check
    \/ wait_receive
    \/ receive_expired

Next ==
    \/ \E c \in Callers, request \in Requests : at_engine_execute(c, request)
    \/ WorkerStep
    \/ urc_dispatch
    \/ \E n \in 1..MaxChunk : at_engine_feed_rx(n)
    \/ DeviceGone
    \/ at_engine_notify_transport_lost
    \/ DeviceBack
    \/ at_engine_cancel_current
    \/ modem_unsolicited

Spec == Init /\ [][Next]_vars

\* The worker is a FreeRTOS task that never blocks for ever: its waits have
\* deadlines.  Nothing is assumed of the modem or of the dispatcher.
FairSpec == Spec /\ WF_vars(WorkerStep)
-----------------------------------------------------------------------------
(* Properties.                                                             *)

TypeOK ==
    /\ requests \in Seq(Callers) /\ Len(requests) <= RequestDepth
    /\ calls \in [Callers -> Requests \cup {NoRequest}]
    /\ answered.result \in Results \cup {"none"}
    /\ Len(rx) <= RxDepth
    /\ urcs \in 0..UrcDepth
    /\ worker.pc \in {"idle", "drain", "send", "check", "receive", "expired"}
    /\ (worker.caller \in Callers) <=> (worker.pc # "idle")
    /\ partial \in Lines
    /\ worker.tx.serial \in 0..MaxSerial
    /\ history.abandoned \subseteq Serials

\* A line came from the modem for attempt s, or late for an earlier attempt the
\* engine had given up on, in the same transport session.
SentFor(line, s) ==
    \/ line.of = s
    \/ /\ line.of \in history.abandoned
       /\ line.of < s
       /\ history.session[line.of] = history.session[s]

\* A response is made of lines the modem sent for this attempt.  The one thing
\* that can slip in is the late answer to an attempt that was given up in the
\* same transport session: process_idle_rx drains what has arrived, not what is
\* still to come.  Nothing survives a loss of the transport, and an unsolicited
\* line is taken for a response only if the command expects its prefix
\* (execute_attempt, process_token, at_router_route_line).  Nor does the text of
\* an incoming message complete the command during which its header was routed,
\* even when it reads "OK": continuation lines are routed before final results
\* are looked for.
ResponseIsOwn ==
    /\ \A line \in answered.lines :
          \/ SentFor(line, answered.serial)
          \/ line.of = 0 /\ line.kind = "urc" /\ answered.request.expects
          \/ line.of = 0 /\ line.kind = "fragment"
    /\ answered.final.kind \in {"ok", "error"} => SentFor(answered.final, answered.serial)
    /\ worker.tx.final.kind = "body" => history.header # worker.tx.serial

\* A command that ends with OK has every response line the modem sent for it: a
\* transfer dropped by at_engine_feed_rx always ends the attempt, whatever the
\* order of the overflow, the epoch test and the later OK.  The queues stay
\* within their depths (TypeOK).
CompleteAnswers ==
    /\ TypeOK
    /\ answered.result = "ok" /\ answered.final = [kind |-> "ok", of |-> answered.serial] =>
          \A line \in modem.sent :
             line.of = answered.serial /\ line.kind = "info" => line \in answered.lines

\* Prompt transactions are atomic as long as no attempt was given up: each
\* payload is read by the modem at the prompt of its own command, no command is
\* read as the text of a message, and OK for a submission means that the modem
\* took its payload.
PromptsMatched ==
    LET Late(s) == \E t \in history.abandoned :
                      t < s /\ history.session[t] = history.session[s]
    IN  /\ \A f \in modem.fed : f[2] # f[3] => Late(f[2])
        /\ answered.request.prompt /\ answered.result = "ok" =>
              \/ <<"payload", answered.serial, answered.serial>> \in modem.fed
              \/ Late(answered.serial)

\* Every caller of at_engine_execute, which waits without a time limit, is
\* released: whatever the modem does, the worker comes back from each request
\* to its idle loop, with the caller it worked for answered.
CallersReleased ==
    worker.pc # "idle" ~> (worker.pc = "idle" /\ answered # NoResponse)
=============================================================================
