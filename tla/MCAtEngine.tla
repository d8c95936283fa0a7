----------------------------- MODULE MCAtEngine -----------------------------
(* Small instances of AtEngine for TLC.                                     *)
EXTENDS AtEngine

Whole(kind) == [kind |-> kind, part |-> "whole"]

\* AT+CREG? as modem_manager sends it (two attempts, a prefix that is also a
\* URC), and the PDU submission of sms_service (one attempt, prompt).
Query == [prompt |-> FALSE, expects |-> TRUE, attempts |-> 2,
          retry |-> {"timeout", "transport_error", "unavailable"}]
Submit == [prompt |-> TRUE, expects |-> FALSE, attempts |-> 1, retry |-> {}]
MCRequests == {Query, Submit}

\* A response line, then OK; and an echoed command that fails.
MCAnswers == { <<Whole("info"), Whole("ok")>>, <<Whole("echo"), Whole("error")>> }

\* A status URC cut by a transfer boundary, an incoming message of two lines,
\* and a line longer than the parser's buffer.
MCUnsolicited ==
    { <<[kind |-> "urc", part |-> "head"], [kind |-> "urc", part |-> "tail"]>>,
      <<Whole("header"), Whole("body")>>, <<Whole("long")>> }
=============================================================================
