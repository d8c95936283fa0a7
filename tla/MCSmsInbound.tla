---------------------------- MODULE MCSmsInbound ----------------------------
(* Instances of SmsInbound for TLC.                                         *)
EXTENDS SmsInbound

Pdu(kind, net, ref, total, part, text) ==
    [kind |-> kind, net |-> net, sender |-> "s", ts |-> 0, ref |-> ref,
     total |-> total, part |-> part, text |-> text]

\* A message of two parts.
TwoParts == {Pdu("text", 1, 1, 2, i, <<1, i>>) : i \in 1 .. 2}

\* One message of one part, one 8-bit message.
Single == Pdu("text", 3, 0, 1, 1, <<3, 1>>)
Binary == Pdu("binary", 4, 0, 1, 1, <<4, 1>>)

\* A PDU that the service cannot use.
Invalid == Pdu("invalid", 5, 0, 1, 1, <<5, 1>>)

\* A part of a later message for which the sender uses the same reference.
Reused == Pdu("text", 7, 1, 2, 1, <<7, 1>>)

\* A part of a message with another reference.
Other == Pdu("text", 8, 2, 2, 1, <<8, 1>>)

ManyParts == TwoParts \cup {Reused, Other}
SinglesAndInvalid == {Single, Binary, Invalid}
=============================================================================
