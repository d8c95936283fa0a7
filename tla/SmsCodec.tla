------------------------------- MODULE SmsCodec -------------------------------
(***************************************************************************)
(* The SMS codec (sms_pdu.c, sms_gsm7.c): a text becomes SMS-SUBMIT PDUs   *)
(* in the GSM 7-bit alphabet or in UCS-2, and the user data of a received  *)
(* PDU becomes a text again.                                               *)
(*                                                                         *)
(* A text is a sequence of code points.  Septets are numbers; an octet is  *)
(* the set of its bits, so that shifting and or-ing into a byte are what   *)
(* they are in the code.  Hexadecimal digits, UTF-8 and the time stamps    *)
(* are left out.  The 160 septets and 70 units of the code are what its    *)
(* 140 octets hold, and become parameters with them.                       *)
(***************************************************************************)
EXTENDS Naturals, Sequences, FiniteSets, SequencesExt

CONSTANTS
    UserOctets,     \* octets of user data in a message (140)
    MaxSegments,    \* SMS_MAX_SEGMENTS
    Basic,          \* s_gsm7_basic: the septet of a code point
    Extension,      \* s_gsm7_extension: the septet after the escape
    Texts,          \* texts that are sent
    References,     \* concatenation references (16 bit)
    Recipients,     \* [international, digits]
    Foreign         \* received messages, [text, elements, dcs], of other senders

VARIABLES
    job,            \* what is being converted
    segments,       \* what sms_submit_encode returned
    received        \* what decode_user_data made of each segment

vars == <<job, segments, received>>

ASSUME CodecAssumption ==
    /\ UserOctets \in Nat /\ UserOctets % 7 = 0
    /\ MaxSegments \in 1 .. 255
    /\ \A cp \in DOMAIN Basic : Basic[cp] \in (0 .. 127) \ {27}
    /\ References \subseteq 1 .. 65535

Escape == 27
MaxSeptets == (UserOctets * 8) \div 7
MaxUnits == UserOctets \div 2

Bits(n) == {b \in 0 .. 7 : (n \div 2 ^ b) % 2 = 1}
Octets(s) == [i \in DOMAIN s |-> Bits(s[i])]
Value(octet) == SumSet({2 ^ b : b \in octet})

\* v << n and v >> n in an octet.
ShiftLeft(v, n) == {b + n : b \in v} \cap 0 .. 7
ShiftRight(v, n) == {b - n : b \in {c \in v : c >= n}}

-----------------------------------------------------------------------------
(* The GSM 7-bit alphabet.                                                  *)

gsm7_find(cp) ==
    IF cp \in DOMAIN Basic THEN <<Basic[cp]>> ELSE <<Escape, Extension[cp]>>

Representable(text) == ToSet(text) \subseteq DOMAIN Basic \cup DOMAIN Extension

sms_gsm7_encode(text) == FlattenSeq([i \in DOMAIN text |-> gsm7_find(text[i])])

\* The code point of a septet in a table.
In(table, septet) == {cp \in DOMAIN table : table[cp] = septet}

Failure(why) == [result |-> why, text |-> <<>>]
Success(text) == [result |-> "ok", text |-> text]

\* An escape is followed by a septet of the extension table.
sms_gsm7_decode(septets) ==
    LET step(a, septet) ==
            IF ~a.ok THEN a
            ELSE IF septet = Escape /\ ~a.escaped THEN [a EXCEPT !.escaped = TRUE]
            ELSE LET found == In(IF a.escaped THEN Extension ELSE Basic, septet)
                 IN  IF found = {} THEN [a EXCEPT !.ok = FALSE]
                     ELSE [a EXCEPT !.escaped = FALSE,
                                    !.text = Append(@, CHOOSE cp \in found : TRUE)]
        end == FoldLeft(step, [ok |-> TRUE, escaped |-> FALSE, text |-> <<>>], septets)
    IN  IF end.ok /\ ~end.escaped THEN Success(end.text) ELSE Failure("text_too_long")

-----------------------------------------------------------------------------
(* UCS-2 with surrogate pairs.                                              *)

Units(cp) ==
    IF cp <= 65535 THEN <<cp>>
    ELSE <<55296 + (cp - 65536) \div 1024, 56320 + ((cp - 65536) % 1024)>>

High(unit) == unit \in 55296 .. 56319
Low(unit) == unit \in 56320 .. 57343

utf8_to_ucs2(text) == FlattenSeq([i \in DOMAIN text |-> Units(text[i])])

UnitOctets(units) ==
    Octets([i \in 1 .. 2 * Len(units) |->
               IF i % 2 = 1 THEN units[(i + 1) \div 2] \div 256 ELSE units[i \div 2] % 256])

ucs2_decode(octets) ==
    LET n == Len(octets) \div 2
        unit == [i \in 1 .. n |-> 256 * Value(octets[2 * i - 1]) + Value(octets[2 * i])]
        starts == {i \in 1 .. n : ~Low(unit[i])}
        cp(i) == IF High(unit[i])
                 THEN 65536 + 1024 * (unit[i] - 55296) + (unit[i + 1] - 56320) ELSE unit[i]
    IN  IF /\ Len(octets) % 2 = 0
           /\ \A i \in 1 .. n : /\ High(unit[i]) => i < n /\ Low(unit[i + 1])
                                /\ Low(unit[i]) => i > 1 /\ High(unit[i - 1])
        THEN Success([k \in 1 .. Cardinality(starts) |->
                         cp(CHOOSE i \in starts : Cardinality({j \in starts : j <= i}) = k)])
        ELSE Failure("invalid")

-----------------------------------------------------------------------------
(* Splitting.                                                               *)

\* The unit is the first half of a character.
Opens(encoding, unit) == IF encoding = "gsm7" THEN unit = Escape ELSE High(unit)

\* Mutant: a character of two units may be cut in two.
Cut_Anywhere(s, pos, per, encoding) == IF Len(s) - pos > per THEN per ELSE Len(s) - pos

\* How many units from pos go into the next segment: a segment that is not the
\* last does not end in the middle of a character.
Cut(s, pos, per, encoding) ==
    IF Len(s) - pos > per
    THEN IF Opens(encoding, s[pos + per]) THEN per - 1 ELSE per
    ELSE Len(s) - pos

\* The segments from every position on.
Cuts(s, per, encoding) ==
    LET from[pos \in 0 .. Len(s)] ==
            IF pos = Len(s) THEN <<>>
            ELSE LET n == Cut(s, pos, per, encoding)
                 IN  IF n = 0 THEN <<<<>>>>
                     ELSE <<SubSeq(s, pos + 1, pos + n)>> \o from[pos + n]
    IN  from[0]

\* split_gsm7 and the same loop for UCS-2; nothing on failure.
Split(s, per, encoding) ==
    LET cuts == Cuts(s, per, encoding)
    IN  IF Len(cuts) > MaxSegments \/ <<>> \in ToSet(cuts) THEN <<>> ELSE cuts

-----------------------------------------------------------------------------
(* The user data header and the packing of septets.                         *)

concat_header(ref, total, sequence) ==
    Octets(IF ref <= 255 THEN <<5, 0, 3, ref, total, sequence>>
           ELSE <<6, 8, 4, ref \div 256, ref % 256, total, sequence>>)

header_septets(octets) == (octets * 8 + 6) \div 7

\* Mutant: a septet that ends a byte early is not carried over.
pack_septets_NoCarry(septets, udh) ==
    LET h == header_septets(Len(udh))
        bytes == ((h + Len(septets)) * 7 + 7) \div 8
        start(i) == (h + i - 1) * 7
        low(k) == {i \in DOMAIN septets : start(i) \div 8 = k}
    IN  [ok |-> bytes <= UserOctets, udl |-> h + Len(septets),
         octets |-> [k \in 1 .. bytes |->
             (IF k <= Len(udh) THEN udh[k] ELSE {})
             \cup UNION {ShiftLeft(Bits(septets[i]), start(i) % 8) : i \in low(k - 1)}
             \cup UNION {ShiftRight(Bits(septets[i]), 8 - (start(i) % 8)) :
                           i \in {j \in low(k - 2) : start(j) % 8 > 2}}]]

pack_septets(septets, udh) ==
    LET h == header_septets(Len(udh))
        bytes == ((h + Len(septets)) * 7 + 7) \div 8
        start(i) == (h + i - 1) * 7
        low(k) == {i \in DOMAIN septets : start(i) \div 8 = k}
    IN  [ok |-> bytes <= UserOctets, udl |-> h + Len(septets),
         octets |-> [k \in 1 .. bytes |->
             (IF k <= Len(udh) THEN udh[k] ELSE {})
             \cup UNION {ShiftLeft(Bits(septets[i]), start(i) % 8) : i \in low(k - 1)}
             \cup UNION {ShiftRight(Bits(septets[i]), 8 - (start(i) % 8)) :
                           i \in {j \in low(k - 2) : start(j) % 8 > 1}}]]

unpack_septets(octets, first, count) ==
    [i \in 1 .. count |->
        LET bit == first + (i - 1) * 7
            k == bit \div 8 + 1
            s == bit % 8
            low == ShiftRight(octets[k], s)
            high == IF s > 1 THEN ShiftLeft(octets[k + 1], 8 - s) ELSE {}
        IN  Value((low \cup high) \cap 0 .. 6)]

\* The user data of one PDU, with what the header of the PDU says about it.
build_submit_pdu(encoding, udh, payload) ==
    LET gsm == pack_septets(payload, udh)
        ucs == udh \o UnitOctets(payload)
    IN  [udhi |-> udh # <<>>, payload |-> payload, udh |-> udh] @@
        IF encoding = "gsm7"
        THEN [ok |-> gsm.ok, dcs |-> 0, udl |-> gsm.udl, octets |-> gsm.octets]
        ELSE [ok |-> Len(ucs) <= UserOctets, dcs |-> 8, udl |-> Len(ucs), octets |-> ucs]

-----------------------------------------------------------------------------
(* Sending.                                                                 *)

Encoding(text) == IF Representable(text) THEN "gsm7" ELSE "ucs2"

Encoded(text) ==
    IF Representable(text) THEN sms_gsm7_encode(text) ELSE utf8_to_ucs2(text)

Room(encoding, udh) ==
    IF encoding = "gsm7" THEN MaxSeptets - header_septets(Len(udh))
                         ELSE (UserOctets - Len(udh)) \div 2

\* The payloads of a text's segments; none when it cannot be sent.
Payloads(text, ref) ==
    LET e == Encoding(text)
        s == Encoded(text)
    IN  IF Len(s) <= Room(e, <<>>) THEN <<s>>
        ELSE IF Len(s) > MaxSegments * Room(e, <<>>) THEN <<>>
        ELSE Split(s, Room(e, concat_header(ref, 1, 1)), e)

sms_submit_encode(text, ref) ==
    LET payloads == Payloads(text, ref)
        parts == Len(payloads)
        pdus == [i \in 1 .. parts |->
                    build_submit_pdu(Encoding(text),
                                     IF parts = 1 THEN <<>> ELSE concat_header(ref, parts, i),
                                     payloads[i])]
    IN  IF \A i \in 1 .. parts : pdus[i].ok THEN pdus ELSE <<>>

sms_submit_preflight(text, ref) == Len(Payloads(text, ref))

-----------------------------------------------------------------------------
(* Receiving.                                                               *)

\* Mutant: the compression bit is ignored.
dcs_encoding_Compressed(dcs) ==
    CASE dcs < 64 -> <<"gsm7", "8bit", "ucs2", "unknown">>[((dcs \div 4) % 4) + 1]
      [] dcs >= 240 -> IF (dcs \div 4) % 2 = 1 THEN "8bit" ELSE "gsm7"
      [] OTHER -> "unknown"

dcs_encoding(dcs) ==
    CASE dcs < 64 /\ (dcs \div 32) % 2 = 1 -> "unknown"
      [] dcs < 64 /\ (dcs \div 32) % 2 = 0 ->
             <<"gsm7", "8bit", "ucs2", "unknown">>[((dcs \div 4) % 4) + 1]
      [] dcs >= 240 -> IF (dcs \div 4) % 2 = 1 THEN "8bit" ELSE "gsm7"
      [] OTHER -> "unknown"

\* The information elements after the length octet; the last one may be too long.
Elements(h) ==
    LET from[pos \in 0 .. Len(h)] ==
            IF pos + 2 > Len(h) THEN <<>>
            ELSE LET len == Value(h[pos + 2])
                     end == pos + 2 + len
                 IN  IF end > Len(h) THEN <<[iei |-> Value(h[pos + 1]), data |-> <<>>, ok |-> FALSE]>>
                     ELSE <<[iei |-> Value(h[pos + 1]), ok |-> TRUE,
                             data |-> [i \in 1 .. len |-> Value(h[pos + 2 + i])]]>> \o from[end]
    IN  from[0]

IsConcat(e) == (e.iei = 0 /\ Len(e.data) = 3) \/ (e.iei = 8 /\ Len(e.data) = 4)

NoConcat == [present |-> FALSE]

parse_concat_udh(elements) ==
    LET found == SelectSeq(elements, IsConcat)
        d == Last(found).data
    IN  CASE found = <<>> -> NoConcat
          [] found # <<>> /\ Len(d) = 3 -> 
                 [present |-> TRUE, reference |-> d[1], total |-> d[2], part |-> d[3]]
          [] found # <<>> /\ Len(d) = 4 ->
                 [present |-> TRUE, reference |-> 256 * d[1] + d[2], total |-> d[3], part |-> d[4]]

ConcatOk(c) == c.present => c.part \in 1 .. c.total

udh_has_national_language_shift(elements) == \E e \in ToSet(elements) : e.iei \in {36, 37}

decode_user_data(p) ==
    LET encoding == dcs_encoding(p.dcs)
        gsm == encoding = "gsm7"
        bytes == IF gsm THEN (p.udl * 7 + 7) \div 8 ELSE p.udl
        header == IF p.udhi THEN Value(p.octets[1]) + 1 ELSE 0
        elements == IF p.udhi THEN Elements(SubSeq(p.octets, 2, header)) ELSE <<>>
        concat == parse_concat_udh(elements)
        skip == header_septets(header)
        text == IF gsm
                THEN sms_gsm7_decode(unpack_septets(p.octets, skip * 7, p.udl - skip))
                ELSE ucs2_decode(SubSeq(p.octets, header + 1, p.udl))
    IN  CASE encoding \notin {"gsm7", "ucs2"} -> Failure("unsupported")
          [] encoding \in {"gsm7", "ucs2"} /\ (bytes > Len(p.octets) \/ bytes > UserOctets) ->
                 Failure("truncated")
          [] OTHER ->
                 IF p.udhi /\ (bytes = 0 \/ header > bytes) THEN Failure("invalid")
                 ELSE IF ~ConcatOk(concat) \/ \E e \in ToSet(elements) : ~e.ok
                 THEN Failure("invalid")
                 ELSE IF udh_has_national_language_shift(elements) THEN Failure("unsupported")
                 ELSE IF gsm /\ skip > p.udl THEN Failure("invalid")
                 ELSE text @@ [concat |-> concat]

-----------------------------------------------------------------------------
(* Addresses, as semi-octets <<low, high>>.                                 *)

address_encode(a) ==
    LET n == Len(a.digits) IN
    [count |-> n, toa |-> IF a.international THEN 145 ELSE 129,
     octets |-> [k \in 1 .. (n + 1) \div 2 |->
                    <<a.digits[2 * k - 1], IF 2 * k <= n THEN a.digits[2 * k] ELSE 15>>]]

\* An alphanumeric address has at most 11 septets, and a length in useful
\* semi-octets; a digit is never the filler.
address_decode(a) ==
    LET ton == (a.toa \div 16) % 8
        septets == (a.count * 4) \div 7
        digits == [i \in 1 .. a.count |->
                      IF i % 2 = 1 THEN a.octets[(i + 1) \div 2][1] ELSE a.octets[i \div 2][2]]
    IN  IF ton = 5
        THEN IF septets > 11 THEN Failure("invalid")
             ELSE sms_gsm7_decode(unpack_septets(a.octets, 0, septets))
        ELSE IF 15 \in ToSet(digits) THEN Failure("invalid")
             ELSE Success([international |-> ton = 1, digits |-> digits])

-----------------------------------------------------------------------------
(* Other senders, after 3GPP 23.040: the user data is a string of bits, the *)
(* header first, filled up to a septet, then the septets.                   *)

BitString(udh, septets) ==
    LET fill == CHOOSE h \in 0 .. 2 * Len(udh) :
                    7 * h >= 8 * Len(udh) /\ 7 * h < 8 * Len(udh) + 7
        length == 7 * (fill + Len(septets))
        bit(p) == IF p < 8 * Len(udh) THEN p % 8 \in udh[p \div 8 + 1]
                  ELSE p >= 7 * fill
                       /\ (p - 7 * fill) % 7 \in Bits(septets[(p - 7 * fill) \div 7 + 1])
    IN  [udl |-> fill + Len(septets),
         octets |-> [k \in 1 .. (length + 7) \div 8 |->
                        {b \in 0 .. 7 : 8 * (k - 1) + b < length /\ bit(8 * (k - 1) + b)}]]

ForeignHeader(elements) ==
    LET body == FlattenSeq([i \in DOMAIN elements |->
                               <<elements[i].iei, Len(elements[i].data)>> \o elements[i].data])
    IN  IF elements = <<>> THEN <<>> ELSE Octets(<<Len(body)>> \o body)

ForeignPdu(f) ==
    LET udh == ForeignHeader(f.elements)
        ud == IF Representable(f.text) THEN BitString(udh, sms_gsm7_encode(f.text))
              ELSE LET o == udh \o UnitOctets(utf8_to_ucs2(f.text))
                   IN  [udl |-> Len(o), octets |-> o]
    IN  ud @@ [udhi |-> udh # <<>>, dcs |-> f.dcs]

ForeignName(name) ==
    LET septets == sms_gsm7_encode(name) IN
    [toa |-> 208, count |-> (7 * Len(septets) + 3) \div 4, octets |-> BitString(<<>>, septets).octets]

-----------------------------------------------------------------------------
Jobs ==
    [pc : {"preflight"}, text : Texts, ref : References, to : Recipients, parts : {0}]
    \cup {[pc |-> "foreign"] @@ f : f \in Foreign}

Init ==
    /\ job \in Jobs
    /\ segments = <<>>
    /\ received = <<>>

\* Mutant: the callers assume a reference of one octet.
PreflightReference_OneOctet == 1

\* The callers pass a reference of 16 bits, which leaves less room than one of 8.
PreflightReference == 256

\* messages_post_handler, handle_structured_send
Preflight ==
    LET parts == sms_submit_preflight(job.text, PreflightReference) IN
    /\ job.pc = "preflight"
    /\ job' = [job EXCEPT !.pc = IF parts = 0 THEN "rejected" ELSE "encode", !.parts = parts]
    /\ UNCHANGED <<segments, received>>

\* sms_service_send draws the reference and encodes.
Encode ==
    LET pdus == sms_submit_encode(job.text, job.ref) IN
    /\ job.pc = "encode"
    /\ segments' = pdus
    /\ job' = [job EXCEPT !.pc = IF pdus = <<>> THEN "failed" ELSE "sent"]
    /\ UNCHANGED received

Submit ==
    /\ job.pc = "foreign"
    /\ segments' = <<ForeignPdu(job)>>
    /\ job' = [job EXCEPT !.pc = "sent"]
    /\ UNCHANGED received

Decode ==
    /\ job.pc = "sent"
    /\ received' = [i \in DOMAIN segments |-> decode_user_data(segments[i])]
    /\ job' = [job EXCEPT !.pc = "received"]
    /\ UNCHANGED segments

Next == Preflight \/ Encode \/ Submit \/ Decode

Spec == Init /\ [][Next]_vars

-----------------------------------------------------------------------------
(* Properties.                                                              *)

Own == "ref" \in DOMAIN job

\* Octets have eight bits, lengths fit an octet, and sms_service_send's array
\* of SMS_MAX_SEGMENTS segments is large enough.
TypeOK ==
    /\ job.pc \in {"preflight", "rejected", "encode", "failed", "foreign", "sent", "received"}
    /\ Len(segments) <= MaxSegments
    /\ \A i \in DOMAIN segments : /\ segments[i].udl <= 255
                                  /\ \A k \in DOMAIN segments[i].octets :
                                        segments[i].octets[k] \subseteq 0 .. 7
    /\ received # <<>> => Len(received) = Len(segments)

\* A message that preflight accepts can be sent whatever reference is drawn
\* for it, in no more segments than preflight counted: no request is accepted,
\* queued and then refused by the codec (sms_submit_preflight,
\* sms_submit_encode).
AcceptedIsEncodable ==
    /\ job.pc # "failed"
    /\ Own => Len(segments) <= job.parts

\* Every segment fits, and its user data is the bit string of the standard: the
\* header, its fill bits and the septets one after the other (pack_septets,
\* build_submit_pdu).  There are no more than fit sms_service_send's array, and
\* their lengths fit an octet (TypeOK).
SegmentsWellFormed ==
    /\ TypeOK
    /\ Own => \A i \in DOMAIN segments :
          LET s == segments[i] IN
          /\ Len(s.octets) <= UserOctets
          /\ s.dcs = 0 => /\ s.octets = BitString(s.udh, s.payload).octets
                          /\ s.udl = BitString(s.udh, s.payload).udl

\* What the gateway sends another gateway reads: each segment is readable by
\* itself, names its place in the message, and the texts of the segments in
\* order are the text (split_gsm7, concat_header, decode_user_data).
TextSurvives ==
    Own /\ job.pc = "received" =>
        /\ \A i \in DOMAIN received : received[i].result = "ok"
        /\ FlattenSeq([i \in DOMAIN received |-> received[i].text]) = job.text
        /\ \A i \in DOMAIN received : Len(received) > 1 =>
               received[i].concat =
                   [present |-> TRUE, reference |-> job.ref, total |-> Len(received), part |-> i]

\* docs/sms-subsystem.md: "Binary/unsupported text formats are not guessed."
\* A message of another sender is read exactly when it is plain GSM 7-bit or
\* UCS-2 text without a shift table, whatever other elements its header has,
\* and then correctly (dcs_encoding, parse_concat_udh, unpack_septets).
ForeignReadOrRefused ==
    ~Own /\ job.pc = "received" =>
        LET r == received[1] IN
        /\ r.result = "ok" <=> /\ job.dcs \in IF Representable(job.text) THEN {0, 17, 240} ELSE {8}
                               /\ \A e \in ToSet(job.elements) : e.iei \notin {36, 37}
        /\ r.result = "ok" => r.text = job.text

\* The recipient that a status report names is the one the message was sent to,
\* as sms_store_find_outbound_reference compares them, and a sender's name is
\* read in full (address_encode, address_decode).
AddressesSurvive ==
    IF Own THEN address_decode(address_encode(job.to)) = Success(job.to)
           ELSE address_decode(ForeignName(job.name)) = Success(job.name)

\* Text and recipient come through the codec unchanged.
MessageSurvives == TextSurvives /\ AddressesSurvive
=============================================================================
