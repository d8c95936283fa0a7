------------------------------ MODULE MCSmsCodec ------------------------------
(***************************************************************************)
(* An instance of SmsCodec with messages of 14 octets: 16 septets, or 9    *)
(* and 8 after a header of 6 and 7 octets; 7 units, or 4 and 3.            *)
(***************************************************************************)
EXTENDS SmsCodec, TLC

\* Commercial at, capital A, line feed and a with grave accent.
MCBasic == (64 :> 0) @@ (65 :> 65) @@ (10 :> 10) @@ (224 :> 127)

\* Form feed and the euro sign.
MCExtension == (12 :> 10) @@ (8364 :> 101)

\* A character that is not in the alphabet, and one outside the basic plane.
Ideograph == 20013
Smiley == 128578

\* n characters of a background with others at the positions of S.
Pattern(background, other, n, S) ==
    [i \in 1 .. n |-> IF i \in S THEN other ELSE background[(i % Len(background)) + 1]]

GsmBackground == <<65, 224, 64>>
UcsBackground == <<65, Ideograph>>

MCTexts ==
    {Pattern(GsmBackground, 8364, n, {i, j}) :
        n \in 2 .. 28, i \in 1 .. 28, j \in 1 .. 28}
    \cup {Pattern(GsmBackground, 12, n, {i}) : n \in 2 .. 28, i \in 1 .. 28}
    \cup {Pattern(UcsBackground, Smiley, n, {i, j}) :
        n \in 2 .. 13, i \in 1 .. 13, j \in 1 .. 13}

MCReferences == {255, 256}

\* Texts matter more than recipients: an odd number of digits is the harder case.
MCRecipients == {[international |-> TRUE, digits |-> <<4, 9, 1>>]}

\* Elements that other senders put into the header: a part number, a port, a
\* shift table, and one of any length.
Headers ==
    {<<>>, <<[iei |-> 0, data |-> <<7, 2, 1>>]>>, <<[iei |-> 36, data |-> <<1>>]>>}
    \cup {<<[iei |-> 112, data |-> [i \in 1 .. n |-> 255]]>> : n \in 0 .. 6}
    \cup {<<[iei |-> 112, data |-> <<255>>], [iei |-> 8, data |-> <<1, 7, 2, 1>>]>>}

FitsForeign(f) == Len(ForeignPdu(f).octets) <= UserOctets

MCForeign == {f \in
    {[text |-> Pattern(GsmBackground, 8364, n, {i}), elements |-> h, dcs |-> d,
      name |-> Pattern(GsmBackground, 8364, n, {})] :
        n \in 1 .. 5, i \in 1 .. 6, h \in Headers, d \in {0, 17, 32, 4, 240, 244}}
    \cup {[text |-> Pattern(UcsBackground, Smiley, n, {}), elements |-> h, dcs |-> d,
           name |-> Pattern(GsmBackground, 8364, n + 6, {})] :
        n \in 1 .. 2, h \in Headers, d \in {8, 40}} : FitsForeign(f)}
=============================================================================
