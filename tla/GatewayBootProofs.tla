--------------------------- MODULE GatewayBootProofs ---------------------------
(***************************************************************************)
(* Proofs about GatewayBoot for every set of images, every threshold of    *)
(* safe mode and any number of resets and uploads.                         *)
(***************************************************************************)
EXTENDS GatewayBoot, WellFoundedInduction, TLAPS

-----------------------------------------------------------------------------
(* The order of versions. *)

(* A non-empty set of natural numbers has a least element. *)
LEMMA LeastExists ==
    ASSUME NEW S \in SUBSET Nat, S # {}
    PROVE  \E x \in S : \A y \in S : x <= y
<1>1. \E x \in S : \A y \in S : ~(<<y, x>> \in OpToRel(<, Nat))
  BY NatLessThanWellFounded, WFMin
<1>2. PICK x \in S : \A y \in S : ~(<<y, x>> \in OpToRel(<, Nat))
  BY <1>1
<1>3. \A y \in S : ~(y < x)
  BY <1>2 DEF OpToRel
<1>4. QED
  BY <1>3

(* compare_identifiers orders identifiers as IdentifierLower does. *)
LEMMA IdentifierOrder ==
    ASSUME NEW x \in Identifiers, NEW y \in Identifiers
    PROVE  LET c == compare_identifiers(x, y) IN
           /\ c \in {-1, 0, 1}
           /\ c = -1 <=> IdentifierLower(x, y)
           /\ c = 0 <=> x = y
           /\ c = 1 <=> IdentifierLower(y, x)
<1>1. x = [numeric |-> x.numeric, rank |-> x.rank] /\ y = [numeric |-> y.numeric, rank |-> y.rank]
      /\ x.numeric \in BOOLEAN /\ y.numeric \in BOOLEAN /\ x.rank \in Nat /\ y.rank \in Nat
  BY DEF Identifiers
<1>2. QED
  BY <1>1 DEF compare_identifiers, Sign, IdentifierLower

(* Where the comparison of two prereleases stops: at the end of one, or at  *)
(* the first identifiers that differ.                                       *)
Stops(a, b) == {j \in Nat \ {0} : j > Len(a) \/ j > Len(b) \/ a[j] # b[j]}

Verdict(a, b, j) ==
    IF j > Len(a) \/ j > Len(b) THEN Sign(Len(a), Len(b)) ELSE compare_identifiers(a[j], b[j])

(* The loop of compare_prerelease, as the equation that its rounds satisfy. *)
Loop(a, b, f) ==
    f = [i \in Nat \ {0} |->
           IF i > Len(a) \/ i > Len(b) THEN Sign(Len(a), Len(b))
           ELSE LET c == compare_identifiers(a[i], b[i])
                IN  IF c # 0 THEN c ELSE f[i + 1]]

(* The loop comes to an end, whatever it compares. *)
LEMMA LoopEnds ==
    ASSUME NEW a \in Seq(Identifiers), NEW b \in Seq(Identifiers)
    PROVE  \E f : Loop(a, b, f)
<1> DEFINE Ahead(i) == {j \in Stops(a, b) : i <= j}
           Stop(i) == CHOOSE j \in Ahead(i) : \A k \in Ahead(i) : j <= k
           f == [i \in Nat \ {0} |-> Verdict(a, b, Stop(i))]
<1>1. ASSUME NEW i \in Nat \ {0}
      PROVE  Stop(i) \in Ahead(i) /\ \A k \in Ahead(i) : Stop(i) <= k
  <2>1. Ahead(i) \in SUBSET Nat
    BY DEF Stops
  <2>2. Len(a) + 1 + i \in Ahead(i)
    BY DEF Stops
  <2>3. \E j \in Ahead(i) : \A k \in Ahead(i) : j <= k
    <3> HIDE DEF Ahead
    <3> QED
      BY <2>1, <2>2, LeastExists
  <2>4. QED
    BY <2>3
<1>2. ASSUME NEW i \in Nat \ {0}, i \in Stops(a, b)
      PROVE  Stop(i) = i
  <2>1. i \in Ahead(i) /\ \A k \in Ahead(i) : k \in Nat /\ i <= k
    BY <1>2 DEF Stops
  <2>2. QED
    <3> HIDE DEF Ahead, Stop
    <3> QED
      BY <1>1, <2>1
<1>3. ASSUME NEW i \in Nat \ {0}, i \notin Stops(a, b)
      PROVE  Stop(i) = Stop(i + 1)
  <2>1. Ahead(i) = Ahead(i + 1)
    BY <1>3 DEF Stops
  <2>2. QED
    BY <2>1
<1>4. ASSUME NEW i \in Nat \ {0}
      PROVE  f[i] = IF i > Len(a) \/ i > Len(b) THEN Sign(Len(a), Len(b))
                    ELSE LET c == compare_identifiers(a[i], b[i])
                         IN  IF c # 0 THEN c ELSE f[i + 1]
  <2>1. f[i] = Verdict(a, b, Stop(i)) /\ f[i + 1] = Verdict(a, b, Stop(i + 1))
    OBVIOUS
  <2> HIDE DEF f, Stop
  <2>2. CASE i > Len(a) \/ i > Len(b)
    <3>1. Stop(i) = i
      BY <1>2, <2>2 DEF Stops
    <3>2. QED
      BY <2>1, <2>2, <3>1 DEF Verdict
  <2>3. CASE i <= Len(a) /\ i <= Len(b)
    <3>1. a[i] \in Identifiers /\ b[i] \in Identifiers
      BY <2>3
    <3>2. compare_identifiers(a[i], b[i]) = 0 <=> a[i] = b[i]
      BY <3>1, IdentifierOrder
    <3>3. CASE a[i] = b[i]
      <4>1. Stop(i) = Stop(i + 1)
        BY <1>3, <2>3, <3>3 DEF Stops
      <4>2. QED
        BY <2>1, <2>3, <3>2, <3>3, <4>1
    <3>4. CASE a[i] # b[i]
      <4>1. Stop(i) = i
        BY <1>2, <3>4 DEF Stops
      <4>2. QED
        BY <2>1, <2>3, <3>2, <3>4, <4>1 DEF Verdict
    <3>5. QED
      BY <3>3, <3>4
  <2>4. QED
    BY <2>2, <2>3
<1>5. Loop(a, b, f)
  <2>1. f = [i \in Nat \ {0} |-> f[i]]
    OBVIOUS
  <2> HIDE DEF f
  <2>2. QED
    BY <1>4, <2>1 DEF Loop
<1>6. QED
  BY <1>5

(* The first round gives what the last one does. *)
LEMMA LoopFinds ==
    ASSUME NEW a \in Seq(Identifiers), NEW b \in Seq(Identifiers), NEW f, Loop(a, b, f),
           NEW d \in Stops(a, b), \A k \in Stops(a, b) : d <= k
    PROVE  f[1] = Verdict(a, b, d)
<1> DEFINE S == {i \in 1 .. d : f[i] = f[d]}
<1>1. d \in Nat \ {0}
  BY DEF Stops
<1>2. f[d] = Verdict(a, b, d)
  <2>1. CASE d > Len(a) \/ d > Len(b)
    BY <1>1, <2>1 DEF Loop, Verdict
  <2>2. CASE d <= Len(a) /\ d <= Len(b)
    <3>1. a[d] \in Identifiers /\ b[d] \in Identifiers /\ a[d] # b[d]
      BY <1>1, <2>2 DEF Stops
    <3>2. compare_identifiers(a[d], b[d]) # 0
      BY <3>1, IdentifierOrder
    <3>3. QED
      BY <1>1, <2>2, <3>2 DEF Loop, Verdict
  <2>3. QED
    BY <1>1, <2>1, <2>2
<1>3. PICK e \in S : \A k \in S : e <= k
  <2>1. S \in SUBSET Nat /\ d \in S
    BY <1>1
  <2> HIDE DEF S
  <2>2. QED
    BY <2>1, LeastExists
<1>4. e = 1
  <2> SUFFICES ASSUME e # 1 PROVE FALSE
    OBVIOUS
  <2>1. PICK i \in Nat \ {0} : i = e - 1 /\ i < d
    BY <1>1, <1>3
  <2>2. i \notin Stops(a, b)
    BY <1>1, <2>1
  <2>3. i <= Len(a) /\ i <= Len(b) /\ a[i] = b[i]
    BY <2>2 DEF Stops
  <2>4. compare_identifiers(a[i], b[i]) = 0
    <3>1. a[i] \in Identifiers /\ b[i] \in Identifiers
      BY <2>3
    <3>2. QED
      BY <2>3, <3>1, IdentifierOrder
  <2>5. f[i] = f[i + 1]
    BY <2>3, <2>4 DEF Loop
  <2>6. i \in S
    BY <1>1, <1>3, <2>1, <2>5
  <2>7. QED
    BY <1>3, <2>1, <2>6
<1>5. QED
  BY <1>2, <1>3, <1>4

(* What compare_prerelease returns of two prereleases is its first round. *)
LEMMA LoopOf ==
    ASSUME NEW a \in Seq(Identifiers), NEW b \in Seq(Identifiers), a # <<>>, b # <<>>
    PROVE  \E f : Loop(a, b, f) /\ compare_prerelease(a, b) = f[1]
<1> DEFINE F == CHOOSE f : Loop(a, b, f)
<1>1. Loop(a, b, F)
  BY LoopEnds
<1>2. compare_prerelease(a, b) = F[1]
  BY DEF compare_prerelease, Loop
<1> HIDE DEF F
<1>3. QED
  BY <1>1, <1>2

(* compare_prerelease orders prereleases as PrereleaseLower does. *)
LEMMA PrereleaseOrder ==
    ASSUME NEW a \in Seq(Identifiers), NEW b \in Seq(Identifiers)
    PROVE  /\ compare_prerelease(a, b) \in {-1, 0, 1}
           /\ compare_prerelease(a, b) = -1 <=> PrereleaseLower(a, b)
           /\ compare_prerelease(a, b) = 0 <=> a = b
<1>1. CASE a = <<>> \/ b = <<>>
  <2>1. Len(<<>>) = 0 /\ DOMAIN <<>> = {}
    OBVIOUS
  <2>2. CASE a = <<>>
    <3>1. ~PrereleaseLower(a, b)
      BY <2>1, <2>2 DEF PrereleaseLower
    <3>2. compare_prerelease(a, b) = IF b = <<>> THEN 0 ELSE 1
      BY <2>2 DEF compare_prerelease
    <3>3. QED
      BY <2>2, <3>1, <3>2
  <2>3. CASE a # <<>> /\ b = <<>>
    <3>1. PrereleaseLower(a, b)
      BY <2>3 DEF PrereleaseLower
    <3>2. compare_prerelease(a, b) = -1
      BY <2>3 DEF compare_prerelease
    <3>3. QED
      BY <2>3, <3>1, <3>2
  <2>4. QED
    BY <1>1, <2>2, <2>3
<1>2. CASE a # <<>> /\ b # <<>>
  <2>1. PICK f : Loop(a, b, f) /\ compare_prerelease(a, b) = f[1]
    BY <1>2, LoopOf
  <2>2. PICK d \in Stops(a, b) : \A k \in Stops(a, b) : d <= k
    <3>1. Stops(a, b) \in SUBSET Nat /\ Len(a) + 1 \in Stops(a, b)
      BY DEF Stops
    <3>2. QED
      BY <3>1, LeastExists
  <2>3. compare_prerelease(a, b) = Verdict(a, b, d)
    BY <2>1, <2>2, LoopFinds
  <2>4. d \in Nat \ {0} /\ \A j \in 1 .. (d - 1) : j <= Len(a) /\ j <= Len(b) /\ a[j] = b[j]
    BY <2>2 DEF Stops
  <2>5. CASE d > Len(a) \/ d > Len(b)
    <3>1. Verdict(a, b, d) = Sign(Len(a), Len(b))
      BY <2>5 DEF Verdict
    <3>2. \A i \in DOMAIN a \cap DOMAIN b : i \in 1 .. (d - 1)
      BY <2>4, <2>5
    <3>3. \A i \in DOMAIN a \cap DOMAIN b : ~IdentifierLower(a[i], b[i])
      <4> SUFFICES ASSUME NEW i \in DOMAIN a \cap DOMAIN b PROVE ~IdentifierLower(a[i], b[i])
        OBVIOUS
      <4>1. a[i] = b[i] /\ a[i] \in Identifiers
        BY <2>4, <3>2
      <4>2. QED
        BY <4>1, IdentifierOrder
    <3>4. PrereleaseLower(a, b) <=> Len(a) < Len(b)
      <4>1. Len(a) < Len(b) => AgreeBefore(a, b, Len(a) + 1)
        <5> SUFFICES ASSUME Len(a) < Len(b), NEW j \in 1 .. ((Len(a) + 1) - 1) PROVE a[j] = b[j]
          BY DEF AgreeBefore
        <5>1. j \in 1 .. (d - 1)
          BY <2>4, <2>5
        <5>2. QED
          BY <2>4, <5>1
      <4>2. QED
        BY <1>2, <3>3, <4>1 DEF PrereleaseLower
    <3>5. Len(a) = Len(b) <=> a = b
      <4>1. Len(a) = Len(b) => \A i \in 1 .. Len(a) : a[i] = b[i]
        BY <2>4, <3>2
      <4>2. QED
        BY <4>1
    <3>6. QED
      BY <2>3, <3>1, <3>4, <3>5 DEF Sign
  <2>6. CASE d <= Len(a) /\ d <= Len(b)
    <3>1. Verdict(a, b, d) = compare_identifiers(a[d], b[d])
      BY <2>4, <2>6 DEF Verdict
    <3>2. a[d] \in Identifiers /\ b[d] \in Identifiers /\ a[d] # b[d] /\ d \in DOMAIN a \cap DOMAIN b
      BY <2>2, <2>4, <2>6 DEF Stops
    <3>3. AgreeBefore(a, b, d)
      BY <2>4 DEF AgreeBefore
    <3>4. ~(Len(a) < Len(b) /\ AgreeBefore(a, b, Len(a) + 1))
      <4>1. d \in 1 .. ((Len(a) + 1) - 1)
        BY <2>4, <2>6
      <4>2. QED
        BY <3>2, <4>1 DEF AgreeBefore
    <3>5. ASSUME NEW i \in DOMAIN a \cap DOMAIN b, AgreeBefore(a, b, i), IdentifierLower(a[i], b[i])
          PROVE  i = d
      <4>1. i \in Nat /\ a[i] \in Identifiers
        OBVIOUS
      <4>2. ~(d < i)
        BY <2>4, <3>2, <3>5, <4>1 DEF AgreeBefore
      <4>3. ~(i < d)
        <5> SUFFICES ASSUME i < d PROVE FALSE
          OBVIOUS
        <5>1. a[i] = b[i]
          BY <2>4, <4>1
        <5>2. QED
          BY <3>5, <4>1, <5>1, IdentifierOrder
      <4>4. QED
        BY <2>4, <4>1, <4>2, <4>3
    <3>6. PrereleaseLower(a, b) <=> IdentifierLower(a[d], b[d])
      BY <1>2, <3>2, <3>3, <3>4, <3>5 DEF PrereleaseLower
    <3>7. a # b
      BY <3>2
    <3>8. compare_identifiers(a[d], b[d]) \in {-1, 1}
          /\ (compare_identifiers(a[d], b[d]) = -1 <=> IdentifierLower(a[d], b[d]))
      BY <3>2, IdentifierOrder
    <3>9. QED
      BY <2>3, <3>1, <3>6, <3>7, <3>8
  <2>7. QED
    BY <2>4, <2>5, <2>6
<1>3. QED
  BY <1>1, <1>2

(* ota_semver_compare orders versions as Semantic Versioning does, for      *)
(* numbers of any size and prereleases of any length.                       *)
THEOREM CompareIsPrecedence ==
    ASSUME NEW u \in Versions, NEW v \in Versions
    PROVE  /\ ota_semver_compare(u, v) < 0 <=> Lower(u, v)
           /\ ota_semver_compare(u, v) = 0 <=> u = v
<1>1. PICK a1 \in Nat, a2 \in Nat, a3 \in Nat : u.core = <<a1, a2, a3>>
  BY DEF Versions
<1>2. PICK b1 \in Nat, b2 \in Nat, b3 \in Nat : v.core = <<b1, b2, b3>>
  BY DEF Versions
<1>3. u.pre \in Seq(Identifiers) /\ v.pre \in Seq(Identifiers)
  BY DEF Versions
<1>4. u = v <=> u.core = v.core /\ u.pre = v.pre
  BY DEF Versions
<1>5. u.core = v.core <=> a1 = b1 /\ a2 = b2 /\ a3 = b3
  BY <1>1, <1>2
<1>6. /\ u.core[1] = a1 /\ u.core[2] = a2 /\ u.core[3] = a3
      /\ v.core[1] = b1 /\ v.core[2] = b2 /\ v.core[3] = b3
  BY <1>1, <1>2
<1> DEFINE c == compare_prerelease(u.pre, v.pre)
           P == PrereleaseLower(u.pre, v.pre)
<1>7. c \in {-1, 0, 1} /\ (c = -1 <=> P) /\ (c = 0 <=> u.pre = v.pre)
  BY <1>3, PrereleaseOrder
<1>8. ota_semver_compare(u, v) =
        IF a1 # b1 THEN Sign(a1, b1) ELSE IF a2 # b2 THEN Sign(a2, b2)
        ELSE IF a3 # b3 THEN Sign(a3, b3) ELSE c
  BY <1>6 DEF ota_semver_compare
<1>9. Lower(u, v) <=> \/ a1 < b1
                      \/ a1 = b1 /\ a2 < b2
                      \/ a1 = b1 /\ a2 = b2 /\ a3 < b3
                      \/ a1 = b1 /\ a2 = b2 /\ a3 = b3 /\ P
  <2>1. AgreeBefore(u.core, v.core, 1)
    BY DEF AgreeBefore
  <2>2. AgreeBefore(u.core, v.core, 2) <=> a1 = b1
    <3>1. 1 .. (2 - 1) = {1}
      OBVIOUS
    <3>2. QED
      BY <1>6, <3>1 DEF AgreeBefore
  <2>3. AgreeBefore(u.core, v.core, 3) <=> a1 = b1 /\ a2 = b2
    <3>1. 1 .. (3 - 1) = {1, 2}
      OBVIOUS
    <3>2. QED
      BY <1>6, <3>1 DEF AgreeBefore
  <2>4. 1 .. 3 = {1, 2, 3}
    OBVIOUS
  <2> HIDE DEF P
  <2>5. QED
    BY <1>5, <1>6, <2>1, <2>2, <2>3, <2>4 DEF Lower, P
<1> HIDE DEF c, P
<1>10. QED
  BY <1>4, <1>5, <1>7, <1>8, <1>9 DEF Sign

-----------------------------------------------------------------------------
(* The images and the resets. *)

(* What a reset reads and what it makes of it are of their types. *)
LEMMA ResetTypes ==
    ASSUME TypeOK, NEW reason, NEW lost \in BOOLEAN, NEW left_by \in CrumbType,
           NEW why \in {"none", "requested", "update"},
           NEW ended \in {"poweron", "panic", "brownout", "step", "sw"},
           Reset(reason, lost, left_by, why, ended)
    PROVE  /\ OtaTypeOK'
           /\ app' \in AppType
           /\ rtc' \in 0..DeepAfter
           /\ crumbs' \in CrumbType
           /\ seen' \in [streak : 0..DeepAfter, why : {"none", "requested", "update"},
                         ended : {"poweron", "panic", "brownout", "step", "sw"}]
<1>1. OtaTypeOK'
  BY DEF Reset, Boots, TypeOK, OtaTypeOK, Started, Other, Slots, SlotStates, NoUpload
<1>2. Started \in Slots
  BY DEF Started, Other, TypeOK, OtaTypeOK, Slots
<1>3. rtc' \in 0..DeepAfter
  BY BootAssumption DEF Reset, Crashes, Counted, TypeOK
<1>4. ModeAfter(rtc') \in 0..2
  BY DEF ModeAfter
<1>5. RestartCause(reason, left_by) \in {"none", "not_recorded", "requested", "update"}
  BY DEF RestartCause, CrumbType
<1>6. Fresh(reason, left_by) \in BOOLEAN
  BY DEF Fresh
<1>7. CrashText(reason, left_by) \in {"none", "step", "panic", "brownout"}
  BY DEF CrashText, CrumbType
<1>8. app' \in AppType
  BY <1>2, <1>4, <1>5, <1>6 DEF Reset, Boot, AppType
<1>9. crumbs' \in CrumbType
  BY <1>7 DEF Reset, TakenCrumbs, NoCrumbs, CrumbType
<1>10. seen' \in [streak : 0..DeepAfter, why : {"none", "requested", "update"},
                  ended : {"poweron", "panic", "brownout", "step", "sw"}]
  BY BootAssumption DEF Reset, Counted, TypeOK
<1>11. QED
  BY <1>1, <1>3, <1>8, <1>9, <1>10

(* What a boot leaves for the next one is read once and then erased, the    *)
(* counter is the resets in a row, and safe mode follows it.                *)
DiagInv ==
    /\ crumbs.cause = "none" /\ ~crumbs.fatal /\ ~crumbs.dump
    /\ rtc = seen.streak
    /\ ~app.stable => app.mode = ModeAfter(rtc)
    /\ CauseIsOwn
    /\ FreshCrashIsLast

(* The running slot is whole.  While it is not confirmed the other one is   *)
(* the image to fall back to, and no upload touches it.  A slot that is      *)
(* selected for the next boot instead of the running one holds an image      *)
(* that the policy accepted.                                                 *)
SlotInv ==
    /\ slots[app.slot].whole
    /\ slots[app.slot].state \in {"undefined", "pending", "valid"}
    /\ slots[app.slot].state = "pending" =>
         /\ upload = NoUpload
         /\ selected = app.slot
         /\ slots[Other(app.slot)].whole
         /\ slots[Other(app.slot)].state \in {"undefined", "valid"}
    /\ selected # app.slot =>
         slots[selected].image.secure >= slots[app.slot].image.secure
    /\ upload.stage \in {"writing", "written"} =>
         upload.image.secure >= slots[app.slot].image.secure

(* What the crumbs say is how the boot ended. *)
Honest(reason, left_by, why, ended) ==
    /\ reason = "sw" => left_by.cause \in {"none", why}
    /\ left_by.fatal => ended = "step"
    /\ ~left_by.fatal /\ left_by.dump => reason = "panic" /\ ended = "panic"
    /\ ~left_by.fatal /\ ~left_by.dump /\ reason = "brownout" => ended = "brownout"

ResetActions ==
    \/ FaultyCrash \/ AnyCrash \/ PowerDips \/ PowerOn \/ gateway_diag_boot_step_failed
    \/ gateway_diag_restart \/ restart_not_noted \/ restart_crashes

(* No boot changes to a lower secure version, but by giving an image up. *)
SecureStep ==
    slots'[app'.slot].image.secure < slots[app.slot].image.secure
      => slots[app.slot].state = "pending"

(* A reset keeps the two invariants. *)
LEMMA ResetKeeps ==
    ASSUME TypeOK, DiagInv, SlotInv, NEW reason, NEW lost \in BOOLEAN,
           NEW left_by \in CrumbType, NEW why \in {"none", "requested", "update"},
           NEW ended \in {"poweron", "panic", "brownout", "step", "sw"},
           Reset(reason, lost, left_by, why, ended), Honest(reason, left_by, why, ended),
           left' \in 0..MaxDisturbances
    PROVE  TypeOK' /\ DiagInv' /\ SlotInv' /\ SecureStep
<1>1. TypeOK'
  BY ResetTypes DEF TypeOK
<1>2. DiagInv'
  <2>1. crumbs'.cause = "none" /\ ~crumbs'.fatal /\ ~crumbs'.dump
    BY DEF Reset, TakenCrumbs, NoCrumbs
  <2>2. rtc' = seen'.streak
    BY BootAssumption DEF Reset, Crashes, Counted, DiagInv
  <2>3. app'.mode = ModeAfter(rtc')
    BY DEF Reset, Boot
  <2>4. CauseIsOwn'
    BY DEF CauseIsOwn, Reset, Boot, RestartCause, Honest
  <2>5. FreshCrashIsLast'
    BY DEF FreshCrashIsLast, Reset, Boot, Fresh, CrashText, TakenCrumbs, NoCrumbs, Honest,
       CrumbType, Abnormal
  <2>6. QED
    BY <2>1, <2>2, <2>3, <2>4, <2>5 DEF DiagInv
<1>3. /\ app'.slot = Started /\ selected' = Started /\ upload' = NoUpload
      /\ Acceptable(Started) /\ Bootable
  BY DEF Reset, Boots, Boot, Bootable, Started
<1>4. /\ app.slot \in Slots /\ selected \in Slots /\ Started \in Slots
      /\ \A s \in Slots : Other(s) \in Slots /\ Other(s) # s /\ Other(Other(s)) = s
      /\ \A s \in Slots : slots[s].image \in Images /\ slots[s].whole \in BOOLEAN
                          /\ slots[s].state \in SlotStates
  BY DEF TypeOK, OtaTypeOK, AppType, Slots, Other, Started
<1>5. /\ slots'[Started].image = slots[Started].image
      /\ slots'[Started].whole = slots[Started].whole
      /\ slots'[Started].state = IF slots[Started].state = "new" THEN "pending"
                                 ELSE slots[Started].state
      /\ Other(Started) # selected => slots'[Other(Started)] = slots[Other(Started)]
  BY <1>4 DEF Reset, Boots, TypeOK, OtaTypeOK
<1>6. slots[Started].state = "new" =>
        /\ Started = Other(app.slot) /\ Started = selected
        /\ slots[app.slot].state \in {"undefined", "valid"}
  BY <1>4 DEF Started, Acceptable, SlotInv, Slots, Other
<1>7. SlotInv'
  BY <1>3, <1>4, <1>5, <1>6 DEF SlotInv, Acceptable, NoUpload, Slots, Other
<1>8. SecureStep
  <2>1. CASE Started = app.slot
    BY <2>1, <1>3, <1>5, <1>4, BootAssumption DEF SecureStep
  <2>2. CASE Started # app.slot /\ slots[app.slot].state # "pending"
    <3>1. selected = Started
      BY <2>2, <1>4 DEF SlotInv, Started, Acceptable, Slots, Other
    <3>2. QED
      BY <3>1, <2>2, <1>3, <1>4, <1>5, BootAssumption DEF SecureStep, SlotInv
  <2>3. QED
    BY <2>1, <2>2 DEF SecureStep
<1>9. QED
  BY <1>1, <1>2, <1>7, <1>8

(* Whichever way a boot ends, what it leaves tells how it ended. *)
LEMMA ResetActionsKeep ==
    ASSUME TypeOK, DiagInv, SlotInv, ResetActions
    PROVE  TypeOK' /\ DiagInv' /\ SlotInv' /\ SecureStep
<1>0. /\ crumbs \in CrumbType
      /\ WithDump \in CrumbType /\ WithDump.dump /\ ~WithDump.fatal
      /\ [WithDump EXCEPT !.fatal = TRUE] \in CrumbType
      /\ [WithDump EXCEPT !.fatal = TRUE].fatal
      /\ app.restart # "none" =>
           /\ [crumbs EXCEPT !.cause = app.restart] \in CrumbType
           /\ [crumbs EXCEPT !.cause = app.restart].cause = app.restart
           /\ ~[crumbs EXCEPT !.cause = app.restart].dump
           /\ ~[crumbs EXCEPT !.cause = app.restart].fatal
           /\ [WithDump EXCEPT !.cause = app.restart] \in CrumbType
           /\ [WithDump EXCEPT !.cause = app.restart].dump
           /\ ~[WithDump EXCEPT !.cause = app.restart].fatal
  BY DEF TypeOK, CrumbType, AppType, WithDump, DiagInv
<1> app.restart \in {"none", "requested", "update"}
  BY DEF TypeOK, AppType
<1>1. left' \in 0..MaxDisturbances
  <2>1. left' = left \/ Disturb
    BY Zenon DEF ResetActions, FaultyCrash, AnyCrash, PowerDips, PowerOn,
       gateway_diag_boot_step_failed, gateway_diag_restart, restart_not_noted,
       restart_crashes
  <2>2. QED
    BY <2>1, BootAssumption DEF Disturb, TypeOK
<1>2. CASE FaultyCrash
  <2>1. Reset("panic", FALSE, WithDump, "none", "panic")
    BY <1>2 DEF FaultyCrash
  <2>2. Honest("panic", WithDump, "none", "panic")
    BY <1>0 DEF Honest
  <2>3. QED
    BY <2>1, <2>2, <1>0, <1>1, ResetKeeps
<1>3. CASE AnyCrash
  <2>1. Reset("panic", FALSE, WithDump, "none", "panic")
    BY <1>3 DEF AnyCrash
  <2>2. Honest("panic", WithDump, "none", "panic")
    BY <1>0 DEF Honest
  <2>3. QED
    BY <2>1, <2>2, <1>0, <1>1, ResetKeeps
<1>4. CASE PowerDips
  <2>1. PICK lost \in BOOLEAN : Reset("brownout", lost, crumbs, "none", "brownout")
    BY <1>4 DEF PowerDips
  <2>2. Honest("brownout", crumbs, "none", "brownout")
    BY DEF DiagInv, Honest
  <2>3. QED
    BY <2>1, <2>2, <1>0, <1>1, ResetKeeps
<1>5. CASE PowerOn
  <2>1. Reset("poweron", TRUE, crumbs, "none", "poweron")
    BY <1>5 DEF PowerOn
  <2>2. Honest("poweron", crumbs, "none", "poweron")
    BY DEF DiagInv, Honest
  <2>3. QED
    BY <2>1, <2>2, <1>0, <1>1, ResetKeeps
<1>6. CASE gateway_diag_boot_step_failed
  <2>1. PICK reason \in {"panic", "poweron"} :
          Reset(reason, reason = "poweron", [WithDump EXCEPT !.fatal = TRUE], "none", "step")
    BY <1>6 DEF gateway_diag_boot_step_failed
  <2>2. Honest(reason, [WithDump EXCEPT !.fatal = TRUE], "none", "step")
    BY <1>0 DEF Honest
  <2>3. (reason = "poweron") \in BOOLEAN
    OBVIOUS
  <2>4. QED
    BY <2>1, <2>2, <2>3, <1>0, <1>1, ResetKeeps
<1>7. CASE gateway_diag_restart
  <2>1. /\ app.restart # "none"
        /\ Reset("sw", FALSE, [crumbs EXCEPT !.cause = app.restart], app.restart, "sw")
    BY <1>7 DEF gateway_diag_restart
  <2>2. Honest("sw", [crumbs EXCEPT !.cause = app.restart], app.restart, "sw")
    BY <2>1, <1>0 DEF Honest
  <2>3. QED
    BY <2>1, <2>2, <1>0, <1>1, ResetKeeps
<1>8. CASE restart_not_noted
  <2>1. Reset("sw", FALSE, crumbs, app.restart, "sw")
    BY <1>8 DEF restart_not_noted
  <2>2. Honest("sw", crumbs, app.restart, "sw")
    BY DEF DiagInv, Honest
  <2>3. QED
    BY <2>1, <2>2, <1>0, <1>1, ResetKeeps
<1>9. CASE restart_crashes
  <2>1. /\ app.restart # "none"
        /\ Reset("panic", FALSE, [WithDump EXCEPT !.cause = app.restart], "none", "panic")
    BY <1>9 DEF restart_crashes
  <2>2. Honest("panic", [WithDump EXCEPT !.cause = app.restart], "none", "panic")
    BY <2>1, <1>0 DEF Honest
  <2>3. QED
    BY <2>1, <2>2, <1>0, <1>1, ResetKeeps
<1>10. QED
  BY <1>1, <1>2, <1>3, <1>4, <1>5, <1>6, <1>7, <1>8, <1>9 DEF ResetActions


-----------------------------------------------------------------------------
(* The steps within a boot. *)

(* The decision is one of Decisions, and accepts no lower secure version. *)
LEMMA Decides ==
    ASSUME NEW running \in Images, NEW candidate \in Images, NEW reinstall, NEW downgrade
    PROVE  LET d == ota_version_policy_decide(running, candidate, reinstall, downgrade)
           IN  d \in Decisions /\ (d = "accept" => candidate.secure >= running.secure)
<1> DEFINE c == ota_semver_compare(candidate.version, running.version)
           d == ota_version_policy_decide(running, candidate, reinstall, downgrade)
<1>1. candidate.secure \in Nat /\ running.secure \in Nat
  BY BootAssumption
<1>2. d \in Decisions
  BY Zenon DEF ota_version_policy_decide, Decisions
<1>3. d = "accept" => ~(candidate.secure < running.secure)
  BY DEF ota_version_policy_decide
<1>4. QED
  BY <1>1, <1>2, <1>3

(* An upload is decided on with the running image. *)
LEMMA UploadSteps ==
    ASSUME TypeOK, SlotInv, BootUnchanged,
           \/ firmware_begin \/ firmware_receive \/ firmware_lost \/ firmware_rejected
    PROVE  OtaTypeOK' /\ SlotInv'
<1> USE DEF BootUnchanged
<1>0. /\ app.slot \in Slots /\ Other(app.slot) \in Slots /\ Other(app.slot) # app.slot
      /\ app' = app
  BY DEF TypeOK, AppType, Other, Slots
<1>1. CASE firmware_begin
  <2>1. PICK image \in Images, hashOk \in BOOLEAN, reinstall \in BOOLEAN,
             downgrade \in BOOLEAN :
          gateway_ota_begin(app.slot, image, hashOk, reinstall, downgrade)
    BY <1>1 DEF firmware_begin
  <2>2. QED
    BY <2>1, <1>0 DEF gateway_ota_begin, TypeOK, OtaTypeOK, SlotInv, Decisions, NoUpload
<1>2. CASE validate_prefix_and_start(app.slot)
  <2> DEFINE d == ota_version_policy_decide(slots[app.slot].image, upload.image,
                                            upload.reinstall, upload.downgrade)
  <2>1. upload # NoUpload /\ upload.image \in Images /\ slots[app.slot].image \in Images
        /\ slots[app.slot].state # "pending"
    BY <1>2, <1>0 DEF validate_prefix_and_start, TypeOK, OtaTypeOK, NoUpload, SlotInv
  <2>2. d \in Decisions
        /\ (d = "accept" => upload.image.secure >= slots[app.slot].image.secure)
    BY <2>1, Decides
  <2> HIDE DEF d
  <2>3. /\ upload' = [upload EXCEPT !.decision = d,
                        !.stage = IF d = "accept" THEN "writing" ELSE "failed"]
        /\ slots' = IF d = "accept"
                    THEN [slots EXCEPT ![Other(app.slot)].whole = FALSE] ELSE slots
        /\ selected' = selected
    BY <1>2 DEF validate_prefix_and_start, d
  <2>4. OtaTypeOK'
    <3>1. slots' \in [Slots -> [image : Images, whole : BOOLEAN, state : SlotStates]]
      <4>1. slots \in [Slots -> [image : Images, whole : BOOLEAN, state : SlotStates]]
        BY DEF TypeOK, OtaTypeOK
      <4>2. PICK o \in Slots : o = Other(app.slot)
        BY <1>0
      <4>3. [slots[o] EXCEPT !.whole = FALSE]
              \in [image : Images, whole : BOOLEAN, state : SlotStates]
        BY <4>1
      <4>4. slots' = slots \/ slots' = [slots EXCEPT ![o] = [slots[o] EXCEPT !.whole = FALSE]]
        BY <2>3, <4>2
      <4>5. QED
        BY <4>1, <4>3, <4>4
    <3>2. upload' \in [stage : {"header", "writing", "written", "failed"}, image : Images,
                       hashOk : BOOLEAN, reinstall : BOOLEAN, downgrade : BOOLEAN,
                       decision : Decisions]
      <4>1. upload \in [stage : {"header", "writing", "written", "failed"}, image : Images,
                       hashOk : BOOLEAN, reinstall : BOOLEAN, downgrade : BOOLEAN,
                       decision : Decisions]
        BY <2>1 DEF TypeOK, OtaTypeOK
      <4>2. PICK e \in {"writing", "failed"} : upload' = [upload EXCEPT !.decision = d, !.stage = e]
        BY <2>3
      <4>3. d \in Decisions
        BY <2>2
      <4>4. QED
        BY <4>1, <4>2, <4>3
    <3>3. QED
      BY <2>3, <3>1, <3>2 DEF TypeOK, OtaTypeOK
  <2>5. slots'[app.slot] = slots[app.slot]
        /\ \A s \in Slots : slots'[s].image = slots[s].image
    BY <2>3, <1>0 DEF TypeOK, OtaTypeOK
  <2>6. upload'.stage = "writing" => d = "accept"
    BY <2>3, <2>1 DEF TypeOK, OtaTypeOK
  <2>7. upload'.image = upload.image /\ upload'.stage \in {"writing", "failed"}
    BY <2>3, <2>1 DEF TypeOK, OtaTypeOK
  <2>8. SlotInv'
    BY <2>1, <2>2, <2>3, <2>5, <2>6, <2>7, <1>0 DEF SlotInv, TypeOK, OtaTypeOK
  <2>9. QED
    BY <2>4, <2>8
<1>3. CASE gateway_ota_write
  BY <1>3, <1>0 DEF gateway_ota_write, TypeOK, OtaTypeOK, SlotInv, NoUpload
<1>4. CASE upload_fails
  BY <1>4, <1>0 DEF upload_fails, TypeOK, OtaTypeOK, SlotInv, NoUpload
<1>5. CASE gateway_ota_abort
  BY <1>5, <1>0 DEF gateway_ota_abort, TypeOK, OtaTypeOK, SlotInv, NoUpload
<1>6. CASE gateway_ota_finish_mismatch
  BY <1>6, <1>0 DEF gateway_ota_finish_mismatch, TypeOK, OtaTypeOK, SlotInv, NoUpload
<1>7. QED
  BY <1>1, <1>2, <1>3, <1>4, <1>5, <1>6 DEF firmware_receive, firmware_lost, firmware_rejected

(* A finished upload selects the other slot, with an image as good as its  *)
(* header was when the policy saw it.                                      *)
LEMMA FinishSteps ==
    ASSUME TypeOK, SlotInv, gateway_ota_finish(app.slot), app'.slot = app.slot
    PROVE  OtaTypeOK' /\ SlotInv'
<1>0. /\ app.slot \in Slots /\ Other(app.slot) \in Slots /\ Other(app.slot) # app.slot
  BY DEF TypeOK, AppType, Other, Slots
<1>1. upload # NoUpload /\ upload.image \in Images
      /\ upload.image.secure >= slots[app.slot].image.secure
      /\ slots[app.slot].state # "pending"
  BY DEF gateway_ota_finish, TypeOK, OtaTypeOK, NoUpload, SlotInv
<1>2. /\ slots' = [slots EXCEPT ![Other(app.slot)] = Slot(upload.image, TRUE, "new")]
      /\ selected' = Other(app.slot) /\ upload' = NoUpload
  BY DEF gateway_ota_finish
<1>3. slots'[app.slot] = slots[app.slot] /\ slots'[Other(app.slot)].image = upload.image
  BY <1>0, <1>2 DEF TypeOK, OtaTypeOK, Slot
<1>4. OtaTypeOK'
  BY <1>0, <1>1, <1>2 DEF TypeOK, OtaTypeOK, Slot, SlotStates
<1>5. SlotInv'
  BY <1>0, <1>1, <1>2, <1>3 DEF SlotInv, NoUpload
<1>6. QED
  BY <1>4, <1>5

(* DiagInv and the types of what it speaks of depend on nothing that an    *)
(* upload changes.                                                         *)
LEMMA BootSteps ==
    ASSUME TypeOK, DiagInv, SlotInv,
           \/ mark_services_ready \/ confirm_task \/ stable_cb \/ request_restart
           \/ firmware_begin \/ Handler \/ firmware_lost \/ firmware_unanswered
    PROVE  TypeOK' /\ DiagInv' /\ SlotInv' /\ app'.slot = app.slot
<1>0. app.slot \in Slots /\ Other(app.slot) \in Slots /\ Other(app.slot) # app.slot
  BY DEF TypeOK, AppType, Other, Slots
<1>1. CASE mark_services_ready
  <2>1. /\ app' = [app EXCEPT !.ready = TRUE, !.confirm = (slots[app.slot].state = "pending")]
        /\ UNCHANGED <<slots, selected, upload, rtc, crumbs, left, seen>>
    BY <1>1 DEF mark_services_ready
  <2>2. app' \in AppType /\ app'.slot = app.slot /\ app'.stable = app.stable
        /\ app'.mode = app.mode /\ app'.cause = app.cause /\ app'.fresh = app.fresh
    BY <2>1 DEF TypeOK, AppType
  <2>3. QED
    BY <2>1, <2>2 DEF TypeOK, OtaTypeOK, DiagInv, CauseIsOwn, FreshCrashIsLast, SlotInv
<1>2. CASE confirm_task
  <2>1. /\ app' = [app EXCEPT !.confirm = FALSE] /\ app' \in AppType /\ app'.slot = app.slot
        /\ UNCHANGED <<selected, upload, rtc, crumbs, left, seen>>
    BY <1>2 DEF confirm_task, ota_confirm, TypeOK, AppType
  <2>2. slots' = IF slots[app.slot].state = "pending"
                 THEN [slots EXCEPT ![app.slot].state = "valid"] ELSE slots
    BY <1>2 DEF confirm_task, ota_confirm
  <2>3. OtaTypeOK'
    BY <2>1, <2>2, <1>0 DEF TypeOK, OtaTypeOK, SlotStates
  <2>4. DiagInv'
    BY <2>1 DEF DiagInv, CauseIsOwn, FreshCrashIsLast, TypeOK, AppType
  <2>5. /\ slots'[app.slot].whole = slots[app.slot].whole
        /\ slots'[app.slot].state \in {"undefined", "valid"}
        /\ \A s \in Slots : slots'[s].image = slots[s].image
    <3>1. PICK a \in Slots : a = app.slot
      BY <1>0
    <3>2. CASE slots[a].state = "pending"
      <4>1. slots' = [slots EXCEPT ![a].state = "valid"]
        BY <2>2, <3>1, <3>2
      <4>2. slots'[a] = [slots[a] EXCEPT !.state = "valid"]
            /\ \A s \in Slots : s # a => slots'[s] = slots[s]
        BY <3>1, <4>1 DEF TypeOK, OtaTypeOK
      <4>3. slots'[a].whole = slots[a].whole /\ slots'[a].state = "valid"
            /\ slots'[a].image = slots[a].image
        BY <4>2 DEF TypeOK, OtaTypeOK
      <4>4. QED
        BY <3>1, <4>2, <4>3
    <3>3. CASE slots[a].state # "pending"
      BY <2>2, <3>1, <3>3 DEF SlotInv
    <3>4. QED
      BY <3>2, <3>3
  <2>6. SlotInv'
    <3>1. slots'[app'.slot].whole /\ slots'[app'.slot].state \in {"undefined", "valid"}
      BY <2>1, <2>5 DEF SlotInv
    <3>2. selected \in Slots /\ app.slot \in Slots
      BY <1>0 DEF TypeOK, OtaTypeOK
    <3>3. slots'[selected].image = slots[selected].image
          /\ slots'[app.slot].image = slots[app.slot].image
      BY <2>5, <3>2
    <3>4. QED
      BY <2>1, <3>1, <3>3 DEF SlotInv
  <2>7. QED
    BY <2>1, <2>3, <2>4, <2>6 DEF TypeOK
<1>3. CASE stable_cb
  <2>1. app' \in AppType /\ app'.slot = app.slot /\ app'.stable
        /\ app'.cause = app.cause /\ app'.fresh = app.fresh
    BY <1>3 DEF stable_cb, TypeOK, AppType
  <2>2. /\ rtc' = 0 /\ seen' = [seen EXCEPT !.streak = 0]
        /\ UNCHANGED <<slots, selected, upload, crumbs, left>>
    BY <1>3 DEF stable_cb
  <2>3. seen'.why = seen.why /\ seen'.ended = seen.ended /\ seen'.streak = 0
    BY <2>2 DEF TypeOK
  <2>4. QED
    BY <2>1, <2>2, <2>3, BootAssumption DEF TypeOK, OtaTypeOK, DiagInv, CauseIsOwn, FreshCrashIsLast,
       SlotInv
<1>4. CASE request_restart
  <2>1. left' \in 0..MaxDisturbances
    BY <1>4, BootAssumption DEF request_restart, Disturb, TypeOK
  <2>2. QED
    BY <1>4, <2>1 DEF request_restart, TypeOK, OtaTypeOK, AppType, DiagInv, CauseIsOwn,
       FreshCrashIsLast, SlotInv
<1>5. ASSUME firmware_begin \/ firmware_receive \/ firmware_lost \/ firmware_rejected
      PROVE  TypeOK' /\ DiagInv' /\ SlotInv' /\ app'.slot = app.slot
  <2>1. BootUnchanged /\ (left' = left \/ Disturb)
    BY <1>5, Zenon DEF firmware_begin, firmware_receive, firmware_lost, firmware_rejected
  <2>2. left' \in 0..MaxDisturbances
    BY <2>1, BootAssumption DEF Disturb, TypeOK
  <2>3. OtaTypeOK' /\ SlotInv'
    BY <1>5, <2>1, UploadSteps
  <2>4. QED
    BY <2>1, <2>2, <2>3 DEF BootUnchanged, TypeOK, DiagInv, CauseIsOwn, FreshCrashIsLast
<1>6. CASE firmware_installed
  <2>1. gateway_ota_finish(app.slot) /\ app' \in AppType /\ app'.slot = app.slot
    BY <1>6 DEF firmware_installed, TypeOK, AppType
  <2>2. OtaTypeOK' /\ SlotInv'
    BY <2>1, FinishSteps
  <2>3. QED
    BY <1>6, <2>1, <2>2 DEF firmware_installed, TypeOK, AppType, DiagInv, CauseIsOwn,
       FreshCrashIsLast
<1>7. CASE firmware_unanswered
  <2>1. gateway_ota_finish(app.slot) /\ BootUnchanged /\ left' \in 0..MaxDisturbances
    BY <1>7, BootAssumption DEF firmware_unanswered, Disturb, TypeOK
  <2>2. OtaTypeOK' /\ SlotInv'
    BY <2>1, FinishSteps DEF BootUnchanged
  <2>3. QED
    BY <2>1, <2>2 DEF BootUnchanged, TypeOK, DiagInv, CauseIsOwn, FreshCrashIsLast
<1>8. QED
  BY <1>1, <1>2, <1>3, <1>4, <1>5, <1>6, <1>7 DEF Handler

BootInv == TypeOK /\ DiagInv /\ SlotInv

(* A delivered gateway satisfies the invariant. *)
LEMMA InitBootInv == Init => BootInv
<1> SUFFICES ASSUME Init PROVE BootInv
  OBVIOUS
<1>1. TypeOK
  BY BootAssumption DEF Init, OtaInit, Boot, NoCrumbs, TypeOK, OtaTypeOK, AppType, CrumbType,
     Slots, SlotStates, Slot, NoUpload
<1>2. DiagInv
  BY BootAssumption DEF Init, Boot, NoCrumbs, DiagInv, ModeAfter, CauseIsOwn, FreshCrashIsLast
<1>3. SlotInv
  BY DEF Init, OtaInit, Boot, SlotInv, Slots, Slot, NoUpload
<1>4. QED
  BY <1>1, <1>2, <1>3 DEF BootInv

(* No step during a boot writes the slot that runs. *)
LEMMA RunningImageKept ==
    ASSUME TypeOK,
           \/ mark_services_ready \/ confirm_task \/ stable_cb \/ request_restart
           \/ firmware_begin \/ Handler \/ firmware_lost \/ firmware_unanswered
    PROVE  slots'[app.slot].image = slots[app.slot].image
  BY DEF TypeOK, OtaTypeOK, AppType, Slots, Other, Slot, Handler,
     mark_services_ready, confirm_task, ota_confirm, stable_cb, request_restart,
     firmware_begin, gateway_ota_begin, firmware_receive, validate_prefix_and_start,
     gateway_ota_write, firmware_rejected, gateway_ota_abort, gateway_ota_finish_mismatch,
     firmware_installed, gateway_ota_finish, firmware_lost, upload_fails, firmware_unanswered

(* Every step keeps it, and never runs an image of a lower secure version. *)
LEMMA StepBootInv == BootInv /\ [Next]_vars => BootInv' /\ (SecureStep \/ UNCHANGED vars)
<1> SUFFICES ASSUME BootInv, [Next]_vars PROVE BootInv' /\ (SecureStep \/ UNCHANGED vars)
  OBVIOUS
<1> USE DEF BootInv
<1>1. CASE ResetActions
  BY <1>1, ResetActionsKeep
<1>2. ASSUME \/ mark_services_ready \/ confirm_task \/ stable_cb \/ request_restart
             \/ firmware_begin \/ Handler \/ firmware_lost \/ firmware_unanswered
      PROVE  BootInv' /\ SecureStep
  <2>1. TypeOK' /\ DiagInv' /\ SlotInv' /\ app'.slot = app.slot
    BY <1>2, BootSteps
  <2>2. slots'[app.slot].image = slots[app.slot].image
    BY <1>2, RunningImageKept
  <2>3. slots[app.slot].image.secure \in Nat
    <3>1. slots[app.slot].image \in Images
      BY DEF TypeOK, OtaTypeOK, AppType
    <3>2. QED
      BY <3>1, BootAssumption
  <2>4. slots'[app'.slot].image.secure = slots[app.slot].image.secure
    BY <2>1, <2>2
  <2>5. SecureStep
    BY <2>3, <2>4 DEF SecureStep
  <2>6. QED
    BY <2>1, <2>5
<1>3. CASE UNCHANGED vars
  <2>1. TypeOK'
    BY <1>3 DEF vars, TypeOK, OtaTypeOK
  <2>2. DiagInv'
    BY <1>3 DEF vars, DiagInv, CauseIsOwn, FreshCrashIsLast
  <2>3. SlotInv'
    BY <1>3 DEF vars, SlotInv
  <2>4. QED
    BY <1>3, <2>1, <2>2, <2>3
<1>4. QED
  BY <1>1, <1>2, <1>3 DEF Next, ResetActions

-----------------------------------------------------------------------------
(* The invariant holds in every behaviour. *)
LEMMA BootInvariant == Spec => []BootInv
BY InitBootInv, StepBootInv, PTL DEF Spec

(* Type correctness of the boot, diagnostics and update records. *)
THEOREM TypeCorrect == Spec => []TypeOK
<1>1. BootInv => TypeOK
  BY DEF BootInv
<1>2. QED
  BY BootInvariant, <1>1, PTL

(* However uploads (gateway_ota_write erases a slot), confirmations and     *)
(* resets interleave, the bootloader finds an image to start: the running   *)
(* slot is never written, and until it is confirmed the other is not either.*)
THEOREM NeverBricked == Spec => []AlwaysBootable
<1>1. BootInv => AlwaysBootable
  BY DEF BootInv, SlotInv, AlwaysBootable, Bootable, Acceptable, TypeOK, OtaTypeOK, AppType,
     Slots, Other
<1>2. QED
  BY BootInvariant, <1>1, PTL

(* Safe mode is on exactly after as many abnormal resets in a row as        *)
(* gateway_diag_init asks for, until a minute of running.                   *)
THEOREM SafeModeExact == Spec => []SafeModeFollowsCrashes
<1>1. BootInv => SafeModeFollowsCrashes
  BY BootAssumption DEF BootInv, DiagInv, SafeModeFollowsCrashes, ModeAfter, TypeOK
<1>2. QED
  BY BootInvariant, <1>1, PTL

(* The cause told for a restart is that of the restart that began this      *)
(* boot: take_string erases what it reads.                                  *)
THEOREM CauseOwn == Spec => []CauseIsOwn
<1>1. BootInv => CauseIsOwn
  BY DEF BootInv, DiagInv
<1>2. QED
  BY BootInvariant, <1>1, PTL

(* A crash that is told as fresh is how the previous boot ended.            *)
THEOREM CrashOwn == Spec => []FreshCrashIsLast
<1>1. BootInv => FreshCrashIsLast
  BY DEF BootInv, DiagInv
<1>2. QED
  BY BootInvariant, <1>1, PTL

(* Both together: what gateway_diag_init tells of the last reset is about   *)
(* the last reset.                                                          *)
THEOREM ResetToldTruly == Spec => []ResetTold
  BY CauseOwn, CrashOwn, PTL DEF ResetTold

-----------------------------------------------------------------------------
(* What an upload was judged to be, against the image that runs. *)
Judged(u, running) ==
    /\ u.decision = "accept" =>
         /\ u.image.project = running.project
         /\ u.image.secure >= running.secure
         /\ u.image.version # Malformed
         /\ Lower(u.image.version, running.version) => u.downgrade
         /\ u.image.version = running.version => u.reinstall
    /\ u.decision = "downgrade" => Lower(u.image.version, running.version)
    /\ u.decision = "reinstall" => u.image.version = running.version

(* ota_version_policy_decide judges by the order of versions. *)
LEMMA DecidesByPrecedence ==
    ASSUME NEW running \in Images, NEW u, u.image \in Images,
           u.decision = ota_version_policy_decide(running, u.image, u.reinstall, u.downgrade)
    PROVE  Judged(u, running)
<1> DEFINE v == u.image.version
           w == running.version
           c == ota_semver_compare(v, w)
<1>1. running.secure \in Nat /\ u.image.secure \in Nat
  BY BootAssumption
<1>2. CASE u.decision \in {"accept", "downgrade", "reinstall"}
  <2>1. /\ u.image.project = running.project /\ ~(u.image.secure < running.secure)
        /\ v # Malformed /\ w # Malformed
        /\ u.decision = IF c = 0 /\ ~u.reinstall THEN "reinstall"
                        ELSE IF c < 0 /\ ~u.downgrade THEN "downgrade" ELSE "accept"
    BY <1>2 DEF ota_version_policy_decide
  <2>2. v \in Versions /\ w \in Versions
    BY <2>1, BootAssumption
  <2>3. (c < 0 <=> Lower(v, w)) /\ (c = 0 <=> v = w)
    BY <2>2, CompareIsPrecedence
  <2> HIDE DEF c
  <2>4. QED
    BY <1>1, <2>1, <2>3 DEF Judged
<1>3. CASE u.decision \notin {"accept", "downgrade", "reinstall"}
  BY <1>3 DEF Judged
<1>4. QED
  BY <1>2, <1>3

(* Nothing but the policy decides about an upload, and what it judged by    *)
(* does not change until the upload is over.                                *)
LEMMA StepPolicy ==
    ASSUME BootInv, PolicyFollowsPrecedence, [Next]_vars
    PROVE  PolicyFollowsPrecedence'
<1> DEFINE running == slots[app.slot].image
<1>0. PolicyFollowsPrecedence <=> (upload # NoUpload => Judged(upload, running))
  BY DEF PolicyFollowsPrecedence, Judged
<1>1. CASE ResetActions
  <2>1. upload' = NoUpload
    BY <1>1 DEF ResetActions, FaultyCrash, AnyCrash, PowerDips, PowerOn,
       gateway_diag_boot_step_failed, gateway_diag_restart, restart_not_noted, restart_crashes,
       Reset, Boots
  <2>2. QED
    BY <2>1 DEF PolicyFollowsPrecedence, NoUpload
<1>2. ASSUME \/ mark_services_ready \/ confirm_task \/ stable_cb \/ request_restart
             \/ firmware_begin \/ Handler \/ firmware_lost \/ firmware_unanswered
      PROVE  PolicyFollowsPrecedence'
  <2>1. TypeOK /\ app'.slot = app.slot
    BY <1>2, BootSteps DEF BootInv
  <2>2. running' = running /\ running \in Images
    <3>1. slots'[app.slot].image = slots[app.slot].image
      BY <1>2, <2>1, RunningImageKept
    <3>2. QED
      BY <2>1, <3>1 DEF TypeOK, OtaTypeOK, AppType
  <2>3. upload' # NoUpload => Judged(upload', running)
    <3>1. CASE upload' \in {upload, NoUpload}
      BY <1>0, <3>1
    <3>2. CASE firmware_begin
      <4>1. upload'.decision = "none"
        BY <3>2 DEF firmware_begin, gateway_ota_begin
      <4>2. QED
        BY <4>1 DEF Judged
    <3>3. ASSUME gateway_ota_write \/ upload_fails PROVE Judged(upload', running)
      <4>1. upload # NoUpload /\ \E stage : upload' = [upload EXCEPT !.stage = stage]
        BY <3>3 DEF gateway_ota_write, upload_fails, NoUpload
      <4>2. /\ upload'.decision = upload.decision /\ upload'.image = upload.image
            /\ upload'.reinstall = upload.reinstall /\ upload'.downgrade = upload.downgrade
        BY <2>1, <4>1 DEF TypeOK, OtaTypeOK, NoUpload
      <4>3. Judged(upload, running)
        BY <1>0, <4>1
      <4>4. QED
        BY <4>2, <4>3 DEF Judged
    <3>4. CASE validate_prefix_and_start(app.slot)
      <4>1. PICK d : d = ota_version_policy_decide(running, upload.image, upload.reinstall,
                                                   upload.downgrade)
        OBVIOUS
      <4>2. upload # NoUpload /\ \E stage : upload' = [upload EXCEPT !.decision = d, !.stage = stage]
        <5>1. /\ upload.stage = "header"
              /\ upload' = [upload EXCEPT !.decision = d,
                              !.stage = IF d = "accept" THEN "writing" ELSE "failed"]
          BY <3>4, <4>1, Zenon DEF validate_prefix_and_start
        <5>2. upload # NoUpload
          BY <5>1 DEF NoUpload
        <5>3. QED
          BY <5>1, <5>2, Zenon
      <4>3. /\ upload'.decision = d /\ upload'.image = upload.image /\ upload.image \in Images
            /\ upload'.reinstall = upload.reinstall /\ upload'.downgrade = upload.downgrade
        BY <2>1, <4>2 DEF TypeOK, OtaTypeOK, NoUpload
      <4>4. PICK u, r : u = upload' /\ r = running
        OBVIOUS
      <4>5. Judged(u, r)
        BY <2>2, <4>1, <4>3, <4>4, DecidesByPrecedence
      <4>6. QED
        BY <4>4, <4>5
    <3>5. QED
      BY <1>2, <3>1, <3>2, <3>3, <3>4 DEF mark_services_ready, confirm_task, ota_confirm, stable_cb,
         request_restart, Handler, firmware_receive, firmware_rejected, gateway_ota_abort,
         gateway_ota_finish_mismatch, firmware_installed, gateway_ota_finish, firmware_lost,
         firmware_unanswered
  <2>4. QED
    BY <2>2, <2>3 DEF PolicyFollowsPrecedence, Judged, NoUpload
<1>3. CASE UNCHANGED vars
  BY <1>3 DEF vars, PolicyFollowsPrecedence, NoUpload
<1>4. QED
  BY <1>1, <1>2, <1>3 DEF Next, ResetActions

(* ota_version_policy_decide follows Semantic Versioning for every image    *)
(* that is uploaded: an image of the same or of a lower version needs its   *)
(* override, and only such an image is refused for want of one.             *)
THEOREM PolicyIsPrecedence == Spec => []PolicyFollowsPrecedence
<1>1. Init => PolicyFollowsPrecedence
  BY DEF Init, OtaInit, PolicyFollowsPrecedence
<1>2. BootInv /\ PolicyFollowsPrecedence /\ [Next]_vars => PolicyFollowsPrecedence'
  BY StepPolicy
<1>3. QED
  BY BootInvariant, <1>1, <1>2, PTL DEF Spec

(* The gateway changes to an image of a lower secure version only by giving *)
(* up one that was not confirmed, whatever the overrides of an upload.      *)
THEOREM SecureVersionMonotone == Spec => SecureVersionKept
<1>1. BootInv /\ [Next]_vars => [SecureStep]_vars
  BY StepBootInv
<1>2. QED
  BY BootInvariant, <1>1, PTL DEF Spec, SecureVersionKept, SecureStep

=============================================================================
