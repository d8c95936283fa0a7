--------------------------- MODULE OtaVersionPolicy ---------------------------
(***************************************************************************)
(* Which firmware may replace the running one: ota_version_policy.c.       *)
(*                                                                         *)
(* A version that parse_semver accepts is a record of its three numbers    *)
(* and its prerelease, a sequence of identifiers; build metadata plays no  *)
(* part in comparisons.  An identifier is numeric or not, with a rank: its *)
(* value, or its place among texts ordered by memcmp and then length.  A   *)
(* version it rejects is malformed.                                        *)
(***************************************************************************)
EXTENDS Integers, Sequences

Numeric(n) == [numeric |-> TRUE, rank |-> n]
Text(n) == [numeric |-> FALSE, rank |-> n]
Version(major, minor, patch, pre) == [core |-> <<major, minor, patch>>, pre |-> pre]
Malformed == [core |-> <<>>, pre |-> <<>>]

Identifiers == [numeric : BOOLEAN, rank : Nat]
Versions == [core : Nat \X Nat \X Nat, pre : Seq(Identifiers)]

Sign(x, y) == IF x < y THEN -1 ELSE IF x > y THEN 1 ELSE 0

compare_identifiers(a, b) ==
    IF a.numeric = b.numeric THEN Sign(a.rank, b.rank)
    ELSE IF a.numeric THEN -1 ELSE 1

compare_prerelease_LongerFirst(a, b) ==
    LET from[i \in Nat \ {0}] ==
          IF i > Len(a) \/ i > Len(b) THEN Sign(Len(b), Len(a))
          ELSE LET c == compare_identifiers(a[i], b[i])
               IN  IF c # 0 THEN c ELSE from[i + 1]
    IN  IF a = <<>> /\ b = <<>> THEN 0
        ELSE IF a = <<>> THEN 1
        ELSE IF b = <<>> THEN -1
        ELSE from[1]

compare_prerelease(a, b) ==
    LET from[i \in Nat \ {0}] ==
          IF i > Len(a) \/ i > Len(b) THEN Sign(Len(a), Len(b))
          ELSE LET c == compare_identifiers(a[i], b[i])
               IN  IF c # 0 THEN c ELSE from[i + 1]
    IN  IF a = <<>> /\ b = <<>> THEN 0
        ELSE IF a = <<>> THEN 1
        ELSE IF b = <<>> THEN -1
        ELSE from[1]

ota_semver_compare(a, b) ==
    IF a.core[1] # b.core[1] THEN Sign(a.core[1], b.core[1])
    ELSE IF a.core[2] # b.core[2] THEN Sign(a.core[2], b.core[2])
    ELSE IF a.core[3] # b.core[3] THEN Sign(a.core[3], b.core[3])
    ELSE compare_prerelease(a.pre, b.pre)

(* running, candidate: [project, version, secure] *)
ota_version_policy_decide(running, candidate, reinstall, downgrade) ==
    IF candidate.project # running.project THEN "project"
    ELSE IF candidate.secure < running.secure THEN "secure_version"
    ELSE IF Malformed \in {candidate.version, running.version} THEN "format"
    ELSE LET c == ota_semver_compare(candidate.version, running.version)
         IN  IF c = 0 /\ ~reinstall THEN "reinstall"
             ELSE IF c < 0 /\ ~downgrade THEN "downgrade"
             ELSE "accept"

-----------------------------------------------------------------------------
(* Reference: the precedence that Semantic Versioning defines, stated by   *)
(* the first place at which two versions differ.                           *)

IdentifierLower(a, b) ==
    \/ a.numeric /\ ~b.numeric
    \/ a.numeric = b.numeric /\ a.rank < b.rank

AgreeBefore(s, t, i) == \A j \in 1..(i - 1) : s[j] = t[j]

PrereleaseLower(s, t) ==
    \/ s # <<>> /\ t = <<>>
    \/ s # <<>> /\ Len(s) < Len(t) /\ AgreeBefore(s, t, Len(s) + 1)
    \/ \E i \in DOMAIN s \cap DOMAIN t :
         AgreeBefore(s, t, i) /\ IdentifierLower(s[i], t[i])

Lower(u, v) ==
    \/ \E i \in 1..3 : AgreeBefore(u.core, v.core, i) /\ u.core[i] < v.core[i]
    \/ u.core = v.core /\ PrereleaseLower(u.pre, v.pre)
=============================================================================
