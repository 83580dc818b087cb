------------------------------- MODULE Rules -------------------------------
(***************************************************************************)
(* The rules decided by a pure computation: retention dates, the status of *)
(* a certificate, the policy of a job, the CNPJ validator.  A state is one *)
(* question asked of them.                                                 *)
(***************************************************************************)
EXTENDS Integers, Sequences, FiniteSets, FiniteSetsExt

CONSTANTS
    Moments,    \* when a document is emitted or authorized
    Evidence,   \* the sets of evidence rows a document or one of its events has
    Horizon,    \* bound: half days between now and the ends of a certificate
    Instants    \* bound: the last instant at which a policy changes or is looked up

VARIABLE question

----------------------------------------------------------------------------
(* Dates <<year, month, day>>.                                             *)

Leap(y) == y % 4 = 0 /\ (y % 100 # 0 \/ y % 400 = 0)
DaysIn(y, m) == CASE m = 2 -> IF Leap(y) THEN 29 ELSE 28
                  [] m \in {4, 6, 9, 11} -> 30
                  [] OTHER -> 31
IsDate(d) == d \in Nat \X (1..12) \X (1..31) /\ d[3] <= DaysIn(d[1], d[2])
AtLeast(d, e) == \/ d[1] > e[1]
                 \/ d[1] = e[1] /\ d[2] > e[2]
                 \/ d[1] = e[1] /\ d[2] = e[2] /\ d[3] >= e[3]
NextDay(d) == IF d[3] < DaysIn(d[1], d[2]) THEN <<d[1], d[2], d[3] + 1>>
              ELSE IF d[2] < 12 THEN <<d[1], d[2] + 1, 1>> ELSE <<d[1] + 1, 1, 1>>

PrevDay(d) == IF d[3] > 1 THEN <<d[1], d[2], d[3] - 1>>
              ELSE IF d[2] > 1 THEN <<d[1], d[2] - 1, DaysIn(d[1], d[2] - 1)>>
              ELSE <<d[1] - 1, 12, 31>>

\* An evidence row: the document's own flag and its artifact's error, state and bytes.
EvidenceRows == [conflicting : BOOLEAN, error : BOOLEAN, finalized : BOOLEAN, same : BOOLEAN]

\* A moment is a UTC date and hour and how many hours Sao Paulo is behind UTC then.
\* Every eligibility date is one of Python's calendar, which ends with 9999.
ASSUME RulesAssumption ==
    /\ Moments \subseteq [date : (Nat \ {0, 1}) \X (1..12) \X (1..31), hour : 0..23, behind : {2, 3}]
    /\ \A t \in Moments : IsDate(t.date) /\ t.date[1] <= 9988
    /\ Evidence \subseteq SUBSET EvidenceRows
    /\ Horizon \in Nat
    /\ Instants \in Nat

----------------------------------------------------------------------------
(* Retention (nfx.retention).  A timestamp of a document is {} when it is  *)
(* null and otherwise the set of its moment.                               *)

Timestamps == {{}} \cup {{t} : t \in Moments}
Documents == [family : {"nfe", "nfse", "other"}, state : {"persisted", "conflict"},
              emitted : Timestamps, authorized : Timestamps,
              evidence : Evidence, events : SUBSET Evidence]

\* _civil_date: the local date of a moment.
CivilDate(t) == IF t.hour < t.behind THEN PrevDay(t.date) ELSE t.date

\* Mutant: months are counted from one.
AddMonths_FromOne(d, months) ==
    LET index == d[1] * 12 + d[2] + months
        year == index \div 12
        month == (index % 12) + 1
    IN  <<year, month, Min({d[3], DaysIn(year, month)})>>

AddMonths(d, months) ==
    LET index == d[1] * 12 + d[2] - 1 + months
        year == index \div 12
        month == (index % 12) + 1
    IN  <<year, month, Min({d[3], DaysIn(year, month)})>>

\* An NF-e counts from its authorization, an NFS-e from its emission.
EligibilityDate(family, basis) ==
    IF family = "nfe" THEN AddMonths(basis, 132) ELSE <<basis[1] + 6, 1, 1>>
Basis(doc) == CASE doc.family = "nfe" -> doc.authorized
                [] doc.family = "nfse" -> doc.emitted
                [] OTHER -> {}

\* calculate_eligibility_date: none for an unsupported family or without its date.
EligibilityDates(doc) == {EligibilityDate(doc.family, CivilDate(t)) : t \in Basis(doc)}

ArtifactAvailable(row) == ~row.conflicting /\ ~row.error /\ row.finalized /\ row.same

\* _evidence_reason is None.
EvidenceSound(doc) ==
    /\ doc.state = "persisted"
    /\ doc.evidence # {} /\ \A row \in doc.evidence : ArtifactAvailable(row)
    /\ \A rows \in doc.events : rows # {} /\ \A row \in rows : ArtifactAvailable(row)

\* decision_for_document, asked for a date.
Decision(doc, today) ==
    IF EligibilityDates(doc) = {} \/ ~EvidenceSound(doc) THEN "non_executable"
    ELSE IF \A e \in EligibilityDates(doc) : AtLeast(today, e) THEN "eligible" ELSE "retained"

----------------------------------------------------------------------------
(* Certificates.  Times are half days from now.                            *)

Day == 2

\* certificate_status of a current certificate.
CertificateStatus(from, until) ==
    IF until <= 0 THEN "expired"
    ELSE IF from > 0 THEN "invalid"
    ELSE IF until <= 30 * Day THEN "expiring" ELSE "valid"

\* days_until_expiry: rounded up, never negative.
DaysUntilExpiry(until) == Max({0, (until + Day - 1) \div Day})

----------------------------------------------------------------------------
(* Job policies (nfx.jobs.policy), for one source "s" and one flow "f".    *)

Never == -1         \* valid_until is null
Windows == {w \in (0..Instants) \X ((0..Instants) \cup {Never}) : w[2] = Never \/ w[1] < w[2]}
Policies == [source : {"s", "*"}, flow : {"f", "*"}, window : Windows]

InForce(p, at) == p.window[1] <= at /\ (p.window[2] = Never \/ p.window[2] > at)

Specificity(p) == (IF p.source = "s" THEN 1 ELSE 0) + (IF p.flow = "f" THEN 1 ELSE 0)

\* select_policy: the one most specific policy; no policy and an ambiguous choice are
\* errors.
SelectPolicy(policies, at) ==
    LET candidates == {p \in policies : InForce(p, at)}
        best == Max({Specificity(p) : p \in candidates})
    IN  {p \in candidates : Specificity(p) = best}

----------------------------------------------------------------------------
(* The CNPJ validator (nfx.companies).  A value is the sequence of its     *)
(* digits; 10 stands for a letter.                                         *)

Letter == 10
Weighted(digits, weights) ==
    LET p(i) == digits[i] * weights[i]
    IN  p(1) + p(2) + p(3) + p(4) + p(5) + p(6) + p(7) + p(8) + p(9) + p(10) + p(11) + p(12)
          + IF Len(weights) = 12 THEN 0 ELSE p(13)
FirstWeights == <<5, 4, 3, 2, 9, 8, 7, 6, 5, 4, 3, 2>>
SecondWeights == <<6, 5, 4, 3, 2, 9, 8, 7, 6, 5, 4, 3, 2>>
CheckDigit(sum) == (11 - (sum % 11)) % 10

\* normalize_cnpj accepts the value.
NormalizeCnpj(v) ==
    \/ \E i \in DOMAIN v : v[i] = Letter
    \/ /\ Len(v) = 14
       /\ Cardinality({v[i] : i \in DOMAIN v}) > 1
       /\ LET first == CheckDigit(Weighted(v, FirstWeights))
              second == CheckDigit(Weighted(SubSeq(v, 1, 12) \o <<first>>, SecondWeights))
          IN  v[13] = first /\ v[14] = second

\* The mod 11 rule of the CNPJ: a remainder below 2 gives the digit 0.
MandatedDigit(sum) == IF (sum % 11) < 2 THEN 0 ELSE 11 - (sum % 11)
IsCnpj(v) ==
    /\ Len(v) = 14
    /\ \A i \in DOMAIN v : v[i] \in 0..9
    /\ Cardinality({v[i] : i \in DOMAIN v}) > 1
    /\ v[13] = MandatedDigit(Weighted(v, FirstWeights))
    /\ v[14] = MandatedDigit(Weighted(v, SecondWeights))

\* Registrations of branch 0001, with any check digits and perhaps a letter.
CnpjValue(a, b, x, y) == <<a, b, 2, 3, 3, 3, 0, 1, 0, 0, 0, 1, x, y>>
CnpjValues == {CnpjValue(a, b, x, y) : a \in 0..10, b \in 0..9, x \in 0..9, y \in 0..9}

----------------------------------------------------------------------------

NoQuestion == [kind |-> "none"]

RulesInit == question = NoQuestion

AskDocument(doc) == question' = [kind |-> "document", document |-> doc]
AskCertificate(from, until) ==
    from < until /\ question' = [kind |-> "certificate", from |-> from, until |-> until]
AskPolicy(p, q, at) == question' = [kind |-> "policy", policies |-> {p, q}, at |-> at]
AskCnpj(v) == question' = [kind |-> "cnpj", value |-> v]

RulesNext ==
    /\ question = NoQuestion
    /\ \/ \E doc \in Documents : AskDocument(doc)
       \/ \E from, until \in (-Horizon)..Horizon : AskCertificate(from, until)
       \/ \E p, q \in Policies, at \in 0..Instants : AskPolicy(p, q, at)
       \/ \E v \in CnpjValues : AskCnpj(v)

RulesSpec == RulesInit /\ [][RulesNext]_question

----------------------------------------------------------------------------
(* Properties.                                                             *)

IntactRow == [conflicting |-> FALSE, error |-> FALSE, finalized |-> TRUE, same |-> TRUE]

\* A document is deletable from the right local day on and on no earlier one: an NF-e
\* eleven years after the day of its authorization in Sao Paulo (the 28th for a 29th of
\* February), an NFS-e from the sixth new year after its emission.  A document without
\* that date, of another family, in conflict, or with evidence missing, in conflict or
\* damaged, its events' included, never is (decision_for_document with time zone, leap
\* years and the turn of the year).
RetentionExact ==
    question.kind = "document" =>
        LET doc == question.document
            kept == /\ doc.state = "persisted"
                    /\ \A rows \in {doc.evidence} \cup doc.events : rows = {IntactRow}
            days == IF doc.family = "nfe" THEN doc.authorized
                    ELSE IF doc.family = "nfse" THEN doc.emitted ELSE {}
        IN  /\ \A t \in days :
                  LET d == CivilDate(t)
                      first == IF doc.family = "nfse" THEN <<d[1] + 6, 1, 1>>
                               ELSE <<d[1] + 11, d[2], IF d[2] = 2 /\ d[3] = 29 THEN 28 ELSE d[3]>>
                  IN  /\ t.date = IF t.hour < t.behind THEN NextDay(d) ELSE d
                      /\ kept => /\ Decision(doc, PrevDay(first)) = "retained"
                                 /\ Decision(doc, first) = "eligible"
            /\ ~kept \/ days = {} => Decision(doc, <<9999, 12, 31>>) = "non_executable"

\* The status that decides whether a certificate may collect and the number of days
\* shown beside it never contradict each other (certificate_status compares instants,
\* days_until_expiry rounds up).
StatusAgreesWithDays ==
    question.kind = "certificate" =>
        LET status == CertificateStatus(question.from, question.until)
            days == DaysUntilExpiry(question.until)
        IN  /\ (status = "expired") = (days = 0)
            /\ status = "expiring" => days <= 30
            /\ status = "valid" => days > 30

\* Two versions of a policy whose windows meet hand over without a gap or a moment at
\* which enqueueing is refused as ambiguous, and a more specific policy always wins
\* (select_policy).
PoliciesHandOver ==
    question.kind = "policy" =>
        \A p, q \in question.policies :
            LET chosen == SelectPolicy(question.policies, question.at)
            IN  /\ (/\ p.source = q.source /\ p.flow = q.flow
                    /\ p.window[2] = q.window[1]
                    /\ p.window[1] <= question.at
                    /\ q.window[2] = Never \/ question.at < q.window[2])
                      => Cardinality(chosen) = 1
                /\ (/\ InForce(p, question.at) /\ InForce(q, question.at)
                    /\ Specificity(p) > Specificity(q))
                      => chosen = {p}

\* Where the validator is wrong, and nowhere else: among the values without a letter it
\* accepts exactly the CNPJs, unless one of the two weighted sums is a multiple of 11,
\* and then it refuses every CNPJ (normalize_cnpj takes 1 for the digit that must be 0).
ValidatorDelimited ==
    question.kind = "cnpj" =>
        LET v == question.value
            letter == \E i \in DOMAIN v : v[i] = Letter
            eleven == \E w \in {FirstWeights, SecondWeights} : Weighted(v, w) % 11 = 0
        IN  /\ ~letter /\ ~eleven => (NormalizeCnpj(v) <=> IsCnpj(v))
            /\ eleven /\ IsCnpj(v) => ~NormalizeCnpj(v)

\* The rules that are pure computations decide what they are meant to decide, at every
\* document, boundary instant and pair of policies; the CNPJ validator does except where
\* ValidatorDelimited says.
RulesExact == RetentionExact /\ StatusAgreesWithDays /\ PoliciesHandOver /\ ValidatorDelimited

============================================================================
