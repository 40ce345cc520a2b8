------------------------ MODULE BaselineEvidenceProofs ------------------------
(***************************************************************************)
(* Proofs about BaselineEvidence, for all cases, items, contracts and      *)
(* numbers of observations.                                                *)
(***************************************************************************)
EXTENDS BaselineEvidence, TLAPS

\* Nothing moves any more when the assessment has been made.
Frozen == outcome # "none" => stage = "idle"

IInv == TypeOK /\ Frozen /\ PassIsEarned /\ FailIsReal /\ OutputWhole

-----------------------------------------------------------------------------
(* What a status means.                                                    *)

(***************************************************************************)
(* The rows of an admitted manifest are told apart by their keys, so the   *)
(* status of a contract is that of its only row.                           *)
(***************************************************************************)
LEMMA StatusIsOfTheRow ==
  ASSUME Admits, NEW r \in Manifest
  PROVE  Status(r.key) = StatusOf(r)
<1>1. \A s \in Manifest : s.key = r.key => s = r
  BY DEF Admits
<1> DEFINE found == CHOOSE s \in Manifest : s.key = r.key
<1>2. found \in Manifest /\ found.key = r.key
  OBVIOUS
<1>3. found = r
  BY <1>1, <1>2
<1>4. Status(r.key) = StatusOf(found)
  BY DEF Status
<1> QED BY <1>3, <1>4

LEMMA RowsTyped == ASSUME TypeOK PROVE Manifest \subseteq Row
  BY DEF TypeOK, Manifest

LEMMA NotRun ==
  ASSUME NEW k, Status(k) # "NOT_RUN"
  PROVE  \E r \in Manifest : r.key = k
  BY DEF Status

(***************************************************************************)
(* Which rows give which status.                                           *)
(***************************************************************************)
LEMMA RowStatus ==
  ASSUME NEW r \in Row
  PROVE  /\ StatusOf(r) = "FAIL" <=> r.real /\ r.verdict = "mismatch"
         /\ StatusOf(r) = "UNSUPPORTED" <=> r.real /\ r.verdict = "UNSUPPORTED"
         /\ StatusOf(r) = "PASS" => r.real /\ r.verdict = "match"
<1>1. r.verdict \in {"match", "mismatch", "UNSUPPORTED"} /\ r.real \in BOOLEAN
  BY DEF Row, Verdicts
<1>2. CASE ~r.real
  BY <1>2 DEF StatusOf
<1>3. CASE r.real /\ r.verdict = "UNSUPPORTED"
  BY <1>3 DEF StatusOf
<1>4. CASE r.real /\ r.verdict = "mismatch"
  BY <1>4 DEF StatusOf
<1>5. CASE r.real /\ r.verdict = "match"
  BY <1>5 DEF StatusOf
<1> QED BY <1>1, <1>2, <1>3, <1>4, <1>5

(***************************************************************************)
(* What it takes for a parent to pass.                                     *)
(***************************************************************************)
LEMMA ParentPasses ==
  ASSUME NEW c \in Cases, ParentStatus(c) = "PASS"
  PROVE  /\ \A k \in Contracts : Parent[k[2]] = c => Status(k) \notin {"FAIL", "UNSUPPORTED"}
         /\ \A k \in Required : Parent[k[2]] = c => Status(k) = "PASS"
         /\ Unsupporting(c) = {}
<1> DEFINE all == {Status(k) : k \in {j \in Contracts : Parent[j[2]] = c}}
           required == {Status(k) : k \in {j \in Required : Parent[j[2]] = c}}
<1>1. ParentStatus(c) =
        IF "FAIL" \in all THEN "FAIL"
        ELSE IF "UNSUPPORTED" \in all THEN "UNSUPPORTED"
        ELSE IF required = {"PASS"}
          THEN IF Unsupporting(c) = {} THEN "PASS" ELSE "PARTIAL"
        ELSE IF all \cap {"PASS", "PARTIAL"} # {} THEN "PARTIAL"
        ELSE "NOT_RUN"
  BY DEF ParentStatus
<1>2. "FAIL" \notin all /\ "UNSUPPORTED" \notin all /\ required = {"PASS"}
        /\ Unsupporting(c) = {}
  <2> HIDE DEF all, required
  <2> QED BY <1>1
<1>3. \A k \in Contracts : Parent[k[2]] = c => Status(k) \in all
  OBVIOUS
<1>4. \A k \in Required : Parent[k[2]] = c => Status(k) \in required
  OBVIOUS
<1>5. ASSUME NEW k \in Contracts, Parent[k[2]] = c
      PROVE  Status(k) \notin {"FAIL", "UNSUPPORTED"}
  <2> HIDE DEF all, required
  <2> QED BY <1>2, <1>3, <1>5
<1>6. ASSUME NEW k \in Required, Parent[k[2]] = c PROVE Status(k) = "PASS"
  <2> HIDE DEF all, required
  <2> QED BY <1>2, <1>4, <1>6
<1> QED BY <1>2, <1>5, <1>6

LEMMA ParentFails ==
  ASSUME NEW c \in Cases
  PROVE  ParentStatus(c) = "FAIL" <=>
           \E k \in Contracts : Parent[k[2]] = c /\ Status(k) = "FAIL"
<1> DEFINE all == {Status(k) : k \in {j \in Contracts : Parent[j[2]] = c}}
           required == {Status(k) : k \in {j \in Required : Parent[j[2]] = c}}
<1>1. ParentStatus(c) =
        IF "FAIL" \in all THEN "FAIL"
        ELSE IF "UNSUPPORTED" \in all THEN "UNSUPPORTED"
        ELSE IF required = {"PASS"}
          THEN IF Unsupporting(c) = {} THEN "PASS" ELSE "PARTIAL"
        ELSE IF all \cap {"PASS", "PARTIAL"} # {} THEN "PARTIAL"
        ELSE "NOT_RUN"
  BY DEF ParentStatus
<1>2. ParentStatus(c) = "FAIL" <=> "FAIL" \in all
  <2> HIDE DEF all, required
  <2> QED BY <1>1
<1>3. "FAIL" \in all <=> \E k \in Contracts : Parent[k[2]] = c /\ Status(k) = "FAIL"
  OBVIOUS
<1> HIDE DEF all
<1> QED BY <1>2, <1>3

-----------------------------------------------------------------------------
(* The assessment establishes both verdict properties.                     *)

LEMMA PassMeaning ==
  ASSUME TypeOK, Admits, NEW c \in Cases, ParentStatus(c) = "PASS"
  PROVE  /\ \A k \in Required : Parent[k[2]] = c =>
              \E r \in Manifest : r.key = k /\ r.verdict = "match" /\ r.real /\ r.sound
         /\ \A i \in Testable : Parent[i] = c => \E r \in Manifest : r.key = <<"prior", i>>
         /\ \A r \in Manifest : Parent[r.key[2]] = c /\ r.real => r.verdict = "match"
<1>1. ASSUME NEW k \in Required, Parent[k[2]] = c
      PROVE  \E r \in Manifest : r.key = k /\ r.verdict = "match" /\ r.real /\ r.sound
  <2>1. Status(k) = "PASS"
    BY <1>1, ParentPasses
  <2>2. PICK r \in Manifest : r.key = k
    BY <2>1, NotRun
  <2>3. StatusOf(r) = "PASS"
    BY <2>1, <2>2, StatusIsOfTheRow
  <2>4. r.real /\ r.verdict = "match"
    BY <2>3, RowsTyped, RowStatus
  <2>5. r.sound
    BY <2>4 DEF Admits
  <2> QED BY <2>2, <2>4, <2>5
<1>2. ASSUME NEW i \in Testable, Parent[i] = c
      PROVE  \E r \in Manifest : r.key = <<"prior", i>>
  <2>1. Status(<<"prior", i>>) \in {"PASS", "PARTIAL"}
    BY <1>2, ParentPasses DEF Unsupporting
  <2> QED BY <2>1, NotRun
<1>3. ASSUME NEW r \in Manifest, Parent[r.key[2]] = c, r.real
      PROVE  r.verdict = "match"
  <2>1. r \in Row /\ r.key \in Contracts /\ r.verdict \in Verdicts
    BY RowsTyped DEF Row
  <2>2. StatusOf(r) \notin {"FAIL", "UNSUPPORTED"}
    BY <1>3, <2>1, ParentPasses, StatusIsOfTheRow
  <2> QED BY <1>3, <2>1, <2>2, RowStatus DEF Verdicts
<1> QED BY <1>1, <1>2, <1>3

LEMMA FailMeaning ==
  ASSUME TypeOK, Admits, NEW c \in Cases
  PROVE  ParentStatus(c) = "FAIL" <=>
           \E r \in Manifest : Parent[r.key[2]] = c /\ r.real /\ r.verdict = "mismatch"
<1>1. ASSUME ParentStatus(c) = "FAIL"
      PROVE  \E r \in Manifest : Parent[r.key[2]] = c /\ r.real /\ r.verdict = "mismatch"
  <2>1. PICK k \in Contracts : Parent[k[2]] = c /\ Status(k) = "FAIL"
    BY <1>1, ParentFails
  <2>2. PICK r \in Manifest : r.key = k
    BY <2>1, NotRun
  <2>3. StatusOf(r) = "FAIL"
    BY <2>1, <2>2, StatusIsOfTheRow
  <2> QED BY <2>1, <2>2, <2>3, RowsTyped, RowStatus
<1>2. ASSUME NEW r \in Manifest, Parent[r.key[2]] = c, r.real, r.verdict = "mismatch"
      PROVE  ParentStatus(c) = "FAIL"
  <2>1. r \in Row /\ r.key \in Contracts
    BY RowsTyped DEF Row
  <2>2. Status(r.key) = "FAIL"
    BY <1>2, <2>1, RowStatus, StatusIsOfTheRow
  <2> QED BY <1>2, <2>1, <2>2, ParentFails
<1> QED BY <1>1, <1>2

-----------------------------------------------------------------------------
(* The invariant.                                                          *)

LEMMA InitHolds == Init => IInv
<1> SUFFICES ASSUME Init PROVE IInv
  OBVIOUS
<1> USE DEF Init
<1>1. TypeOK
  <2>1. report \in [Cases -> Statuses]
    BY DEF Statuses
  <2>2. turned \in 0..2
    <3>1. turned = 0
      OBVIOUS
    <3> QED BY ONLY <3>1
  <2>3. rows \subseteq Row /\ reviews \subseteq Row /\ todo \subseteq Routed
    OBVIOUS
  <2>4. killed \in BOOLEAN
    OBVIOUS
  <2> QED BY <2>1, <2>2, <2>3, <2>4 DEF TypeOK
<1>2. Frozen /\ PassIsEarned /\ FailIsReal /\ OutputWhole
  BY DEF Frozen, PassIsEarned, FailIsReal, OutputWhole
<1> QED BY <1>1, <1>2 DEF IInv

LEMMA TypeStep == TypeOK /\ [Next]_vars => TypeOK'
<1> SUFFICES ASSUME TypeOK, [Next]_vars PROVE TypeOK'
  OBVIOUS
<1> USE DEF TypeOK
<1>1. CASE Start
  BY <1>1 DEF Start
<1>2. CASE Fail
  BY <1>2 DEF Fail, RemoveAll
<1>3. CASE Seal
  BY <1>3 DEF Seal, RemoveAll
<1>4. CASE Kill
  BY <1>4 DEF Kill
<1>5. CASE Replace
  BY <1>5 DEF Replace
<1>6. CASE Assess
  <2>1. \A c \in Cases : ParentStatus(c) \in Statuses
    BY DEF ParentStatus, Statuses
  <2> QED BY <1>6, <2>1 DEF Assess, runner
<1>7. ASSUME NEW i \in Items, NEW v \in Verdicts, Observe(i, v)
      PROVE  TypeOK'
  <2>1. <<"prior", i>> \in Contracts
    BY DEF Contracts
  <2>2. [key |-> <<"prior", i>>, verdict |-> v, real |-> TRUE, sound |-> TRUE] \in Row
    BY <2>1 DEF Row
  <2> QED BY <1>7, <2>2 DEF Observe
<1>8. ASSUME NEW row \in Row, Review(row)
      PROVE  TypeOK'
  BY <1>8 DEF Review, runner
<1>9. CASE UNCHANGED vars
  BY <1>9 DEF vars
<1> QED BY <1>1, <1>2, <1>3, <1>4, <1>5, <1>6, <1>7, <1>8, <1>9 DEF Next, Over

LEMMA RestStep ==
  Frozen /\ OutputWhole /\ [Next]_vars => Frozen' /\ OutputWhole'
<1> SUFFICES ASSUME Frozen, OutputWhole, [Next]_vars PROVE Frozen' /\ OutputWhole'
  OBVIOUS
<1> USE DEF Frozen, OutputWhole
<1>1. CASE Start
  BY <1>1 DEF Start
<1>2. CASE Fail
  BY <1>2 DEF Fail, RemoveAll
<1>3. CASE Seal
  BY <1>3 DEF Seal, RemoveAll
<1>4. CASE Kill
  BY <1>4 DEF Kill
<1>5. CASE Replace
  BY <1>5 DEF Replace
<1>6. CASE Assess
  BY <1>6 DEF Assess, runner
<1>7. ASSUME NEW i \in Items, NEW v \in Verdicts, Observe(i, v)
      PROVE  Frozen' /\ OutputWhole'
  BY <1>7 DEF Observe
<1>8. ASSUME NEW row \in Row, Review(row)
      PROVE  Frozen' /\ OutputWhole'
  BY <1>8 DEF Review, runner
<1>9. CASE UNCHANGED vars
  BY <1>9 DEF vars
<1> QED BY <1>1, <1>2, <1>3, <1>4, <1>5, <1>6, <1>7, <1>8, <1>9 DEF Next, Over

(***************************************************************************)
(* Only the assessment makes a report, and nothing moves afterwards.       *)
(***************************************************************************)
LEMMA ReportIsMadeOnce ==
  ASSUME Frozen, [Next]_vars, (outcome = "report")'
  PROVE  \/ Assess /\ outcome' = "report"
         \/ outcome = "report" /\ UNCHANGED <<report, rows, reviews, output>>
<1> USE DEF Frozen
<1>1. CASE Start
  BY <1>1 DEF Start
<1>2. CASE Fail
  BY <1>2 DEF Fail, RemoveAll
<1>3. CASE Seal
  BY <1>3 DEF Seal, RemoveAll
<1>4. CASE Kill
  BY <1>4 DEF Kill
<1>5. CASE Replace
  BY <1>5 DEF Replace
<1>6. ASSUME NEW i \in Items, NEW v \in Verdicts, Observe(i, v)
      PROVE  FALSE
  BY <1>6 DEF Observe
<1>7. ASSUME NEW row \in Row, Review(row)
      PROVE  FALSE
  BY <1>7 DEF Review
<1>8. CASE UNCHANGED vars
  BY <1>8 DEF vars
<1> QED BY <1>1, <1>2, <1>3, <1>4, <1>5, <1>6, <1>7, <1>8 DEF Next, Over

LEMMA VerdictStep == IInv /\ [Next]_vars => PassIsEarned' /\ FailIsReal'
<1> SUFFICES ASSUME IInv, [Next]_vars, (outcome = "report")'
             PROVE  PassIsEarned' /\ FailIsReal'
  BY DEF PassIsEarned, FailIsReal
<1>1. CASE Assess /\ outcome' = "report"
  <2>1. Admits /\ report' = [c \in Cases |-> ParentStatus(c)] /\ TypeOK
    BY <1>1 DEF Assess, IInv
  <2>2. Manifest' = Manifest
    BY <1>1 DEF Assess, runner, Manifest
  <2>3. PassIsEarned'
    <3> SUFFICES ASSUME NEW c \in Cases, report'[c] = "PASS"
                 PROVE  /\ \A k \in Required : Parent[k[2]] = c =>
                             \E r \in Manifest : r.key = k /\ r.verdict = "match" /\ r.real /\ r.sound
                        /\ \A i \in Testable : Parent[i] = c => \E r \in Manifest : r.key = <<"prior", i>>
                        /\ \A r \in Manifest : Parent[r.key[2]] = c /\ r.real => r.verdict = "match"
      BY <2>2 DEF PassIsEarned
    <3>1. ParentStatus(c) = "PASS"
      BY <2>1
    <3> QED BY <2>1, <3>1, PassMeaning
  <2>4. FailIsReal'
    <3> SUFFICES ASSUME NEW c \in Cases
                 PROVE  report'[c] = "FAIL" <=>
                          \E r \in Manifest : Parent[r.key[2]] = c /\ r.real /\ r.verdict = "mismatch"
      BY <2>2 DEF FailIsReal
    <3>1. report'[c] = ParentStatus(c)
      BY <2>1
    <3> QED BY <2>1, <3>1, FailMeaning
  <2> QED BY <2>3, <2>4
<1>2. CASE outcome = "report" /\ UNCHANGED <<report, rows, reviews, output>>
  <2>1. Manifest' = Manifest
    BY <1>2 DEF Manifest
  <2> QED BY <1>2, <2>1 DEF IInv, PassIsEarned, FailIsReal
<1> QED BY <1>1, <1>2, ReportIsMadeOnce DEF IInv

(***************************************************************************)
(* The inductive invariant: types, a frozen world once the report is made, *)
(* and the three properties.                                               *)
(***************************************************************************)
THEOREM Inductive == Spec => []IInv
<1>1. IInv /\ [Next]_vars => IInv'
  BY TypeStep, RestStep, VerdictStep DEF IInv
<1> QED BY InitHolds, <1>1, PTL DEF Spec

(***************************************************************************)
(* A case passes only if all it requires was observed to match, soundly    *)
(* and on the subject, for every catalog of contracts.                     *)
(***************************************************************************)
THEOREM PassEarned == Spec => []PassIsEarned
<1>1. IInv => PassIsEarned
  BY DEF IInv
<1> QED BY Inductive, <1>1, PTL

(***************************************************************************)
(* A case fails exactly when the subject contradicted one of its contracts.*)
(***************************************************************************)
THEOREM FailureIsReal == Spec => []FailIsReal
<1>1. IInv => FailIsReal
  BY DEF IInv
<1> QED BY Inductive, <1>1, PTL

(***************************************************************************)
(* The directory of a runner that was not killed is complete or gone.      *)
(***************************************************************************)
THEOREM OutputIsWhole == Spec => []OutputWhole
<1>1. IInv => OutputWhole
  BY DEF IInv
<1> QED BY Inductive, <1>1, PTL

(***************************************************************************)
(* Type correctness of runner, reviews and report.                         *)
(***************************************************************************)
THEOREM TypeCorrect == Spec => []TypeOK
<1>1. IInv => TypeOK
  BY DEF IInv
<1> QED BY Inductive, <1>1, PTL

=============================================================================
