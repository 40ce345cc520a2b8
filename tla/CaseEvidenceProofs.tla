-------------------------- MODULE CaseEvidenceProofs --------------------------
(***************************************************************************)
(* The invariants of CaseEvidence for every set of cases, children, tracks *)
(* and executables.  The strengthening IInv adds what a run in hand knows  *)
(* of the executable (RunInv) and what a report rests on (ReportInv).      *)
(***************************************************************************)
EXTENDS CaseEvidence, TLAPS

\* Replaced once, the executable is not the pinned one; never, it made all rows.
RunInv ==
  /\ turned = 0 /\ stage = "capture" => exe = pinned /\ \A r \in rows : r.by = pinned
  /\ turned = 1 /\ stage = "capture" => exe # pinned
  /\ stage = "capture" => runs # 0

Derived == [c \in Cases |-> Aggregate({TrackStatus(k) : k \in KeysOf(c)})]

ReportInv ==
  /\ outcome # "none" => stage = "idle"
  /\ outcome = "report" => Admits /\ report = Derived

\* Every amendment is one of the changes.
VersionInv == \A k \in Keys : version[k] <= changes

IInv == TypeOK /\ RunInv /\ OneSubject /\ ReportInv /\ VersionInv

\* A key of a case is a key.
LEMMA KeysOfCases == \A c \in Cases : KeysOf(c) \subseteq Keys
<1> TAKE c \in Cases
<1>1. ASSUME NEW t \in TracksOf[c] PROVE <<c, t>> \in Keys
  BY DEF Keys
<1>2. ASSUME NEW d \in Children PROVE <<d, "runtime">> \in Keys
  BY DEF Keys
<1> QED
  BY <1>1, <1>2 DEF KeysOf

\* A status of a track, and of a case, is a status.
LEMMA StatusTypes ==
  /\ \A k : TrackStatus(k) \in Statuses
  /\ \A S : Aggregate(S) \in Statuses
  BY DEF TrackStatus, Aggregate, Statuses

\* A case passes only if every track and every child passes.
LEMMA AllPass ==
  ASSUME NEW S, Aggregate(S) = "PASS"
  PROVE  \A s \in S : s = "PASS"
  BY DEF Aggregate

\* One failure is enough.
LEMMA OneFails ==
  ASSUME NEW S, "FAIL" \in S
  PROVE  Aggregate(S) = "FAIL"
  BY DEF Aggregate

LEMMA InitInv == Init => IInv
<1> SUFFICES ASSUME Init PROVE IInv
  OBVIOUS
<1>1. bound \in [Keys -> Coverages] /\ version \in [Keys -> 0..Changes]
  BY CaseEvidenceAssumption DEF Init, CaseEvidenceAssumption
<1>2. report \in [Cases -> Statuses]
  BY DEF Init, Statuses
<1>3. TypeOK
  <2>1. restored \in BOOLEAN /\ rows \subseteq Row /\ manifest \subseteq Row
    BY DEF Init
  <2>2. runs \in 0..2 /\ changes \in 0..Changes /\ turned \in Nat
    BY CaseEvidenceAssumption DEF Init, CaseEvidenceAssumption
  <2>3. exe \in Binaries /\ pinned \in Binaries /\ subject \in Binaries
    BY DEF Init
  <2>4. todo \subseteq Keys /\ altered \subseteq Keys /\ stage = "idle" /\ outcome = "none"
    BY DEF Init
  <2> QED
    BY <1>1, <1>2, <2>1, <2>2, <2>3, <2>4 DEF TypeOK
<1>4. RunInv /\ OneSubject /\ ReportInv /\ VersionInv
  BY DEF Init, RunInv, OneSubject, ReportInv, VersionInv
<1> QED
  BY <1>3, <1>4 DEF IInv

-----------------------------------------------------------------------------

LEMMA StepType == IInv /\ [Next]_vars => TypeOK'
<1> SUFFICES ASSUME IInv, [Next]_vars PROVE TypeOK'
  OBVIOUS
<1> USE DEF IInv
<1>1. ASSUME NEW t \in TrackNames, Start(t) PROVE TypeOK'
  BY <1>1 DEF Start, TypeOK, plan, evidence, result, Row
<1>2. ASSUME NEW k \in Keys, NEW v \in Verdicts, Observe(k, v) PROVE TypeOK'
  <2>1. rows' \subseteq Row
    BY <1>2 DEF Observe, TypeOK, RunInv, Row, plan
  <2> QED
    BY <1>2, <2>1 DEF Observe, TypeOK, plan, evidence, result
<1>3. CASE Fail
  BY <1>3 DEF Fail, TypeOK, plan, evidence, result, Row
<1>4. CASE Seal
  BY <1>4 DEF Seal, TypeOK, plan, evidence, result, Row
<1>5. CASE Replace
  BY <1>5, CaseEvidenceAssumption DEF CaseEvidenceAssumption, Replace, TypeOK, plan, evidence, result
<1>6. CASE Assess
  BY <1>6, StatusTypes DEF Assess, TypeOK, plan, runner, evidence
<1>7. ASSUME NEW k \in Keys, Amend(k) PROVE TypeOK'
  <2>1. version[k] + 1 \in 0..Changes /\ changes + 1 \in 0..Changes
    BY <1>7, CaseEvidenceAssumption DEF CaseEvidenceAssumption, Amend, TypeOK, VersionInv
  <2>2. version' \in [Keys -> 0..Changes]
    BY <1>7, <2>1 DEF Amend, TypeOK
  <2> QED
    BY <1>7, <2>1, <2>2 DEF Amend, TypeOK, runner, evidence, result
<1>8. ASSUME NEW k \in Keys, Alter(k) PROVE TypeOK'
  BY <1>8, CaseEvidenceAssumption DEF CaseEvidenceAssumption, Alter, TypeOK, plan, runner, result
<1>9. CASE Over \/ UNCHANGED vars
  BY <1>9 DEF Over, vars, TypeOK
<1> QED
  BY <1>1, <1>2, <1>3, <1>4, <1>5, <1>6, <1>7, <1>8, <1>9 DEF Next

-----------------------------------------------------------------------------

\* What the run in hand knows of the executable.
LEMMA StepRun == IInv /\ [Next]_vars => RunInv'
<1> SUFFICES ASSUME IInv, [Next]_vars PROVE RunInv'
  OBVIOUS
<1> USE DEF IInv
<1>1. ASSUME NEW t \in TrackNames, Start(t) PROVE RunInv'
  BY <1>1 DEF Start, TypeOK, RunInv
<1>2. ASSUME NEW k \in Keys, NEW v \in Verdicts, Observe(k, v) PROVE RunInv'
  BY <1>2 DEF Observe, RunInv
<1>3. CASE Fail \/ Seal
  BY <1>3 DEF Fail, Seal, RunInv
<1>4. CASE Replace
  BY <1>4 DEF Replace, RunInv, TypeOK
<1>5. CASE Assess
  BY <1>5 DEF Assess, RunInv, runner
<1>6. ASSUME NEW k \in Keys, Amend(k) \/ Alter(k) PROVE RunInv'
  BY <1>6 DEF Amend, Alter, RunInv, runner
<1>7. CASE Over \/ UNCHANGED vars
  BY <1>7 DEF Over, vars, RunInv
<1> QED
  BY <1>1, <1>2, <1>3, <1>4, <1>5, <1>6, <1>7 DEF Next

\* A run that is sealed with the pinned executable in place, and that is not
\* known to have been restored, was never turned.
LEMMA StepSubject == IInv /\ [Next]_vars => OneSubject'
<1> SUFFICES ASSUME IInv, [Next]_vars PROVE OneSubject'
  OBVIOUS
<1> USE DEF IInv
<1>1. CASE Seal
  <2>1. CASE exe # pinned
    BY <1>1, <2>1 DEF Seal, OneSubject, evidence
  <2>2. CASE exe = pinned /\ ~restored'
    <3>0. ~restored /\ ~(turned > 1) /\ stage = "capture" /\ subject' = pinned
      BY <1>1, <2>2 DEF Seal
    <3>1. ~restored /\ turned = 0 /\ subject' = pinned
      BY <2>2, <3>0 DEF TypeOK, RunInv
    <3>2. \A r \in rows : r.by = subject'
      BY <1>1, <3>1 DEF Seal, RunInv
    <3>3. pinned = subject => \A r \in manifest : r.by = subject'
      BY <3>1 DEF OneSubject
    <3> QED
      BY <1>1, <2>2, <3>2, <3>3 DEF Seal, OneSubject
  <2> QED
    BY <2>1, <2>2 DEF OneSubject
<1>2. CASE UNCHANGED <<manifest, subject, restored>>
  BY <1>2 DEF OneSubject
<1>3. Seal \/ UNCHANGED <<manifest, subject, restored>>
  BY DEF Next, Start, Observe, Fail, Replace, Assess, Over, Amend, Alter, evidence, vars
<1> QED
  BY <1>1, <1>2, <1>3

\* A report rests on the manifest and the plan as they are.
LEMMA StepReport == IInv /\ [Next]_vars => ReportInv' /\ VersionInv'
<1> SUFFICES ASSUME IInv, [Next]_vars PROVE ReportInv' /\ VersionInv'
  OBVIOUS
<1> USE DEF IInv
<1>1. CASE outcome # "none"
  <2>1. UNCHANGED vars
    BY <1>1 DEF Next, Start, Observe, Fail, Seal, Replace, Assess, Over, Amend, Alter,
                ReportInv
  <2> QED
    BY <2>1 DEF vars, ReportInv, Admits, Derived, TrackStatus, VersionInv
<1>2. CASE outcome = "none" /\ ~Assess
  <2>1. outcome' = "none"
    BY <1>2 DEF Next, Start, Observe, Fail, Seal, Replace, Over, Amend, Alter, result, vars
  <2>2. VersionInv'
    <3>1. ASSUME NEW k \in Keys, Amend(k) PROVE VersionInv'
      <4>1. \A j \in Keys : version'[j] = IF j = k THEN version[j] + 1 ELSE version[j]
        BY <3>1 DEF Amend, TypeOK
      <4>2. changes \in Int /\ (\A j \in Keys : version[j] \in Int) /\ changes' = changes + 1
        BY <3>1, CaseEvidenceAssumption DEF CaseEvidenceAssumption, Amend, TypeOK
      <4> QED
        BY <4>1, <4>2 DEF VersionInv
    <3>2. changes \in Int /\ \A j \in Keys : version[j] \in Int
      BY CaseEvidenceAssumption DEF CaseEvidenceAssumption, TypeOK
    <3>3. CASE version' = version /\ changes' \in {changes, changes + 1}
      BY <3>2, <3>3 DEF VersionInv
    <3> QED
      BY <1>2, <3>1, <3>3 DEF Next, Start, Observe, Fail, Seal, Replace, Over, Alter, plan, vars
  <2> QED
    BY <2>1, <2>2 DEF ReportInv
<1>3. CASE Assess
  <2>1. VersionInv'
    BY <1>3 DEF Assess, plan, VersionInv
  <2>2. outcome' = "report" => Admits /\ report' = Derived /\ stage' = "idle"
    BY <1>3 DEF Assess, runner, Derived
  <2>3. UNCHANGED <<manifest, altered, bound, version>> /\ stage' = "idle"
    BY <1>3 DEF Assess, runner, evidence, plan
  <2>4. Admits' = Admits /\ Derived' = Derived
    BY <2>3 DEF Admits, Derived, TrackStatus
  <2> QED
    BY <2>1, <2>2, <2>3, <2>4 DEF ReportInv
<1> QED
  BY <1>1, <1>2, <1>3 DEF Assess

LEMMA Inductive == Spec => []IInv
<1>1. IInv /\ [Next]_vars => IInv'
  BY StepType, StepRun, StepSubject, StepReport DEF IInv
<1> QED
  BY InitInv, <1>1, PTL DEF Spec

-----------------------------------------------------------------------------

(***************************************************************************)
(* Every variable keeps its type, and no change is left uncounted.         *)
(***************************************************************************)
THEOREM TypeCorrect == Spec => []TypeOK
<1>1. IInv => TypeOK
  BY DEF IInv
<1> QED
  BY Inductive, <1>1, PTL

(***************************************************************************)
(* A manifest names the executable that made all its observations, unless  *)
(* the executable was replaced and put back within one run.                *)
(***************************************************************************)
THEOREM SubjectTrue == Spec => []OneSubject
<1>1. IInv => OneSubject
  BY DEF IInv
<1> QED
  BY Inductive, <1>1, PTL

(***************************************************************************)
(* A case passes only on complete, current, unaltered and matching         *)
(* evidence for every track and every mandatory child.                     *)
(***************************************************************************)
THEOREM PassEarned == Spec => []PassIsEarned
<1>1. IInv => PassIsEarned
  <2> SUFFICES ASSUME IInv, outcome = "report",
                      NEW c \in Cases, report[c] = "PASS", NEW k \in KeysOf(c)
               PROVE  /\ bound[k] = "complete"
                      /\ \E r \in manifest : /\ r.key = k /\ r.verdict = "match"
                                             /\ r.fixture = version[k] /\ k \notin altered
                                             /\ restored \/ r.by = subject
    BY DEF PassIsEarned
  <2>1. Admits /\ Aggregate({TrackStatus(j) : j \in KeysOf(c)}) = "PASS"
    BY DEF IInv, ReportInv, Derived
  <2>2. TrackStatus(k) = "PASS"
    BY <2>1, AllPass
  <2>3. PICK r \in manifest : r.key = k
    BY <2>2 DEF TrackStatus
  <2>4. r = CHOOSE q \in manifest : q.key = k
    BY <2>1, <2>3 DEF Admits
  <2>5. bound[k] = "complete" /\ r.verdict \notin {"UNSUPPORTED", "mismatch"}
    BY <2>2, <2>3, <2>4 DEF TrackStatus
  <2>6. r.verdict = "match"
    BY <2>5 DEF IInv, TypeOK, Row, Verdicts
  <2> QED
    BY <2>1, <2>3, <2>5, <2>6 DEF Admits, IInv, OneSubject
<1> QED
  BY Inductive, <1>1, PTL

(***************************************************************************)
(* An observed mismatch makes every case it belongs to FAIL.               *)
(***************************************************************************)
THEOREM MismatchSeen == Spec => []MismatchShows
<1>1. IInv => MismatchShows
  <2> SUFFICES ASSUME IInv, outcome = "report", NEW r \in manifest, r.verdict = "mismatch",
                      NEW c \in Cases, r.key \in KeysOf(c)
               PROVE  report[c] = "FAIL"
    BY DEF MismatchShows
  <2>1. Admits /\ report[c] = Aggregate({TrackStatus(k) : k \in KeysOf(c)})
    BY DEF IInv, ReportInv, Derived
  <2>2. r = CHOOSE q \in manifest : q.key = r.key
    BY <2>1 DEF Admits
  <2>3. TrackStatus(r.key) = "FAIL"
    BY <2>1, <2>2 DEF Admits, TrackStatus
  <2> QED
    BY <2>1, <2>3, OneFails
<1> QED
  BY Inductive, <1>1, PTL

=============================================================================
