----------------------------- MODULE CaseEvidence -----------------------------
(***************************************************************************)
(* Case evidence: scripts/run_current_spec_cases.py captures observations  *)
(* of one track through an adapter, and scripts/current_spec_evidence.py   *)
(* derives the status of every case from a manifest of such observations.  *)
(* Between and during the two, the executable under test may be replaced,  *)
(* a fixture amended and an evidence file altered; captures of different   *)
(* tracks may be joined in one manifest.  A verdict is abstracted to how   *)
(* it compares with the fixture it answers.                                *)
(***************************************************************************)
EXTENDS Integers, FiniteSets

CONSTANTS
  Cases,      \* cases of the specification
  Children,   \* its mandatory subscenarios
  Parent,     \* of each child
  TracksOf,   \* verification tracks of each case
  Plans,      \* coverage of each key in the bindings that are tried
  Binaries,   \* executables that may be installed
  Changes     \* bound on the changes made from outside

Keys == (UNION {{<<c, t>> : t \in TracksOf[c]} : c \in Cases}) \cup (Children \X {"runtime"})
Coverages == {"none", "partial", "complete"}
Verdicts == {"match", "mismatch", "UNSUPPORTED"}
Statuses == {"PASS", "FAIL", "UNSUPPORTED", "PARTIAL", "NOT_RUN"}
TrackNames == {"runtime", "document_review", "deployment_review"}

\* catalog() refuses a case without a track and an unknown parent.
ASSUME CaseEvidenceAssumption ==
  /\ Cases \cap Children = {}
  /\ Parent \in [Children -> Cases]
  /\ TracksOf \in [Cases -> SUBSET TrackNames]
  /\ \A c \in Cases : TracksOf[c] # {}
  /\ Plans \subseteq [Keys -> Coverages]
  /\ Binaries # {} /\ Changes \in Nat

VARIABLES
  bound,      \* coverage of the binding of each key, "none" if it has none
  version,    \* of the fixture of each key: a new one has a new hash
  exe,        \* the executable that is installed
  stage,      \* of the runner
  pinned,     \* the executable it hashed at the start
  todo,       \* keys it has still to run
  rows,       \* observations of this run
  runs,       \* runs started
  manifest,   \* rows of the manifests written so far that name `subject'
  subject,    \* executable the manifest names
  altered,    \* evidence files changed since they were hashed
  outcome,    \* of the assessment: none, error or report
  report,     \* status of each case
  changes,    \* changes from outside so far
  turned,     \* history: replacements of the executable during this run
  restored    \* history: a sealed run saw the executable replaced and put back

vars == <<bound, version, exe, stage, pinned, todo, rows, runs, manifest, subject,
          altered, outcome, report, changes, turned, restored>>

plan == <<bound, version>>
runner == <<stage, pinned, todo, rows, runs, turned>>
evidence == <<manifest, subject, altered, restored>>
result == <<outcome, report>>

Row == [key : Keys, verdict : Verdicts, fixture : 0..Changes, run : {1, 2}, by : Binaries]

Init ==
  /\ bound \in Plans /\ version = [k \in Keys |-> 0]
  /\ exe \in Binaries /\ stage = "idle" /\ pinned = exe
  /\ todo = {} /\ rows = {} /\ runs = 0
  /\ manifest = {} /\ subject = exe /\ altered = {} /\ restored = FALSE
  /\ outcome = "none" /\ report = [c \in Cases |-> "NOT_RUN"]
  /\ changes = 0 /\ turned = 0

-----------------------------------------------------------------------------
(* The runner of one track.                                                *)

Start(track) ==
  /\ stage = "idle" /\ outcome = "none" /\ runs < 2
  /\ todo' = {k \in Keys : k[2] = track /\ bound[k] # "none"}
  /\ todo' # {}
  /\ stage' = "capture" /\ pinned' = exe /\ rows' = {} /\ runs' = runs + 1 /\ turned' = 0
  /\ UNCHANGED <<plan, exe, evidence, result, changes>>

\* The adapter answers with the identity of the case and a valid outcome.
Observe(k, v) ==
  /\ stage = "capture" /\ k \in todo
  /\ rows' = rows \cup {[key |-> k, verdict |-> v, fixture |-> version[k], run |-> runs,
                         by |-> exe]}
  /\ todo' = todo \ {k}
  /\ UNCHANGED <<plan, exe, stage, pinned, runs, turned, evidence, result, changes>>

\* It does not, in time: the run stops and leaves its files but no manifest.
Fail ==
  /\ stage = "capture" /\ todo # {}
  /\ stage' = "idle" /\ rows' = {} /\ todo' = {}
  /\ UNCHANGED <<plan, exe, pinned, runs, turned, evidence, result, changes>>

\* Mutant: the executable is hashed at the start only.
SealUnchecked ==
  /\ stage = "capture" /\ todo = {}
  /\ manifest' = (IF pinned = subject THEN manifest ELSE {}) \cup rows
  /\ subject' = pinned
  /\ altered' = altered \cap {r.key : r \in manifest'}
  /\ restored' = (restored \/ turned > 1)
  /\ stage' = "idle" /\ rows' = {}
  /\ UNCHANGED <<plan, exe, pinned, todo, runs, turned, result, changes>>

\* The executables are hashed again and the manifest is written.  It is joined
\* with an earlier one of the same subject; otherwise it stands alone.
Seal ==
  /\ stage = "capture" /\ todo = {}
  /\ stage' = "idle" /\ rows' = {}
  /\ IF exe = pinned
       THEN /\ manifest' = (IF pinned = subject THEN manifest ELSE {}) \cup rows
            /\ subject' = pinned
            /\ altered' = altered \cap {r.key : r \in manifest'}
            /\ restored' = (restored \/ turned > 1)
       ELSE UNCHANGED evidence
  /\ UNCHANGED <<plan, exe, pinned, todo, runs, turned, result, changes>>

-----------------------------------------------------------------------------
(* What may change from outside.                                           *)

Replace ==
  /\ changes < Changes /\ outcome = "none"
  /\ exe' \in Binaries \ {exe} /\ changes' = changes + 1 /\ turned' = turned + 1
  /\ UNCHANGED <<plan, stage, pinned, todo, rows, runs, evidence, result>>

Amend(k) ==
  /\ changes < Changes /\ outcome = "none" /\ bound[k] # "none"
  /\ stage = "idle"            \* the runner reads all fixtures before it starts
  /\ version' = [version EXCEPT ![k] = @ + 1] /\ changes' = changes + 1
  /\ UNCHANGED <<bound, exe, runner, evidence, result>>

Alter(k) ==
  /\ changes < Changes /\ outcome = "none" /\ k \in {r.key : r \in manifest}
  /\ altered' = altered \cup {k} /\ changes' = changes + 1
  /\ UNCHANGED <<plan, exe, runner, manifest, subject, restored, result>>

-----------------------------------------------------------------------------
(* The assessment.                                                         *)

\* Mutant: an observation of an older fixture is admitted.
AdmitsOld ==
  /\ \A r \in manifest : bound[r.key] # "none" /\ r.key \notin altered
  /\ \A r, s \in manifest : r.key = s.key => r = s

\* load_observations: every row is bound, unique, unaltered and answers the
\* fixture as it is now.
Admits ==
  /\ \A r \in manifest : /\ bound[r.key] # "none"
                         /\ r.key \notin altered
                         /\ r.fixture = version[r.key]
  /\ \A r, s \in manifest : r.key = s.key => r = s

TrackStatus(k) ==
  IF bound[k] = "none" \/ \A r \in manifest : r.key # k THEN "NOT_RUN"
  ELSE LET verdict == (CHOOSE r \in manifest : r.key = k).verdict IN
         CASE verdict = "UNSUPPORTED" -> "UNSUPPORTED"
           [] verdict = "mismatch" -> "FAIL"
           [] OTHER -> IF bound[k] = "complete" THEN "PASS" ELSE "PARTIAL"

\* Mutant: a missing feature is looked for before a mismatch.
UnsupportedFirst(statuses) ==
  IF "UNSUPPORTED" \in statuses THEN "UNSUPPORTED"
  ELSE IF "FAIL" \in statuses THEN "FAIL"
  ELSE IF statuses \subseteq {"PASS"} THEN "PASS"
  ELSE IF statuses \cap {"PASS", "PARTIAL"} # {} THEN "PARTIAL" ELSE "NOT_RUN"

Aggregate(statuses) ==
  IF "FAIL" \in statuses THEN "FAIL"
  ELSE IF "UNSUPPORTED" \in statuses THEN "UNSUPPORTED"
  ELSE IF statuses \subseteq {"PASS"} THEN "PASS"
  ELSE IF statuses \cap {"PASS", "PARTIAL"} # {} THEN "PARTIAL"
  ELSE "NOT_RUN"

KeysOf(c) ==
  {<<c, t>> : t \in TracksOf[c]} \cup {<<d, "runtime">> : d \in {e \in Children : Parent[e] = c}}

\* Without evidence this is the inventory: every case NOT_RUN.
Assess ==
  /\ stage = "idle" /\ outcome = "none"
  /\ IF Admits
       THEN /\ outcome' = "report"
            /\ report' = [c \in Cases |-> Aggregate({TrackStatus(k) : k \in KeysOf(c)})]
       ELSE outcome' = "error" /\ UNCHANGED report
  /\ UNCHANGED <<plan, exe, runner, evidence, changes>>

Over == outcome # "none" /\ UNCHANGED vars

Next ==
  \/ \E t \in TrackNames : Start(t)
  \/ \E k \in Keys, v \in Verdicts : Observe(k, v)
  \/ Fail \/ Seal \/ Replace \/ Assess \/ Over
  \/ \E k \in Keys : Amend(k) \/ Alter(k)

Spec == Init /\ [][Next]_vars

-----------------------------------------------------------------------------

TypeOK ==
  /\ bound \in [Keys -> Coverages] /\ version \in [Keys -> 0..Changes]
  /\ exe \in Binaries /\ pinned \in Binaries /\ subject \in Binaries
  /\ stage \in {"idle", "capture"} /\ todo \subseteq Keys
  /\ runs \in 0..2 /\ changes \in 0..Changes /\ turned \in Nat
  /\ rows \subseteq Row /\ manifest \subseteq Row
  /\ altered \subseteq Keys /\ restored \in BOOLEAN
  /\ outcome \in {"none", "error", "report"}
  /\ report \in [Cases -> Statuses]

(***************************************************************************)
(* Every observation of a manifest was made on the executable the manifest *)
(* names (run_current_spec_cases.py:58-60 and 95-97), whenever it was      *)
(* replaced, unless it was replaced and put back within one run.           *)
(***************************************************************************)
OneSubject == ~restored => \A r \in manifest : r.by = subject

(***************************************************************************)
(* "Every required track and mandatory child must pass before a parent     *)
(* case can pass" (docs/current-spec-coverage.md:63-64): a PASS rests, for *)
(* each of them, on a complete fixture as it is now and on an unaltered    *)
(* observation of the named executable that matches it.                    *)
(***************************************************************************)
PassIsEarned ==
  outcome = "report" =>
    \A c \in Cases : report[c] = "PASS" =>
      \A k \in KeysOf(c) :
        /\ bound[k] = "complete"
        /\ \E r \in manifest : /\ r.key = k /\ r.verdict = "match"
                               /\ r.fixture = version[k] /\ k \notin altered
                               /\ restored \/ r.by = subject

(***************************************************************************)
(* An observed mismatch shows: no feature that is missing and no evidence  *)
(* that is absent or partial hides it (current_spec_evidence.py:166-175).  *)
(***************************************************************************)
MismatchShows ==
  outcome = "report" =>
    \A r \in manifest : r.verdict = "mismatch" =>
      \A c \in Cases : r.key \in KeysOf(c) => report[c] = "FAIL"

=============================================================================
