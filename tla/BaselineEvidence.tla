--------------------------- MODULE BaselineEvidence ---------------------------
(***************************************************************************)
(* Evidence for the frozen design baseline: the capture of bounded         *)
(* fixtures by scripts/run_design_baseline_cases.py, the observations that *)
(* reviewers add, and scripts/design_baseline_evidence.py, which derives   *)
(* the status of every parent case.  An item is a case or child on one     *)
(* track; it has a bounded fixture and a full-boundary contract.  An       *)
(* outcome is abstracted to how it compares with what is expected.         *)
(***************************************************************************)
EXTENDS Integers, FiniteSets

CONSTANTS
  Cases,      \* parent cases
  Items,      \* cases and children, per track
  Subs,       \* operator and media subconditions
  Parent,     \* of each item and subcondition
  Testable,   \* items whose operation can be tested locally
  Routed,     \* items whose fixture the bridge can replay
  Binaries,   \* executables that may be installed
  Reviews     \* bound on the observations that reviewers add

Contracts == ({"prior", "full"} \X Items) \cup ({"sub"} \X Subs)
Required == {k \in Contracts : k[1] # "prior"}
Verdicts == {"match", "mismatch", "UNSUPPORTED"}
Statuses == {"PASS", "FAIL", "UNSUPPORTED", "PARTIAL", "NOT_RUN"}

\* full_case_contracts gives every case a full-boundary contract.
ASSUME BaselineAssumption ==
  /\ Parent \in [Items \cup Subs -> Cases]
  /\ \A c \in Cases : \E i \in Items : Parent[i] = c
  /\ Testable \subseteq Items /\ Routed \subseteq Items /\ Routed # {}
  /\ Binaries # {} /\ Reviews \in Nat

VARIABLES
  exe,        \* the executable that is installed
  stage,      \* of the runner
  pinned,     \* the executable it hashed at the start
  todo,       \* items it has still to replay
  rows,       \* what it has observed
  output,     \* its directory: absent, partial, sealed (with a manifest)
  reviews,    \* observations added by reviewers
  outcome,    \* of the assessment: none, error or report
  report,     \* status of each case
  turned,     \* history: replacements of the executable during the run
  killed      \* history: the runner was killed

vars == <<exe, stage, pinned, todo, rows, output, reviews, outcome, report, turned, killed>>

runner == <<stage, pinned, todo, rows, output, turned, killed>>

\* `sound': the facts name an independent observer, its hashed artifact, the
\* exact input and, for a full contract, a matching finding on every clause.
Row == [key : Contracts, verdict : Verdicts, real : BOOLEAN, sound : BOOLEAN]

Init ==
  /\ exe \in Binaries /\ pinned = exe /\ stage = "idle" /\ todo = {} /\ rows = {}
  /\ output = "absent" /\ reviews = {} /\ outcome = "none"
  /\ report = [c \in Cases |-> "NOT_RUN"]
  /\ turned = 0 /\ killed = FALSE

-----------------------------------------------------------------------------
(* The runner.                                                             *)

\* The output must be new.
Start ==
  /\ stage = "idle" /\ output = "absent" /\ outcome = "none"
  /\ todo' \in SUBSET Routed \ {{}}          \* the selection
  /\ stage' = "capture" /\ pinned' = exe /\ output' = "partial" /\ turned' = 0
  /\ UNCHANGED <<exe, rows, reviews, outcome, report, killed>>

Observe(i, v) ==
  /\ stage = "capture" /\ i \in todo
  /\ rows' = rows \cup {[key |-> <<"prior", i>>, verdict |-> v, real |-> TRUE, sound |-> TRUE]}
  /\ todo' = todo \ {i}
  /\ UNCHANGED <<exe, stage, pinned, output, reviews, outcome, report, turned, killed>>

\* Mutant: what was captured before a failure stays.
KeepPartial ==
  /\ stage' = "idle" /\ rows' = {} /\ todo' = {}
  /\ UNCHANGED <<exe, pinned, output, reviews, outcome, report, turned, killed>>

\* Any error removes the directory.
RemoveAll ==
  /\ stage' = "idle" /\ rows' = {} /\ todo' = {} /\ output' = "absent"
  /\ UNCHANGED <<exe, pinned, reviews, outcome, report, turned, killed>>

\* The adapter fails, is late, answers too much or something else.
Fail == stage = "capture" /\ todo # {} /\ RemoveAll

Seal ==
  /\ stage = "capture" /\ todo = {}
  /\ IF exe = pinned
       THEN /\ stage' = "idle" /\ output' = "sealed"
            /\ UNCHANGED <<exe, pinned, todo, rows, reviews, outcome, report, turned, killed>>
       ELSE RemoveAll

\* A kill leaves the directory as it is, without a manifest.
Kill ==
  /\ stage = "capture"
  /\ stage' = "idle" /\ rows' = {} /\ todo' = {} /\ killed' = TRUE
  /\ UNCHANGED <<exe, pinned, output, reviews, outcome, report, turned>>

-----------------------------------------------------------------------------
(* From outside.                                                           *)

Replace ==
  /\ stage = "capture" /\ turned < 2
  /\ exe' \in Binaries \ {exe} /\ turned' = turned + 1
  /\ UNCHANGED <<stage, pinned, todo, rows, output, reviews, outcome, report, killed>>

\* An observation of any contract, on the subject or in a simulation.
Review(row) ==
  /\ stage = "idle" /\ outcome = "none" /\ Cardinality(reviews) < Reviews
  /\ reviews' = reviews \cup {row}
  /\ UNCHANGED <<exe, runner, outcome, report>>

-----------------------------------------------------------------------------
(* The assessment.                                                         *)

Manifest == (IF output = "sealed" THEN rows ELSE {}) \cup reviews

\* Every row is unique and, unless it reports no support, has sound facts.
Admits ==
  /\ \A r, s \in Manifest : r.key = s.key => r = s
  /\ \A r \in Manifest : r.verdict # "UNSUPPORTED" => r.sound

\* Mutant: a simulation is judged like an observation.
StatusOfAll(r) ==
  CASE r.verdict = "UNSUPPORTED" -> "UNSUPPORTED"
    [] r.verdict = "mismatch" -> "FAIL"
    [] OTHER -> IF r.key \in Required THEN "PASS" ELSE "PARTIAL"

\* A simulation is partial, whatever it shows.
StatusOf(r) ==
  IF ~r.real THEN "PARTIAL"
  ELSE CASE r.verdict = "UNSUPPORTED" -> "UNSUPPORTED"
         [] r.verdict = "mismatch" -> "FAIL"
         [] OTHER -> IF r.key \in Required THEN "PASS" ELSE "PARTIAL"

Status(k) ==
  IF \A r \in Manifest : r.key # k THEN "NOT_RUN"
  ELSE StatusOf(CHOOSE r \in Manifest : r.key = k)

\* Mutant: the support of a full contract is not looked at.
Unsupported(c) == {}

\* Items of the case whose full contract lacks the bounded fixture it needs.
Unsupporting(c) ==
  {i \in Testable : Parent[i] = c /\ Status(<<"prior", i>>) \notin {"PASS", "PARTIAL"}}

ParentStatus(c) ==
  LET all == {Status(k) : k \in {j \in Contracts : Parent[j[2]] = c}}
      required == {Status(k) : k \in {j \in Required : Parent[j[2]] = c}}
  IN IF "FAIL" \in all THEN "FAIL"
     ELSE IF "UNSUPPORTED" \in all THEN "UNSUPPORTED"
     ELSE IF required = {"PASS"}
       THEN IF Unsupporting(c) = {} THEN "PASS" ELSE "PARTIAL"
     ELSE IF all \cap {"PASS", "PARTIAL"} # {} THEN "PARTIAL"
     ELSE "NOT_RUN"

Assess ==
  /\ stage = "idle" /\ outcome = "none"
  /\ IF Admits THEN outcome' = "report" /\ report' = [c \in Cases |-> ParentStatus(c)]
               ELSE outcome' = "error" /\ UNCHANGED report
  /\ UNCHANGED <<exe, runner, reviews>>

Over == outcome # "none" /\ UNCHANGED vars

Next ==
  \/ Start \/ Fail \/ Seal \/ Kill \/ Replace \/ Assess \/ Over
  \/ \E i \in Items, v \in Verdicts : Observe(i, v)
  \/ \E row \in Row : Review(row)

Spec == Init /\ [][Next]_vars

-----------------------------------------------------------------------------

TypeOK ==
  /\ exe \in Binaries /\ pinned \in Binaries
  /\ stage \in {"idle", "capture"} /\ output \in {"absent", "partial", "sealed"}
  /\ todo \subseteq Routed /\ rows \subseteq Row /\ reviews \subseteq Row
  /\ turned \in 0..2 /\ killed \in BOOLEAN
  /\ outcome \in {"none", "error", "report"} /\ report \in [Cases -> Statuses]

(***************************************************************************)
(* A case passes only if every full contract and subcondition of it was    *)
(* observed to match, soundly and on the subject, and no bounded fixture   *)
(* it needs is missing, unsupported or contradicted by the subject         *)
(* (design_baseline_evidence.py:219-241).                                  *)
(***************************************************************************)
PassIsEarned ==
  outcome = "report" =>
    \A c \in Cases : report[c] = "PASS" =>
      /\ \A k \in Required : Parent[k[2]] = c =>
           \E r \in Manifest : r.key = k /\ r.verdict = "match" /\ r.real /\ r.sound
      /\ \A i \in Testable : Parent[i] = c => \E r \in Manifest : r.key = <<"prior", i>>
      /\ \A r \in Manifest : Parent[r.key[2]] = c /\ r.real => r.verdict = "match"

(***************************************************************************)
(* A case fails exactly when the subject itself contradicted one of its    *)
(* contracts: no absent support hides it, no simulation causes it          *)
(* (test_unit_simulation_mismatch_is_not_a_subject_failure).               *)
(***************************************************************************)
FailIsReal ==
  outcome = "report" =>
    \A c \in Cases : report[c] = "FAIL" <=>
      \E r \in Manifest : Parent[r.key[2]] = c /\ r.real /\ r.verdict = "mismatch"

(***************************************************************************)
(* After the runner has ended its directory is complete or gone            *)
(* (run_design_baseline_cases.py:136-141), unless it was killed.           *)
(***************************************************************************)
OutputWhole == stage = "idle" /\ ~killed => output \in {"absent", "sealed"}

(***************************************************************************)
(* "A full case requires ... a matching local fixture when that operation  *)
(* can be tested locally.  Unit simulations cannot yield full-case PASS"   *)
(* (docs/first-stage-completion.md:41-43).                                 *)
(***************************************************************************)
SupportIsReal ==
  outcome = "report" =>
    \A c \in Cases : report[c] = "PASS" =>
      \A i \in Testable : Parent[i] = c =>
        \E r \in Manifest : r.key = <<"prior", i>> /\ r.verdict = "match" /\ r.real

=============================================================================
