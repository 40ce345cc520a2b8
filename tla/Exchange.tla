------------------------------- MODULE Exchange -------------------------------
(***************************************************************************)
(* The live exchanges of src/pkg/conformance/exchange.go (plain) and       *)
(* replay_exchange.go (replay): each subject produces records with its own *)
(* core and the other one opens them, twice, once per direction.  Every    *)
(* call of an adapter goes through exchangeStep.  In a plain exchange the  *)
(* receiver is fresh for each check; in a replay exchange one receiver     *)
(* serves nine actions and a fresh one serves the control.  The cores are  *)
(* external: correct, or with one named fault.                             *)
(***************************************************************************)
EXTENDS Integers, Sequences

CONSTANTS
  Kinds   \* the cores that are tried as subjects

\* What a receiver may fail to bind; a fault of that name ignores it.
Contexts == <<"ciphertext", "aad", "seed", "direction", "sid", "transcript">>
Bound == {Contexts[i] : i \in 1..6}

\* Faults of a producer, of every receiver, and of one that keeps state.
ProducerFaults == {"liar", "sealed"}
ReceiverFaults == {"deaf", "mumbles"} \cup Bound
StateFaults == {"forgets", "burns", "strict", "reopens"}
AllKinds == {"good"} \cup ProducerFaults \cup ReceiverFaults \cup StateFaults

VARIABLES
  mode,     \* plain, replay (or concurrent, which is not of this module)
  kind,     \* the core of each subject
  trial,    \* 0..3: sender and direction; 4 when the report is complete
  stage,    \* of the trial: produce, check, fresh, receive or fold
  turn,     \* the check in hand, 1 (valid) to 7
  produced, \* Production.Status
  control,  \* status of the positive control: `valid', or FreshRecordControl
  received, \* Reception.Status
  last,     \* the verdict wanted of the last step and its status
  counts,   \* statuses whose count is not 0
  report,   \* Status of the report
  expired,  \* the context of main is done
  lost      \* history: a call was lost or not supported

vars == <<mode, kind, trial, stage, turn, produced, control, received, last,
          counts, report, expired, lost>>

Sender == trial \div 2
Receiver == 1 - Sender
Statuses == {"PASS", "FAIL", "UNSUPPORTED", "NOT_RUN"}
NoStep == [wanted |-> "none", status |-> "NOT_RUN"]

Init ==
  /\ kind \in [0..1 -> Kinds]
  /\ trial = 0 /\ stage = "produce" /\ turn = 1
  /\ produced = "NOT_RUN" /\ control = "NOT_RUN" /\ received = "NOT_RUN"
  /\ last = NoStep
  /\ counts = {} /\ report = "PASS" /\ expired = FALSE /\ lost = FALSE

-----------------------------------------------------------------------------
(* One call of an adapter.                                                 *)

\* What may come back from a core that would answer v: a process error, a
\* timeout, an answer that is malformed or of another case, or UNSUPPORTED.
Back(v) == IF expired THEN {"lost"} ELSE {v, "lost", "UNSUPPORTED"}

\* Mutant: an error counts as a rejection.
JudgeErrorRejects(o, wanted) ==
  CASE o = "UNSUPPORTED" -> "UNSUPPORTED"
    [] o = "lost" -> IF wanted = "REJECT" THEN "PASS" ELSE "FAIL"
    [] OTHER -> IF o = wanted THEN "PASS" ELSE "FAIL"

Judge(o, wanted) ==
  CASE o = "UNSUPPORTED" -> "UNSUPPORTED"
    [] o = "lost" -> "FAIL"
    [] OTHER -> IF o = wanted THEN "PASS" ELSE "FAIL"

Note(o) == lost' = (lost \/ o \in {"lost", "UNSUPPORTED"})

Produce ==
  /\ trial < 4 /\ stage = "produce"
  /\ \E o \in Back("ACCEPT") :
       /\ produced' = IF o = "ACCEPT" /\ kind[Sender] = "liar" THEN "FAIL"
                      ELSE Judge(o, "ACCEPT")
       /\ Note(o)
  /\ stage' = IF mode = "plain" THEN "check" ELSE "fresh"
  /\ counts' = counts \cup {produced'}
  /\ UNCHANGED <<mode, kind, trial, turn, control, received, last, report, expired>>

\* A receiver can open an intact record of this sender.
Opens == kind[Sender] # "sealed" /\ kind[Receiver] # "deaf"

-----------------------------------------------------------------------------
(* The checks of a plain exchange.                                         *)

Wanted == IF turn = 1 THEN "ACCEPT" ELSE "REJECT"

\* What the receiver says of the record as it was, or in a changed context.
Truth ==
  IF Opens /\ (turn = 1 \/ kind[Receiver] = Contexts[turn - 1]) THEN "ACCEPT" ELSE "REJECT"

CheckStep(status) ==
  /\ control' = IF turn = 1 THEN status ELSE control
  /\ last' = [wanted |-> IF turn = 1 THEN "ACCEPT" ELSE Contexts[turn - 1], status |-> status]
  /\ counts' = counts \cup {status}
  /\ IF turn < 7 THEN turn' = turn + 1 /\ UNCHANGED stage ELSE turn' = 1 /\ stage' = "fold"
  /\ UNCHANGED <<mode, kind, trial, produced, received, report, expired>>

Check ==
  /\ trial < 4 /\ stage = "check"
  /\ IF produced # "PASS" THEN CheckStep("NOT_RUN") /\ UNCHANGED lost
     ELSE \E o \in Back(Truth) :
            /\ CheckStep(IF turn = 1 /\ o = "ACCEPT" /\ kind[Receiver] = "mumbles" THEN "FAIL"
                         ELSE Judge(o, Wanted))
            /\ Note(o)

-----------------------------------------------------------------------------
(* The batch of a replay exchange.                                         *)

Damaged == 0 - 1   \* record 1 with its last bit flipped
Close == 0 - 2

\* Mutant: the records are opened in order.
ActionsInOrder == <<0, 0, Damaged, 1, 2, 3, 3, Close, 4>>

Actions == <<0, 0, Damaged, 1, 3, 2, 3, Close, 4>>

Expected == <<"ACCEPT", "REJECT", "REJECT", "ACCEPT", "ACCEPT", "ACCEPT", "REJECT", "ACCEPT", "REJECT">>

\* One receiver that serves the whole batch: what it has accepted and whether
\* it is closed before action i, and its verdict on action i.
Verdict(k, s, n) ==
  IF n = Close THEN "ACCEPT"
  ELSE IF \/ ~Opens
          \/ s.closed /\ k # "reopens"
          \/ n = Damaged /\ k # "ciphertext"
          \/ n \in s.used /\ k # "forgets"
          \/ k = "strict" /\ \E u \in s.used : u > n
       THEN "REJECT" ELSE "ACCEPT"

After(k, s, n) ==
  [used |-> IF n = Damaged THEN (IF k = "burns" THEN s.used \cup {1} ELSE s.used)
            ELSE IF n # Close /\ Verdict(k, s, n) = "ACCEPT" THEN s.used \cup {n} ELSE s.used,
   closed |-> s.closed \/ n = Close]

Before(k) ==
  LET f[i \in 1..9] == IF i = 1 THEN [used |-> {}, closed |-> FALSE]
                       ELSE After(k, f[i - 1], Actions[i - 1])
  IN  f

Matches(k) ==
  /\ \A i \in 1..9 : Verdict(k, Before(k)[i], Actions[i]) = Expected[i]
  /\ k # "mumbles"

FreshControl ==
  /\ trial < 4 /\ stage = "fresh" /\ stage' = "receive"
  /\ IF produced # "PASS" THEN control' = "NOT_RUN" /\ UNCHANGED lost
     ELSE \E o \in Back("ACCEPT") :
            /\ control' = IF o = "ACCEPT" /\ (~Opens \/ kind[Receiver] = "mumbles") THEN "FAIL"
                          ELSE Judge(o, "ACCEPT")
            /\ Note(o)
  /\ UNCHANGED <<mode, kind, trial, turn, produced, received, last, counts, report, expired>>

Receive ==
  /\ trial < 4 /\ stage = "receive" /\ stage' = "fold"
  /\ IF produced # "PASS" THEN received' = "NOT_RUN" /\ UNCHANGED lost
     ELSE \E o \in Back("ACCEPT") :
            /\ received' = IF o = "ACCEPT" /\ ~Matches(kind[Receiver]) THEN "FAIL"
                           ELSE Judge(o, "ACCEPT")
            /\ Note(o)
  /\ UNCHANGED <<mode, kind, trial, turn, produced, control, last, counts, report, expired>>

-----------------------------------------------------------------------------
(* The status of the report.                                               *)

\* The plain report is judged once, from its counts; the other per trial.
PlainStatus ==
  IF "FAIL" \in counts THEN "FAIL"
  ELSE IF counts \cap {"UNSUPPORTED", "NOT_RUN"} # {} THEN "INCOMPLETE" ELSE "PASS"

ReplayStatus ==
  IF "FAIL" \in {produced, received, control} THEN "FAIL"
  ELSE IF report # "FAIL" /\ {produced, received, control} # {"PASS"} THEN "INCOMPLETE" ELSE report

Fold ==
  /\ trial < 4 /\ stage = "fold"
  /\ report' = IF mode = "replay" THEN ReplayStatus
               ELSE IF trial = 3 THEN PlainStatus ELSE report
  /\ trial' = trial + 1 /\ stage' = "produce" /\ produced' = "NOT_RUN" /\ received' = "NOT_RUN"
  /\ control' = "NOT_RUN"
  /\ UNCHANGED <<mode, kind, turn, last, counts, expired, lost>>

\* Three minutes are over: every later call fails.
Expire ==
  /\ trial < 4 /\ stage # "fold" /\ ~expired /\ expired' = TRUE
  /\ UNCHANGED <<mode, kind, trial, stage, turn, produced, control, received, last,
                 counts, report, lost>>

Next == Produce \/ Check \/ FreshControl \/ Receive \/ Fold \/ Expire

-----------------------------------------------------------------------------
(* Properties.                                                             *)

(***************************************************************************)
(* "Negative checks require a passing positive control to isolate a        *)
(* defense" (Scope, exchange.go:89): a rejection that passed beside a      *)
(* control that passed is this receiver's own defence of that context,     *)
(* never a lost answer or a record that could not be opened anyway.        *)
(***************************************************************************)
DefenceIsIsolated ==
  last.status = "PASS" /\ control = "PASS" /\ last.wanted \in Bound => kind[Receiver] # last.wanted

=============================================================================
