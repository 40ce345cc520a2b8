----------------------------- MODULE SageExchange -----------------------------
(***************************************************************************)
(* The command cmd/sage-exchange: one run of a plain, a replay             *)
(* (-stateful) or a concurrent (-concurrent) exchange of two subjects,     *)
(* and the exit code it returns.  It composes Exchange, which serves the   *)
(* first two modes, and ContentionRound, which serves the third.           *)
(***************************************************************************)
EXTENDS Integers

CONSTANTS Kinds, W, Rounds, Origin, MaxTime, Cores  \* see the two modules

VARIABLES mode, kind, trial, stage, turn, produced, control, received, last,
          counts, report, expired, lost
VARIABLES core, round, step, pc, gate, now, started, finished, verdict, used,
          checks, overlap, status, wins, met, blame
VARIABLES
  distinct,  \* both subjects have an identity, and not the same executable
  code       \* what run() returns; -1 while it runs

Trials == INSTANCE Exchange
Batch == INSTANCE ContentionRound

ASSUME ExchangeAssumption ==
  /\ Kinds \subseteq Trials!AllKinds /\ Kinds # {}
  /\ Cores \subseteq Batch!CoreKinds /\ Cores # {}
  /\ W \in Nat \ {0, 1} /\ Rounds \in Nat \ {0}
  /\ Origin \in Nat /\ MaxTime \in Nat /\ Origin <= MaxTime

trialVars == <<mode, kind, trial, stage, turn, produced, control, received, last,
               counts, report, expired, lost>>
batchVars == <<core, round, step, pc, gate, now, started, finished, verdict, used,
               checks, overlap, status, wins, met, blame>>
vars == <<trialVars, batchVars, distinct, code>>

Running == code = 0 - 1

Init ==
  /\ mode \in {"plain", "replay", "concurrent"} /\ distinct \in BOOLEAN
  /\ Trials!Init /\ (mode = "concurrent" => kind = [s \in 0..1 |-> CHOOSE k \in Kinds : TRUE])
  /\ Batch!Init /\ (mode # "concurrent" => core = CHOOSE c \in Cores : TRUE)
  /\ code = 0 - 1

\* The exchange returns an error before it calls any adapter.
Refuse ==
  /\ Running /\ ~distinct /\ code' = 2
  /\ UNCHANGED <<trialVars, batchVars, distinct>>

Exchanging ==
  /\ Running /\ distinct /\ UNCHANGED <<distinct, code>>
  /\ IF mode = "concurrent" THEN Batch!Next /\ UNCHANGED trialVars
                            ELSE Trials!Next /\ UNCHANGED batchVars

Outcome == IF mode = "concurrent" THEN status ELSE report

\* The report is written first; that may fail.
Exit ==
  /\ Running /\ distinct /\ IF mode = "concurrent" THEN step = 9 ELSE trial = 4
  /\ code' \in {2, CASE Outcome = "FAIL" -> 1 [] Outcome = "INCOMPLETE" -> 3 [] OTHER -> 0}
  /\ UNCHANGED <<trialVars, batchVars, distinct>>

Next == Refuse \/ Exchanging \/ Exit

Spec == Init /\ [][Next]_vars

-----------------------------------------------------------------------------
(* Properties.                                                             *)

\* The faults that the checks of a mode are there to find.
Sought ==
  CASE mode = "plain" -> {"liar", "sealed", "deaf", "mumbles"} \cup Trials!Bound
    [] mode = "replay" -> {"liar", "sealed", "deaf", "mumbles", "ciphertext",
                           "forgets", "burns", "strict", "reopens"}
    [] OTHER -> {"lax", "burns", "forgets"}

Present == IF mode = "concurrent" THEN {core} ELSE {kind[0], kind[1]}

(***************************************************************************)
(* Exit code 0 is earned: two distinct subjects, every call answered, and  *)
(* none of the faults the vector of this mode is designed to find is in    *)
(* either of them, in whatever order the goroutines of a contention ran    *)
(* (exchange.go:112-179, replay_exchange.go:59-158,                        *)
(* concurrent_exchange.go:166-222, main.go:69-78).                         *)
(***************************************************************************)
ExitZeroIsEarned ==
  code = 0 => distinct /\ ~lost /\ ~blame /\ ~expired /\ Present \cap Sought = {}

(***************************************************************************)
(* Exit code 1 is never the fault of the harness: correct cores fail only  *)
(* when a call was lost, the three minutes were over, or a worker read a   *)
(* clock that had not moved since the origin (line 65 of                   *)
(* concurrent_exchange.go refuses a start of 0).                           *)
(***************************************************************************)
NoFalseAlarm ==
  code = 1 => lost \/ blame \/ ~(Present \subseteq {"good", "atomic"})

\* The properties of the parts, checked in the composition.
DefenceIsIsolated == Trials!DefenceIsIsolated
OneWinnerEach == Batch!OneWinnerEach
NeverStuck == Batch!NeverStuck

=============================================================================
