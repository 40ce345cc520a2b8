--------------------------- MODULE ContentionRound ---------------------------
(***************************************************************************)
(* The contention batch of src/pkg/conformance/concurrent_exchange.go and  *)
(* the parallel open of src/adapters/go/parallel.go.  A round sends seven  *)
(* actions to one fresh receiver: a parallel open of copies of record 0    *)
(* and of a damaged copy of record 1, opens of records 1 and 0, a parallel *)
(* open of copies of records 2 and 3, opens of records 2, 3 and 4.  The    *)
(* workers of a parallel open share a start gate, read a clock before and  *)
(* after their call, and are judged from what they noted.  The session     *)
(* core is external: it is correct, or has one of the named faults.        *)
(***************************************************************************)
EXTENDS Integers, FiniteSets

CONSTANTS
  W,        \* workers of a parallel open (8)
  Rounds,   \* rounds of the batch (8)
  Origin,   \* what the clock shows when the workers start: 0 if it is coarse
  MaxTime,  \* bound on the clock of one parallel open
  Cores     \* the cores that are tried

CoreKinds == {"atomic", "racy", "shy", "lax", "burns", "forgets"}

VARIABLES
  core,      \* the behaviour of the receivers of this batch
  round,     \* rounds judged so far
  step,      \* the action in hand; 7 when the answers are complete
  pc,        \* of each worker
  gate,      \* the channel `start' is closed
  now,       \* nanoseconds since `origin'
  started, finished, verdict,  \* what the workers note
  used,      \* records the receiver has accepted
  checks,    \* CheckStatuses of the round, as the answers come in
  overlap,   \* Overlap of the round
  status,    \* of the report
  wins,      \* history: opens of each record that succeeded in this round
  met,       \* history: two calls of the group were under way together
  blame      \* history: an adapter failed or the clock had not moved yet

vars == <<core, round, step, pc, gate, now, started, finished, verdict, used,
          checks, overlap, status, wins, met, blame>>

workers == <<pc, gate, now, started, finished, verdict>>

Workers == 0..(W - 1)
Groups == {0, 3}            \* the actions that are parallel opens
Records == 0..4
Damaged == 5                \* the copy of record 1 with its last bit flipped
Busy == {"began", "checked", "answered"}

Fresh ==
  /\ pc = [w \in Workers |-> "new"] /\ gate = FALSE /\ now = Origin
  /\ started = [w \in Workers |-> 0] /\ finished = [w \in Workers |-> 0]
  /\ verdict = [w \in Workers |-> "NONE"]

Refresh ==
  /\ pc' = [w \in Workers |-> "new"] /\ gate' = FALSE /\ now' = Origin
  /\ started' = [w \in Workers |-> 0] /\ finished' = [w \in Workers |-> 0]
  /\ verdict' = [w \in Workers |-> "NONE"]

NotRun == [a \in 0..6 |-> "NOT_RUN"]

Init ==
  /\ core \in Cores
  /\ round = 0 /\ step = 0 /\ Fresh
  /\ used = {} /\ checks = NotRun /\ overlap = [g \in Groups |-> FALSE]
  /\ status = "PASS"
  /\ wins = [r \in Records \cup {Damaged} |-> 0]
  /\ met = [g \in Groups |-> FALSE] /\ blame = FALSE

-----------------------------------------------------------------------------
(* The parallel open of the adapter.                                       *)

\* The record that worker w opens: of eight, four open each copy.
Wire(w) ==
  IF step = 0 THEN (IF w < (W + 1) \div 2 THEN 0 ELSE Damaged)
              ELSE (IF w < (W + 1) \div 2 THEN 2 ELSE 3)

MayReady(w) == step \in Groups /\ pc[w] = "new"

Ready(w) ==
  /\ MayReady(w)
  /\ pc' = [pc EXCEPT ![w] = "ready"]
  /\ UNCHANGED <<core, round, step, gate, now, started, finished, verdict, used,
                 checks, overlap, status, wins, met, blame>>

\* Mutant: one report more is awaited than there are workers.
MayOpenGateLate ==
  step \in Groups /\ ~gate /\ Cardinality({w \in Workers : pc[w] = "ready"}) = W + 1

\* The main goroutine received one report per worker and closes `start'.
MayOpenGate == step \in Groups /\ ~gate /\ \A w \in Workers : pc[w] = "ready"

OpenGate ==
  /\ MayOpenGate
  /\ gate' = TRUE
  /\ UNCHANGED <<core, round, step, pc, now, started, finished, verdict, used,
                 checks, overlap, status, wins, met, blame>>

\* Nobody reads the clock before the gate is open.
Tick ==
  /\ step \in Groups /\ gate /\ now < MaxTime /\ \E w \in Workers : pc[w] # "done"
  /\ now' = now + 1
  /\ UNCHANGED <<core, round, step, pc, gate, started, finished, verdict, used,
                 checks, overlap, status, wins, met, blame>>

MayBegin(w) == step \in Groups /\ gate /\ pc[w] = "ready"

Begin(w) ==
  /\ MayBegin(w)
  /\ pc' = [pc EXCEPT ![w] = "began"]
  /\ started' = [started EXCEPT ![w] = now]
  /\ met' = [met EXCEPT ![step] = @ \/ \E v \in Workers : pc[v] \in Busy]
  /\ blame' = (blame \/ now = 0)
  /\ UNCHANGED <<core, round, step, gate, now, finished, verdict, used, checks,
                 overlap, status, wins>>

MayEnd(w) == step \in Groups /\ pc[w] = "answered"

End(w) ==
  /\ MayEnd(w)
  /\ pc' = [pc EXCEPT ![w] = "done"]
  /\ finished' = [finished EXCEPT ![w] = now]
  /\ UNCHANGED <<core, round, step, gate, now, started, verdict, used, checks,
                 overlap, status, wins, met, blame>>

-----------------------------------------------------------------------------
(* The session core, external.                                             *)

\* The answers of a core in one step.  `shy' may turn away a record while
\* another call is under way; `burns' marks a record before it checks the tag.
Answers(r, crowded) ==
  IF r = Damaged THEN {IF core = "lax" THEN "ACCEPT" ELSE "REJECT"}
  ELSE IF r \in used /\ core # "forgets" THEN {"REJECT"}
  ELSE {"ACCEPT"} \cup (IF core = "shy" /\ crowded THEN {"REJECT"} ELSE {})

Claim(r, v) ==
  /\ used' = IF v = "ACCEPT" THEN used \cup {r}
             ELSE IF core = "burns" /\ r = Damaged THEN used \cup {1} ELSE used
  /\ wins' = [wins EXCEPT ![r] = @ + (IF v = "ACCEPT" THEN 1 ELSE 0)]

\* A correct core decides and marks a record in one step.
MayDecide(w) == pc[w] = "began" /\ (core # "racy" \/ Wire(w) = Damaged \/ Wire(w) \in used)

Decide(w) ==
  /\ MayDecide(w)
  /\ \E v \in Answers(Wire(w), \E u \in Workers \ {w} : pc[u] \in Busy) :
       verdict' = [verdict EXCEPT ![w] = v] /\ Claim(Wire(w), v)
  /\ pc' = [pc EXCEPT ![w] = "answered"]
  /\ UNCHANGED <<core, round, step, gate, now, started, finished, checks,
                 overlap, status, met, blame>>

\* A racy core looks first ...
MayLook(w) == pc[w] = "began" /\ core = "racy" /\ Wire(w) \notin used \cup {Damaged}

Look(w) ==
  /\ MayLook(w)
  /\ pc' = [pc EXCEPT ![w] = "checked"]
  /\ UNCHANGED <<core, round, step, gate, now, started, finished, verdict, used,
                 checks, overlap, status, wins, met, blame>>

\* ... and marks later.
MayMark(w) == pc[w] = "checked"

Mark(w) ==
  /\ MayMark(w)
  /\ verdict' = [verdict EXCEPT ![w] = "ACCEPT"] /\ Claim(Wire(w), "ACCEPT")
  /\ pc' = [pc EXCEPT ![w] = "answered"]
  /\ UNCHANGED <<core, round, step, gate, now, started, finished, checks,
                 overlap, status, met, blame>>

-----------------------------------------------------------------------------
(* The judgement of a parallel open and of a single open.                  *)

Winners(r) == Cardinality({w \in Workers : Wire(w) = r /\ verdict[w] = "ACCEPT"})

\* Mutant: intervals that only touch count as overlapping.
Touch(w, v) == started[w] <= finished[v] /\ started[v] <= finished[w]

Meet(w, v) == started[w] < finished[v] /\ started[v] < finished[w]

Overlapping == \E w, v \in Workers : w # v /\ Meet(w, v)

\* A clock reading that is refused.
Refused(w) == started[w] = 0 \/ finished[w] < started[w]

\* Mutant: a group without overlap fails.
NoOverlapFails ==
  IF \E w \in Workers : Refused(w) THEN "FAIL"
  ELSE IF \E r \in {Wire(w) : w \in Workers} :
            Winners(r) # (IF r = Damaged THEN 0 ELSE 1) THEN "FAIL"
  ELSE IF Overlapping THEN "PASS" ELSE "FAIL"

JudgeParallel ==
  IF \E w \in Workers : Refused(w) THEN "FAIL"
  ELSE IF \E r \in {Wire(w) : w \in Workers} :
            Winners(r) # (IF r = Damaged THEN 0 ELSE 1) THEN "FAIL"
  ELSE IF Overlapping THEN "PASS" ELSE "INCOMPLETE"

\* The loop over the workers returns at the first that stops it; a refused
\* clock reading also forgets the overlap found so far.
Stops(w) == Refused(w) \/ (Wire(w) = Damaged /\ verdict[w] = "ACCEPT")

Seen ==
  LET read == {w \in Workers : \A u \in Workers : u < w => ~Stops(u)}
  IN  /\ \A w \in read : ~Refused(w)
      /\ \E w, v \in read : w # v /\ Meet(w, v)

\* done.Wait returned.
MayJoin == step \in Groups /\ \A w \in Workers : pc[w] = "done"

JoinGroup ==
  /\ MayJoin
  /\ checks' = [checks EXCEPT ![step] = JudgeParallel]
  /\ overlap' = [overlap EXCEPT ![step] = Seen]
  /\ step' = step + 1 /\ Refresh
  /\ UNCHANGED <<core, round, used, status, wins, met, blame>>

Asked == [a \in {1, 2, 4, 5, 6} |->
            CASE a = 1 -> 1 [] a = 2 -> 0 [] a = 4 -> 2 [] a = 5 -> 3 [] a = 6 -> 4]

Wanted(a) == IF a \in {1, 6} THEN "ACCEPT" ELSE "REJECT"

\* A single open has the receiver to itself.
SingleOpen ==
  /\ step \in DOMAIN Asked
  /\ \E v \in Answers(Asked[step], FALSE) :
       /\ Claim(Asked[step], v)
       /\ checks' = [checks EXCEPT ![step] = IF v = Wanted(step) THEN "PASS" ELSE "FAIL"]
  /\ step' = step + 1
  /\ UNCHANGED <<core, round, workers, overlap, status, met, blame>>

-----------------------------------------------------------------------------
(* The rounds of the batch.                                                *)

Worse(s, t) == IF "FAIL" \in {s, t} THEN "FAIL"
               ELSE IF {s, t} = {"PASS"} THEN "PASS" ELSE "INCOMPLETE"

Fold(s, cs) == IF \E a \in 0..6 : cs[a] = "FAIL" THEN "FAIL"
               ELSE IF \E a \in 0..6 : cs[a] # "PASS" THEN Worse(s, "INCOMPLETE") ELSE s

NextRound(cs, s) ==
  /\ status' = s /\ checks' = cs
  /\ round' = round + 1 /\ step' = IF round + 1 < Rounds THEN 8 ELSE 9
  /\ Refresh /\ UNCHANGED <<core, used, overlap, wins, met>>

CloseRound == step = 7 /\ NextRound(checks, Fold(status, checks)) /\ UNCHANGED blame

\* No record, or no usable answer of the receiver: nothing of the round counts.
Lose(s) ==
  /\ step <= 7
  /\ NextRound(NotRun, Worse(status, s)) /\ blame' = TRUE

BeginRound ==
  /\ step = 8
  /\ step' = 0 /\ used' = {} /\ checks' = NotRun
  /\ overlap' = [g \in Groups |-> FALSE] /\ met' = [g \in Groups |-> FALSE]
  /\ wins' = [r \in Records \cup {Damaged} |-> 0]
  /\ UNCHANGED <<core, round, workers, status, blame>>

Step(w) == Ready(w) \/ Begin(w) \/ Decide(w) \/ Look(w) \/ Mark(w) \/ End(w)

\* Whose turn it is: the guards of Step and of Main (a core has an answer for
\* every record).
MayStep(w) ==
  MayReady(w) \/ MayBegin(w) \/ MayDecide(w) \/ MayLook(w) \/ MayMark(w) \/ MayEnd(w)

MayMain == MayOpenGate \/ MayJoin \/ step \in DOMAIN Asked \cup {7, 8}

Main == OpenGate \/ JoinGroup \/ SingleOpen \/ CloseRound \/ BeginRound

Next ==
  \/ \E w \in Workers : Step(w)
  \/ Main \/ Tick
  \/ \E s \in {"FAIL", "INCOMPLETE"} : Lose(s)

-----------------------------------------------------------------------------
(* Properties.                                                             *)

(***************************************************************************)
(* A round with seven PASSes had exactly one winner for every record,      *)
(* never accepted the damaged copy, and contended in both groups, although *)
(* all there is to go by are clock readings the workers took before and    *)
(* after ("a start gate alone is not overlap", concurrent_exchange.go:50). *)
(* So a core that checks and marks in two steps passes only rounds in      *)
(* which it did no harm; and an overlap is not reported of any round that  *)
(* had none.                                                               *)
(***************************************************************************)
OneWinnerEach ==
  /\ step \in {8, 9} /\ (\A a \in 0..6 : checks[a] = "PASS") =>
       /\ \A r \in Records : wins[r] = 1
       /\ wins[Damaged] = 0
       /\ \A g \in Groups : met[g]
  /\ \A g \in Groups : overlap[g] => met[g]

(***************************************************************************)
(* Workers, gate and join never wait on each other (parallel.go:47-52):    *)
(* until the batch is over, some goroutine can go on without the help of   *)
(* the clock or of a lost call.                                            *)
(***************************************************************************)
NeverStuck == step # 9 => MayMain \/ \E w \in Workers : MayStep(w)

=============================================================================
