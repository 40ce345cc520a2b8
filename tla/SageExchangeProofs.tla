-------------------------- MODULE SageExchangeProofs --------------------------
(***************************************************************************)
(* Theorems about SageExchange: what a rejection beside a passing control  *)
(* means, for all cores; what a contention round with seven PASSes means;  *)
(* what exit codes 0 and 1 mean; and that the goroutines of a contention   *)
(* never wait on each other.  All of them for every number of workers and  *)
(* rounds and for every clock.                                             *)
(***************************************************************************)
EXTENDS SageExchange, FiniteSetTheorems, TLAPS

-----------------------------------------------------------------------------
(* The exchanges without threads.                                          *)

Modes == {"plain", "replay", "concurrent"}

\* A control that passed can only come from a record that can be opened.
Isolation ==
  /\ mode \in Modes /\ turn \in 1..7
  /\ stage \in {"produce", "check", "fresh", "receive", "fold"}
  /\ mode # "plain" => last = Trials!NoStep
  /\ stage = "check" => mode = "plain"
  /\ stage \in {"fresh", "receive"} => mode # "plain"
  /\ stage = "produce" => control = "NOT_RUN"
  /\ mode = "plain" /\ control = "PASS" => Trials!Opens
  /\ Trials!DefenceIsIsolated

LEMMA IsolationInit == ASSUME Init PROVE Isolation
  BY DEF Init, Isolation, Modes, Trials!Init, Trials!NoStep, Trials!DefenceIsIsolated

\* A verdict passes only when it is the verdict that is wanted.
LEMMA PassAsWanted ==
  ASSUME NEW o, NEW v, o \in Trials!Back(v), NEW wanted \in {"ACCEPT", "REJECT"},
         Trials!Judge(o, wanted) = "PASS", v \in {"ACCEPT", "REJECT"}
  PROVE  v = wanted
  BY DEF Trials!Back, Trials!Judge

\* The names of contexts are not names of verdicts.
LEMMA ContextNames ==
  ASSUME turn \in 2..7
  PROVE  Trials!Contexts[turn - 1] \in Trials!Bound
  BY DEF Trials!Contexts, Trials!Bound

LEMMA CheckIsolates ==
  ASSUME Isolation, Trials!Check
  PROVE  Isolation'
<1>1. /\ mode = "plain" /\ mode' = mode /\ kind' = kind /\ trial' = trial
  BY DEF Trials!Check, Trials!CheckStep, Isolation
<1>2. Trials!Opens' = Trials!Opens /\ Trials!Receiver' = Trials!Receiver
  BY <1>1 DEF Trials!Opens, Trials!Receiver, Trials!Sender
<1>3. PICK told : Trials!CheckStep(told) /\
        \/ told = "NOT_RUN"
        \/ turn = 1 /\ told = "FAIL"
        \/ \E o \in Trials!Back(Trials!Truth) : told = Trials!Judge(o, Trials!Wanted)
  BY DEF Trials!Check
<1>4. Trials!Truth \in {"ACCEPT", "REJECT"} /\ Trials!Wanted \in {"ACCEPT", "REJECT"}
  BY DEF Trials!Truth, Trials!Wanted
<1>5. told = "PASS" => Trials!Truth = Trials!Wanted
  BY <1>3, <1>4, PassAsWanted
<1>6. turn' \in 1..7 /\ stage' \in {"check", "fold"}
  BY <1>3 DEF Trials!CheckStep, Trials!Check, Isolation
<1>7. CASE turn = 1
  <2>1. control' = told /\ last'.wanted = "ACCEPT"
    BY <1>3, <1>7 DEF Trials!CheckStep
  <2>2. told = "PASS" => Trials!Opens
    BY <1>5, <1>7 DEF Trials!Truth, Trials!Wanted
  <2>3. "ACCEPT" \notin Trials!Bound
    BY DEF Trials!Bound, Trials!Contexts
  <2> QED BY <1>1, <1>2, <1>6, <2>1, <2>2, <2>3 DEF Isolation, Trials!DefenceIsIsolated
<1>8. CASE turn \in 2..7
  <2>1. /\ control' = control /\ last'.wanted = Trials!Contexts[turn - 1]
        /\ last'.status = told
    BY <1>3, <1>8 DEF Trials!CheckStep
  <2>2. told = "PASS" /\ control = "PASS" => kind[Trials!Receiver] # Trials!Contexts[turn - 1]
    BY <1>1, <1>5, <1>8 DEF Trials!Truth, Trials!Wanted, Isolation
  <2> QED BY <1>1, <1>2, <1>6, <2>1, <2>2 DEF Isolation, Trials!DefenceIsIsolated
<1> QED BY <1>7, <1>8 DEF Isolation

LEMMA IsolationStep ==
  ASSUME Isolation, [Next]_vars PROVE Isolation'
<1>1. CASE UNCHANGED trialVars
  BY <1>1 DEF trialVars, Isolation, Trials!DefenceIsIsolated, Trials!Opens, Trials!Receiver,
      Trials!Sender
<1>2. CASE Trials!Produce
  BY <1>2 DEF Trials!Produce, Isolation, Trials!DefenceIsIsolated
<1>3. CASE Trials!Check
  BY <1>3, CheckIsolates
<1>4. CASE Trials!FreshControl
  BY <1>4 DEF Trials!FreshControl, Isolation, Trials!DefenceIsIsolated, Trials!NoStep
<1>5. CASE Trials!Receive
  BY <1>5 DEF Trials!Receive, Isolation, Trials!DefenceIsIsolated, Trials!NoStep, Trials!Opens,
      Trials!Receiver, Trials!Sender
<1>6. CASE Trials!Fold
  BY <1>6 DEF Trials!Fold, Isolation, Trials!DefenceIsIsolated
<1>7. CASE Trials!Expire
  BY <1>7 DEF Trials!Expire, Isolation, Trials!DefenceIsIsolated, Trials!Opens,
      Trials!Receiver, Trials!Sender
<1>8. UNCHANGED trialVars \/ Trials!Next
  BY DEF Next, Refuse, Exchanging, Exit, vars
<1> QED BY <1>1, <1>2, <1>3, <1>4, <1>5, <1>6, <1>7, <1>8 DEF Trials!Next

(***************************************************************************)
(* A rejection that passed beside a passing control is this receiver's own *)
(* defence of that context, for every pair of cores (exchange.go:89).      *)
(***************************************************************************)
THEOREM RejectionIsDefence == Spec => []DefenceIsIsolated
<1>1. Init => Isolation
  BY IsolationInit
<1>2. Isolation /\ [Next]_vars => Isolation'
  BY IsolationStep
<1>3. Isolation => DefenceIsIsolated
  BY DEF Isolation, DefenceIsIsolated
<1> QED BY <1>1, <1>2, <1>3, PTL DEF Spec


-----------------------------------------------------------------------------
(* The guards of the goroutines are abbreviations that every proof expands. *)

USE DEF Batch!MayReady, Batch!MayOpenGate, Batch!MayBegin, Batch!MayDecide, Batch!MayLook,
        Batch!MayMark, Batch!MayEnd, Batch!MayJoin

-----------------------------------------------------------------------------
(* The contention round.                                                   *)

Begun == {"began", "checked", "answered", "done"}

Shape ==
  /\ step \in 0..9 /\ now \in Nat
  /\ pc \in [Batch!Workers -> {"new", "ready"} \cup Begun]
  /\ started \in [Batch!Workers -> Nat] /\ finished \in [Batch!Workers -> Nat]
  /\ verdict \in [Batch!Workers -> {"NONE", "ACCEPT", "REJECT"}]
  /\ DOMAIN checks = 0..6
  /\ wins \in [0..5 -> Nat]
  /\ met \in [{0, 3} -> BOOLEAN] /\ overlap \in [{0, 3} -> BOOLEAN]
  /\ \A w \in Batch!Workers : pc[w] \notin {"answered", "done"} => verdict[w] = "NONE"
  /\ step \notin {0, 3} => \A w \in Batch!Workers : pc[w] = "new"

\* Of two workers that have begun, one was done before the other began, as the
\* readings show, or they were under way together.
Meetings ==
  /\ \A w \in Batch!Workers : /\ pc[w] \in Begun => started[w] <= now
                              /\ pc[w] = "done" => finished[w] <= now
  /\ step \in {0, 3} =>
       \A w, v \in Batch!Workers : w # v /\ pc[w] \in Begun /\ pc[v] \in Begun =>
         \/ met[step]
         \/ pc[v] = "done" /\ finished[v] <= started[w]
         \/ pc[w] = "done" /\ finished[w] <= started[v]
  /\ \A g \in {0, 3} : overlap[g] => met[g]
  /\ \A g \in {0, 3} : step > g /\ checks[g] = "PASS" => met[g]

\* What each record has won so far, by the checks that passed.
Tally ==
  /\ step = 0 => \A r \in {0, 5} : wins[r] = Batch!Winners(r)
  /\ step = 3 => \A r \in {2, 3} : wins[r] = Batch!Winners(r)
  /\ step = 0 => \A r \in 1..4 : wins[r] = 0
  /\ step \in 1..2 => \A r \in 2..4 : wins[r] = 0
  /\ step = 1 => wins[1] = 0
  /\ step \in 3..6 => wins[4] = 0
  /\ step > 0 /\ checks[0] = "PASS" => wins[5] = 0
  /\ step \in 1..2 /\ checks[0] = "PASS" => wins[0] = 1
  /\ step > 2 /\ checks[0] = "PASS" /\ checks[2] = "PASS" => wins[0] = 1
  /\ step > 1 /\ checks[1] = "PASS" => wins[1] = 1
  /\ step = 4 /\ checks[3] = "PASS" => wins[2] = 1
  /\ step > 4 /\ checks[3] = "PASS" /\ checks[4] = "PASS" => wins[2] = 1
  /\ step \in 4..5 /\ checks[3] = "PASS" => wins[3] = 1
  /\ step > 5 /\ checks[3] = "PASS" /\ checks[5] = "PASS" => wins[3] = 1
  /\ step > 6 /\ checks[6] = "PASS" => wins[4] = 1

RoundInv == Shape /\ Meetings /\ Tally

\* The cardinality that ContentionRound uses is the one of the library's theorems.
LEMMA SameCount ==
  ASSUME NEW S PROVE Batch!Cardinality(S) = Cardinality(S)
  BY DEF Batch!Cardinality, Cardinality

\* The records of a parallel open.
LEMMA WiresOf ==
  ASSUME ExchangeAssumption, NEW w \in Batch!Workers
  PROVE  /\ step = 0 => Batch!Wire(w) \in {0, 5}
         /\ step # 0 => Batch!Wire(w) \in {2, 3}
  BY DEF Batch!Wire, Batch!Damaged

\* Each copy has a worker.
LEMMA BothCopies ==
  ASSUME ExchangeAssumption
  PROVE  /\ step = 0 => {0, 5} \subseteq {Batch!Wire(w) : w \in Batch!Workers}
         /\ step = 3 => {2, 3} \subseteq {Batch!Wire(w) : w \in Batch!Workers}
<1>1. W \in Nat /\ W >= 2
  BY DEF ExchangeAssumption
<1>2. (W + 1) \div 2 \in Int /\ 0 < (W + 1) \div 2 /\ (W + 1) \div 2 <= W - 1
  BY <1>1
<1>3. 0 \in Batch!Workers /\ W - 1 \in Batch!Workers
  BY <1>1 DEF Batch!Workers
<1>4. step = 0 => Batch!Wire(0) = 0 /\ Batch!Wire(W - 1) = 5
  BY <1>1, <1>2 DEF Batch!Wire, Batch!Damaged
<1>5. step = 3 => Batch!Wire(0) = 2 /\ Batch!Wire(W - 1) = 3
  BY <1>1, <1>2 DEF Batch!Wire, Batch!Damaged
<1> QED BY <1>3, <1>4, <1>5

\* A verdict that is noted counts once, for its own record.
LEMMA OneMore ==
  ASSUME ExchangeAssumption, Shape, NEW w \in Batch!Workers, verdict[w] = "NONE",
         NEW v \in {"ACCEPT", "REJECT"}, verdict' = [verdict EXCEPT ![w] = v],
         step' = step, NEW r
  PROVE  /\ Batch!Winners(r) \in Nat
         /\ Batch!Winners(r)' =
              Batch!Winners(r) + (IF v = "ACCEPT" /\ r = Batch!Wire(w) THEN 1 ELSE 0)
<1> DEFINE Won == {u \in Batch!Workers : Batch!Wire(u) = r /\ verdict[u] = "ACCEPT"}
           Now == {u \in Batch!Workers : Batch!Wire(u) = r /\ verdict'[u] = "ACCEPT"}
<1>1. IsFiniteSet(Batch!Workers)
  BY FS_Interval DEF Batch!Workers, ExchangeAssumption
<1>2. IsFiniteSet(Won) /\ w \notin Won /\ Won \subseteq Batch!Workers
  BY <1>1, FS_Subset
<1>3. Cardinality(Won) \in Nat
  BY <1>2, FS_CardinalityType
<1>4. \A u \in Batch!Workers : verdict'[u] = IF u = w THEN v ELSE verdict[u]
  BY DEF Shape
<1>5. Batch!Winners(r) = Cardinality(Won)
  BY SameCount DEF Batch!Winners
<1>6. \A u : Batch!Wire(u)' = Batch!Wire(u)
  BY DEF Batch!Wire, Batch!Damaged
<1>7. Batch!Winners(r)' = Cardinality(Now)
  BY <1>6, SameCount DEF Batch!Winners, Batch!Workers
<1>8. CASE v = "ACCEPT" /\ r = Batch!Wire(w)
  <2>1. Now = Won \cup {w}
    BY <1>4, <1>8
  <2>2. Cardinality(Now) = Cardinality(Won) + 1
    BY <1>2, <2>1, FS_AddElement
  <2> HIDE DEF Now, Won
  <2> QED BY <1>3, <1>5, <1>7, <1>8, <2>2
<1>9. CASE ~(v = "ACCEPT" /\ r = Batch!Wire(w))
  <2>1. Now = Won
    BY <1>2, <1>4, <1>9
  <2> HIDE DEF Now, Won
  <2> QED BY <1>3, <1>5, <1>7, <1>9, <2>1
<1> QED BY <1>8, <1>9

\* Nobody has won a record before the first verdict is noted.
LEMMA NoneYet ==
  ASSUME \A w \in Batch!Workers : verdict[w] = "NONE", NEW r
  PROVE  Batch!Winners(r) = 0
<1>1. {w \in Batch!Workers : Batch!Wire(w) = r /\ verdict[w] = "ACCEPT"} = {}
  OBVIOUS
<1> QED BY <1>1, SameCount, FS_EmptySet DEF Batch!Winners

\* Steps that note no verdict and do not move the round keep the tally.
LEMMA TallySteady ==
  ASSUME Tally, UNCHANGED <<step, verdict, wins, checks>> PROVE Tally'
<1>1. \A r : Batch!Winners(r)' = Batch!Winners(r)
  BY DEF Batch!Winners, Batch!Wire, Batch!Damaged, Batch!Workers
<1> QED BY <1>1 DEF Tally

\* A verdict that is noted counts for its record only.
LEMMA ClaimCounts ==
  ASSUME wins \in [0..5 -> Nat], NEW r \in 0..5, NEW v, Batch!Claim(r, v)
  PROVE  /\ wins' \in [0..5 -> Nat]
         /\ \A x \in 0..5 : wins'[x] = wins[x] + (IF v = "ACCEPT" /\ x = r THEN 1 ELSE 0)
<1> DEFINE add == IF v = "ACCEPT" THEN 1 ELSE 0
<1>1. wins' = [wins EXCEPT ![r] = @ + add]
  BY DEF Batch!Claim
<1>2. wins[r] + add \in Nat
  OBVIOUS
<1>3. wins' \in [0..5 -> Nat] /\ wins'[r] = wins[r] + add
      /\ \A x \in 0..5 \ {r} : wins'[x] = wins[x]
  BY <1>1, <1>2
<1> QED BY <1>3

\* Between two parallel opens no worker has begun.
LEMMA Resting ==
  ASSUME Shape, step \notin {0, 3}
  PROVE  \A w \in Batch!Workers : pc[w] = "new" /\ verdict[w] = "NONE"
<1>1. \A w \in Batch!Workers : pc[w] = "new"
  BY DEF Shape
<1>2. \A w \in Batch!Workers : pc[w] \notin {"answered", "done"} => verdict[w] = "NONE"
  BY DEF Shape
<1> QED BY <1>1, <1>2

LEMMA ShapeStep ==
  ASSUME ExchangeAssumption, Shape, Batch!Next
  PROVE  Shape'
<1> USE DEF Batch!Workers, Batch!Groups, Batch!Records, Batch!Damaged, Batch!workers,
    ExchangeAssumption
<1>1. ASSUME NEW w \in Batch!Workers, Batch!Ready(w) PROVE Shape'
  BY <1>1 DEF Batch!Ready, Shape, Begun
<1>2. CASE Batch!OpenGate
  BY <1>2 DEF Batch!OpenGate, Shape, Begun
<1>3. CASE Batch!Tick
  <2>1. now' \in Nat
    BY <1>3 DEF Batch!Tick, Shape
  <2>2. UNCHANGED <<step, pc, started, finished, verdict, checks, wins, met, overlap>>
    BY <1>3 DEF Batch!Tick
  <2> QED BY <2>1, <2>2 DEF Shape
<1>4. ASSUME NEW w \in Batch!Workers, Batch!Begin(w) PROVE Shape'
  BY <1>4 DEF Batch!Begin, Shape, Begun
<1>5. ASSUME NEW w \in Batch!Workers, Batch!End(w) PROVE Shape'
  BY <1>5 DEF Batch!End, Shape, Begun
<1>6. ASSUME NEW w \in Batch!Workers, Batch!Decide(w) PROVE Shape'
  <2>1. PICK v \in {"ACCEPT", "REJECT"} :
          verdict' = [verdict EXCEPT ![w] = v] /\ Batch!Claim(Batch!Wire(w), v)
    BY <1>6 DEF Batch!Decide, Batch!Answers
  <2>2. wins' \in [0..5 -> Nat]
    <3>1. Batch!Wire(w) \in 0..5
      BY WiresOf
    <3> QED BY <2>1, <3>1, ClaimCounts DEF Shape
  <2>3. /\ pc' = [pc EXCEPT ![w] = "answered"] /\ pc[w] \in Begun
        /\ UNCHANGED <<step, now, started, finished, checks, met, overlap>>
    BY <1>6 DEF Batch!Decide, Begun
  <2> QED BY <2>1, <2>2, <2>3 DEF Shape, Begun
<1>7. ASSUME NEW w \in Batch!Workers, Batch!Look(w) PROVE Shape'
  BY <1>7 DEF Batch!Look, Shape, Begun
<1>8. ASSUME NEW w \in Batch!Workers, Batch!Mark(w) PROVE Shape'
  <2>1. PICK v \in {"ACCEPT", "REJECT"} :
          verdict' = [verdict EXCEPT ![w] = v] /\ Batch!Claim(Batch!Wire(w), v)
    BY <1>8 DEF Batch!Mark, Batch!Answers
  <2>2. wins' \in [0..5 -> Nat]
    <3>1. Batch!Wire(w) \in 0..5
      BY WiresOf
    <3> QED BY <2>1, <3>1, ClaimCounts DEF Shape
  <2>3. /\ pc' = [pc EXCEPT ![w] = "answered"] /\ pc[w] \in Begun
        /\ UNCHANGED <<step, now, started, finished, checks, met, overlap>>
    BY <1>8 DEF Batch!Mark, Begun
  <2> QED BY <2>1, <2>2, <2>3 DEF Shape, Begun
<1>9. CASE Batch!JoinGroup
  <2>1. step' \in {1, 4} /\ DOMAIN checks' = 0..6 /\ wins' = wins /\ met' = met
    BY <1>9 DEF Batch!JoinGroup, Shape
  <2>2. Batch!Seen \in BOOLEAN
    BY DEF Batch!Seen
  <2>3. overlap' \in [{0, 3} -> BOOLEAN]
    BY <2>2, <1>9 DEF Batch!JoinGroup, Shape
  <2>4. /\ pc' = [w \in Batch!Workers |-> "new"] /\ now' = Origin
        /\ started' = [w \in Batch!Workers |-> 0] /\ finished' = [w \in Batch!Workers |-> 0]
        /\ verdict' = [w \in Batch!Workers |-> "NONE"]
    BY <1>9 DEF Batch!JoinGroup, Batch!Refresh
  <2> QED BY <2>1, <2>3, <2>4 DEF Shape, Begun
<1>10. CASE Batch!SingleOpen
  <2>1. step \in {1, 2, 4, 5, 6} /\ step' = step + 1 /\ Batch!Asked[step] \in 0..5
    BY <1>10 DEF Batch!SingleOpen, Batch!Asked
  <2>2. PICK v : Batch!Claim(Batch!Asked[step], v)
    BY <1>10 DEF Batch!SingleOpen
  <2>3. wins' \in [0..5 -> Nat]
    BY <2>1, <2>2, ClaimCounts DEF Shape
  <2>4. DOMAIN checks' = 0..6
    BY <1>10 DEF Batch!SingleOpen, Shape
  <2>5. UNCHANGED <<pc, now, started, finished, verdict, met, overlap>>
    BY <1>10 DEF Batch!SingleOpen
  <2>6. \A w \in Batch!Workers : pc'[w] = "new" /\ verdict'[w] = "NONE"
    BY <2>1, <2>5, Resting
  <2>7. step' \in 0..9
    BY <2>1
  <2> QED BY <2>3, <2>4, <2>5, <2>6, <2>7 DEF Shape
<1>11. CASE Batch!CloseRound
  BY <1>11 DEF Batch!CloseRound, Shape, Begun, Batch!NextRound, Batch!Refresh,
      Batch!NotRun
<1>12. ASSUME NEW s \in {"FAIL", "INCOMPLETE"}, Batch!Lose(s) PROVE Shape'
  BY <1>12 DEF Batch!Lose, Shape, Begun, Batch!NextRound, Batch!Refresh, Batch!NotRun
<1>13. CASE Batch!BeginRound
  <2>1. wins' \in [0..5 -> Nat]
    <3>1. (0..4) \cup {5} = 0..5
      OBVIOUS
    <3> QED BY <3>1, <1>13 DEF Batch!BeginRound
  <2>2. /\ step' \in 0..9 /\ step' \in {0, 3} /\ DOMAIN checks' = 0..6
        /\ met' \in [{0, 3} -> BOOLEAN] /\ overlap' \in [{0, 3} -> BOOLEAN]
    BY <1>13 DEF Batch!BeginRound, Batch!NotRun
  <2>3. UNCHANGED <<pc, now, started, finished, verdict>>
    BY <1>13 DEF Batch!BeginRound
  <2>4. \A w \in Batch!Workers : pc'[w] = "new" /\ verdict'[w] = "NONE"
    BY <1>13, <2>3, Resting DEF Batch!BeginRound
  <2>5. /\ now' \in Nat /\ pc' \in [Batch!Workers -> {"new", "ready"} \cup Begun]
        /\ started' \in [Batch!Workers -> Nat] /\ finished' \in [Batch!Workers -> Nat]
        /\ verdict' \in [Batch!Workers -> {"NONE", "ACCEPT", "REJECT"}]
    BY <2>3 DEF Shape
  <2> QED BY <2>1, <2>2, <2>4, <2>5, Zenon DEF Shape
<1> QED BY <1>1, <1>2, <1>3, <1>4, <1>5, <1>6, <1>7, <1>8, <1>9, <1>10, <1>11, <1>12,
    <1>13 DEF Batch!Next, Batch!Step, Batch!Main
\* Clock readings tell the order of calls that did not meet.
LEMMA MeetingsStep ==
  ASSUME ExchangeAssumption, Shape, Meetings, Batch!Next
  PROVE  Meetings'
<1>1. ASSUME NEW w \in Batch!Workers, Batch!Ready(w) PROVE Meetings'
  <2>1. /\ UNCHANGED <<step, now, started, finished, met, overlap, checks>>
        /\ \A v \in Batch!Workers : /\ pc'[v] \in Begun => pc[v] \in Begun
                                    /\ pc'[v] = "done" <=> pc[v] = "done"
    BY <1>1 DEF Batch!Ready, Shape, Begun
  <2> QED BY <2>1 DEF Meetings
<1>2. CASE Batch!OpenGate
  BY <1>2 DEF Batch!OpenGate, Meetings
<1>3. CASE Batch!Tick
  <2>1. /\ now' = now + 1 /\ now \in Nat
        /\ UNCHANGED <<step, pc, started, finished, met, overlap, checks>>
    BY <1>3 DEF Batch!Tick, Shape
  <2>2. \A w \in Batch!Workers : started[w] \in Nat /\ finished[w] \in Nat
    BY DEF Shape
  <2>3. \A w \in Batch!Workers : /\ pc[w] \in Begun => started[w] <= now'
                                 /\ pc[w] = "done" => finished[w] <= now'
    BY <2>1, <2>2 DEF Meetings
  <2> QED BY <2>1, <2>3 DEF Meetings
<1>4. ASSUME NEW w \in Batch!Workers, Batch!Begin(w) PROVE Meetings'
  <2>1. /\ step \in {0, 3} /\ step' = step /\ pc[w] = "ready" /\ now' = now
        /\ pc' = [pc EXCEPT ![w] = "began"] /\ started' = [started EXCEPT ![w] = now]
        /\ finished' = finished /\ overlap' = overlap /\ checks' = checks
        /\ met' = [met EXCEPT ![step] = @ \/ \E v \in Batch!Workers : pc[v] \in Batch!Busy]
    BY <1>4 DEF Batch!Begin, Batch!Groups
  <2>2. \A g \in {0, 3} : met[g] => met'[g]
    BY <2>1 DEF Shape
  <2>3. \A v \in Batch!Workers :
          v # w /\ pc[v] \in Begun => met'[step] \/ (pc[v] = "done" /\ finished[v] <= now)
    <3>1. TAKE v \in Batch!Workers
    <3>2. pc[v] \in Batch!Busy => met'[step]
      BY <2>1 DEF Shape
    <3> QED BY <3>2 DEF Meetings, Begun, Batch!Busy
  <2>4. \A v \in Batch!Workers :
          v # w => pc'[v] = pc[v] /\ started'[v] = started[v] /\ finished'[v] = finished[v]
    BY <2>1 DEF Shape
  <2>5. pc'[w] = "began" /\ started'[w] = now /\ now \in Nat
    BY <2>1 DEF Shape
  <2>6. \A v \in Batch!Workers : /\ pc'[v] \in Begun => started'[v] <= now'
                                 /\ pc'[v] = "done" => finished'[v] <= now'
    BY <2>1, <2>4, <2>5 DEF Meetings
  <2>7. \A u, v \in Batch!Workers : u # v /\ pc'[u] \in Begun /\ pc'[v] \in Begun =>
          \/ met'[step]
          \/ pc'[v] = "done" /\ finished'[v] <= started'[u]
          \/ pc'[u] = "done" /\ finished'[u] <= started'[v]
    BY <2>1, <2>2, <2>3, <2>4, <2>5 DEF Meetings
  <2> QED BY <2>1, <2>2, <2>6, <2>7 DEF Meetings
<1>5. ASSUME NEW w \in Batch!Workers, Batch!End(w) PROVE Meetings'
  <2>1. /\ step \in {0, 3} /\ step' = step /\ pc[w] = "answered" /\ now' = now
        /\ pc' = [pc EXCEPT ![w] = "done"] /\ finished' = [finished EXCEPT ![w] = now]
        /\ started' = started /\ overlap' = overlap /\ checks' = checks /\ met' = met
    BY <1>5 DEF Batch!End, Batch!Groups
  <2>2. \A v \in Batch!Workers :
          v # w => pc'[v] = pc[v] /\ started'[v] = started[v] /\ finished'[v] = finished[v]
    BY <2>1 DEF Shape
  <2>3. /\ pc'[w] = "done" /\ started'[w] = started[w] /\ finished'[w] = now /\ now \in Nat
        /\ pc[w] \in Begun /\ pc[w] # "done"
    BY <2>1 DEF Shape, Begun
  <2>4. \A v \in Batch!Workers : /\ pc'[v] \in Begun => started'[v] <= now'
                                 /\ pc'[v] = "done" => finished'[v] <= now'
    BY <2>1, <2>2, <2>3 DEF Meetings
  <2>5. \A u, v \in Batch!Workers : u # v /\ pc'[u] \in Begun /\ pc'[v] \in Begun =>
          \/ met'[step]
          \/ pc'[v] = "done" /\ finished'[v] <= started'[u]
          \/ pc'[u] = "done" /\ finished'[u] <= started'[v]
    BY <2>1, <2>2, <2>3 DEF Meetings
  <2> QED BY <2>1, <2>4, <2>5 DEF Meetings
<1>6. ASSUME NEW w \in Batch!Workers, Batch!Decide(w) PROVE Meetings'
  <2>1. /\ UNCHANGED <<step, now, started, finished, met, overlap, checks>>
        /\ \A v \in Batch!Workers : /\ pc'[v] \in Begun => pc[v] \in Begun
                                    /\ pc'[v] = "done" <=> pc[v] = "done"
    BY <1>6 DEF Batch!Decide, Shape, Begun
  <2> QED BY <2>1 DEF Meetings
<1>7. ASSUME NEW w \in Batch!Workers, Batch!Look(w) PROVE Meetings'
  <2>1. /\ UNCHANGED <<step, now, started, finished, met, overlap, checks>>
        /\ \A v \in Batch!Workers : /\ pc'[v] \in Begun => pc[v] \in Begun
                                    /\ pc'[v] = "done" <=> pc[v] = "done"
    BY <1>7 DEF Batch!Look, Shape, Begun
  <2> QED BY <2>1 DEF Meetings
<1>8. ASSUME NEW w \in Batch!Workers, Batch!Mark(w) PROVE Meetings'
  <2>1. /\ UNCHANGED <<step, now, started, finished, met, overlap, checks>>
        /\ \A v \in Batch!Workers : /\ pc'[v] \in Begun => pc[v] \in Begun
                                    /\ pc'[v] = "done" <=> pc[v] = "done"
    BY <1>8 DEF Batch!Mark, Shape, Begun
  <2> QED BY <2>1 DEF Meetings
<1>9. CASE Batch!JoinGroup
  <2>1. /\ step \in {0, 3} /\ step' = step + 1 /\ met' = met
        /\ checks' = [checks EXCEPT ![step] = Batch!JudgeParallel]
        /\ overlap' = [overlap EXCEPT ![step] = Batch!Seen]
        /\ pc' = [w \in Batch!Workers |-> "new"]
        /\ \A w \in Batch!Workers : pc[w] = "done"
    BY <1>9 DEF Batch!JoinGroup, Batch!Groups, Batch!Refresh
  <2>2. \A w, v \in Batch!Workers : w # v /\ Batch!Meet(w, v) => met[step]
    <3>1. SUFFICES ASSUME NEW w \in Batch!Workers, NEW v \in Batch!Workers, w # v,
                          Batch!Meet(w, v), ~met[step]
                   PROVE  FALSE
      OBVIOUS
    <3>2. finished[v] <= started[w] \/ finished[w] <= started[v]
      BY <2>1, <3>1 DEF Meetings, Begun
    <3>3. /\ started[w] \in Nat /\ finished[w] \in Nat
          /\ started[v] \in Nat /\ finished[v] \in Nat
      BY DEF Shape
    <3> QED BY <3>1, <3>2, <3>3 DEF Batch!Meet
  <2>3. Batch!Seen => met[step]
    BY <2>2 DEF Batch!Seen
  <2>4. Batch!JudgeParallel = "PASS" => met[step]
    BY <2>2 DEF Batch!JudgeParallel, Batch!Overlapping
  <2>5. \A g \in {0, 3} : overlap'[g] => met'[g]
    BY <2>1, <2>3 DEF Meetings, Shape
  <2>6. \A g \in {0, 3} : step' > g /\ checks'[g] = "PASS" => met'[g]
    BY <2>1, <2>4 DEF Meetings, Shape
  <2>7. \A w \in Batch!Workers : pc'[w] \notin Begun /\ pc'[w] # "done"
    BY <2>1 DEF Begun
  <2> QED BY <2>5, <2>6, <2>7 DEF Meetings
<1>10. CASE Batch!SingleOpen
  <2>1. /\ step \in {1, 2, 4, 5, 6} /\ step' = step + 1
        /\ UNCHANGED <<pc, met, overlap>>
        /\ \A g \in {0, 3} : checks'[g] = checks[g]
    BY <1>10 DEF Batch!SingleOpen, Batch!Asked, Batch!workers, Shape
  <2>2. \A w \in Batch!Workers : pc'[w] \notin Begun /\ pc'[w] # "done"
    BY <2>1, Resting DEF Begun
  <2>3. \A g \in {0, 3} : step' > g /\ checks'[g] = "PASS" => met'[g]
    BY <2>1 DEF Meetings
  <2> QED BY <2>1, <2>2, <2>3 DEF Meetings
<1>11. CASE Batch!CloseRound
  <2>1. /\ step = 7 /\ step' \in {8, 9} /\ checks' = checks /\ UNCHANGED <<met, overlap>>
        /\ pc' = [w \in Batch!Workers |-> "new"]
    BY <1>11 DEF Batch!CloseRound, Batch!NextRound, Batch!Refresh
  <2>2. \A w \in Batch!Workers : pc'[w] \notin Begun /\ pc'[w] # "done"
    BY <2>1 DEF Begun
  <2>3. \A g \in {0, 3} : step' > g /\ checks'[g] = "PASS" => met'[g]
    BY <2>1 DEF Meetings
  <2> QED BY <2>1, <2>2, <2>3 DEF Meetings
<1>12. ASSUME NEW s \in {"FAIL", "INCOMPLETE"}, Batch!Lose(s) PROVE Meetings'
  <2>1. /\ step' \in {8, 9} /\ UNCHANGED <<met, overlap>>
        /\ \A g \in {0, 3} : checks'[g] = "NOT_RUN"
        /\ pc' = [w \in Batch!Workers |-> "new"]
    BY <1>12 DEF Batch!Lose, Batch!NextRound, Batch!Refresh, Batch!NotRun
  <2>2. \A w \in Batch!Workers : pc'[w] \notin Begun /\ pc'[w] # "done"
    BY <2>1 DEF Begun
  <2> QED BY <2>1, <2>2 DEF Meetings
<1>13. CASE Batch!BeginRound
  <2>1. /\ step = 8 /\ step' = 0 /\ pc' = pc
        /\ \A g \in {0, 3} : checks'[g] = "NOT_RUN" /\ ~overlap'[g]
    BY <1>13 DEF Batch!BeginRound, Batch!workers, Batch!NotRun, Batch!Groups
  <2>2. \A w \in Batch!Workers : pc'[w] \notin Begun /\ pc'[w] # "done"
    BY <2>1, Resting DEF Begun
  <2> QED BY <2>1, <2>2 DEF Meetings
<1> QED BY <1>1, <1>2, <1>3, <1>4, <1>5, <1>6, <1>7, <1>8, <1>9, <1>10, <1>11, <1>12,
    <1>13 DEF Batch!Next, Batch!Step, Batch!Main

\* A verdict of a worker counts for its record and for nobody else's.
LEMMA ClaimTallies ==
  ASSUME ExchangeAssumption, Shape, Tally, NEW w \in Batch!Workers,
         NEW v \in {"ACCEPT", "REJECT"}, verdict[w] = "NONE", step \in {0, 3},
         verdict' = [verdict EXCEPT ![w] = v], Batch!Claim(Batch!Wire(w), v),
         step' = step, checks' = checks
  PROVE  Tally'
<1> DEFINE add(r) == IF v = "ACCEPT" /\ r = Batch!Wire(w) THEN 1 ELSE 0
<1>1. \A r : Batch!Winners(r) \in Nat /\ Batch!Winners(r)' = Batch!Winners(r) + add(r)
  BY OneMore
<1>2. \A r \in 0..5 : wins'[r] = wins[r] + add(r) /\ wins[r] \in Nat
  <2>1. Batch!Wire(w) \in 0..5
    BY WiresOf
  <2> QED BY <2>1, ClaimCounts DEF Shape
<1>3. CASE step = 0
  <2>1. \A r \in 1..4 : add(r) = 0
    BY <1>3, WiresOf
  <2>2. \A r \in {0, 5} : wins'[r] = Batch!Winners(r)'
    BY <1>1, <1>2, <1>3 DEF Tally
  <2> HIDE DEF add
  <2>3. \A r \in 1..4 : wins'[r] = 0
    BY <1>2, <1>3, <2>1 DEF Tally
  <2> QED BY <1>3, <2>2, <2>3 DEF Tally
<1>4. CASE step = 3
  <2>1. add(0) = 0 /\ add(1) = 0 /\ add(4) = 0 /\ add(5) = 0
    BY <1>4, WiresOf
  <2>2. \A r \in {2, 3} : wins'[r] = Batch!Winners(r)'
    BY <1>1, <1>2, <1>4 DEF Tally
  <2> HIDE DEF add
  <2>3. wins'[0] = wins[0] /\ wins'[1] = wins[1] /\ wins'[4] = wins[4] /\ wins'[5] = wins[5]
    BY <1>2, <2>1
  <2> QED BY <1>4, <2>2, <2>3 DEF Tally
<1> QED BY <1>3, <1>4

\* A single open that passes has the verdict that is wanted of it.
LEMMA SingleTallies ==
  ASSUME ExchangeAssumption, Shape, Tally, Batch!SingleOpen
  PROVE  Tally'
<1>1. /\ step \in {1, 2, 4, 5, 6} /\ step' = step + 1 /\ verdict' = verdict
  BY DEF Batch!SingleOpen, Batch!Asked, Batch!workers
<1>2. PICK v : /\ Batch!Claim(Batch!Asked[step], v)
               /\ checks' = [checks EXCEPT ![step] =
                               IF v = Batch!Wanted(step) THEN "PASS" ELSE "FAIL"]
  BY DEF Batch!SingleOpen
<1>3. /\ Batch!Asked[1] = 1 /\ Batch!Asked[2] = 0 /\ Batch!Asked[4] = 2
      /\ Batch!Asked[5] = 3 /\ Batch!Asked[6] = 4
  BY DEF Batch!Asked
<1>4. \A r \in 0..5 : /\ wins[r] \in Nat
                      /\ wins'[r] = wins[r] +
                           (IF v = "ACCEPT" /\ r = Batch!Asked[step] THEN 1 ELSE 0)
  <2>1. Batch!Asked[step] \in 0..5
    BY <1>1, <1>3
  <2> QED BY <1>2, <2>1, ClaimCounts DEF Shape
<1>5. \A a \in 0..6 : a # step => checks'[a] = checks[a]
  BY <1>2 DEF Shape
<1>6. checks'[step] = "PASS" => v = Batch!Wanted(step)
  BY <1>1, <1>2 DEF Shape
<1>7. CASE step = 1
  <2>1. wins'[1] = wins[1] + (IF v = "ACCEPT" THEN 1 ELSE 0)
        /\ \A r \in {0, 2, 3, 4, 5} : wins'[r] = wins[r]
    BY <1>3, <1>4, <1>7
  <2>2. checks'[1] = "PASS" => v = "ACCEPT"
    BY <1>6, <1>7 DEF Batch!Wanted
  <2> QED BY <1>1, <1>5, <1>7, <2>1, <2>2 DEF Tally
<1>8. CASE step = 2
  <2>1. wins'[0] = wins[0] + (IF v = "ACCEPT" THEN 1 ELSE 0)
        /\ \A r \in 1..5 : wins'[r] = wins[r]
    BY <1>3, <1>4, <1>8
  <2>2. checks'[2] = "PASS" => v = "REJECT"
    BY <1>6, <1>8 DEF Batch!Wanted
  <2>3. wins[0] \in Nat
    BY <1>4
  <2>4. \A r : Batch!Winners(r)' = 0
    <3>1. \A w \in Batch!Workers : verdict'[w] = "NONE"
      BY <1>1, Resting
    <3>2. \A r : {w \in Batch!Workers : Batch!Wire(w)' = r /\ verdict'[w] = "ACCEPT"} = {}
      BY <3>1
    <3> QED BY <3>2, SameCount, FS_EmptySet DEF Batch!Winners, Batch!Workers
  <2>5. step' = 3
    BY <1>1, <1>8
  <2>6. \A r \in 2..4 : wins'[r] = 0
    BY <1>8, <2>1 DEF Tally
  <2>7. /\ checks'[0] = "PASS" => wins'[5] = 0
        /\ checks'[0] = "PASS" /\ checks'[2] = "PASS" => wins'[0] = 1
        /\ checks'[1] = "PASS" => wins'[1] = 1
    BY <1>5, <1>8, <2>1, <2>2, <2>3 DEF Tally
  <2> QED BY <2>4, <2>5, <2>6, <2>7 DEF Tally
<1>9. CASE step = 4
  <2>1. wins'[2] = wins[2] + (IF v = "ACCEPT" THEN 1 ELSE 0)
        /\ \A r \in {0, 1, 3, 4, 5} : wins'[r] = wins[r]
    BY <1>3, <1>4, <1>9
  <2>2. checks'[4] = "PASS" => v = "REJECT"
    BY <1>6, <1>9 DEF Batch!Wanted
  <2>3. wins[2] \in Nat
    BY <1>4
  <2> QED BY <1>1, <1>5, <1>9, <2>1, <2>2, <2>3 DEF Tally
<1>10. CASE step = 5
  <2>1. wins'[3] = wins[3] + (IF v = "ACCEPT" THEN 1 ELSE 0)
        /\ \A r \in {0, 1, 2, 4, 5} : wins'[r] = wins[r]
    BY <1>3, <1>4, <1>10
  <2>2. checks'[5] = "PASS" => v = "REJECT"
    BY <1>6, <1>10 DEF Batch!Wanted
  <2>3. wins[3] \in Nat
    BY <1>4
  <2> QED BY <1>1, <1>5, <1>10, <2>1, <2>2, <2>3 DEF Tally
<1>11. CASE step = 6
  <2>1. wins'[4] = wins[4] + (IF v = "ACCEPT" THEN 1 ELSE 0)
        /\ \A r \in {0, 1, 2, 3, 5} : wins'[r] = wins[r]
    BY <1>3, <1>4, <1>11
  <2>2. checks'[6] = "PASS" => v = "ACCEPT"
    BY <1>6, <1>11 DEF Batch!Wanted
  <2> QED BY <1>1, <1>5, <1>11, <2>1, <2>2 DEF Tally
<1> QED BY <1>1, <1>7, <1>8, <1>9, <1>10, <1>11

\* The tally is kept by every step of a round.
LEMMA TallyStep ==
  ASSUME ExchangeAssumption, Shape, Tally, Batch!Next
  PROVE  Tally'
<1>1. ASSUME NEW w \in Batch!Workers, Batch!Ready(w) PROVE Tally'
  BY <1>1, TallySteady DEF Batch!Ready
<1>2. CASE Batch!OpenGate
  BY <1>2, TallySteady DEF Batch!OpenGate
<1>3. CASE Batch!Tick
  BY <1>3, TallySteady DEF Batch!Tick
<1>4. ASSUME NEW w \in Batch!Workers, Batch!Begin(w) PROVE Tally'
  BY <1>4, TallySteady DEF Batch!Begin
<1>5. ASSUME NEW w \in Batch!Workers, Batch!End(w) PROVE Tally'
  BY <1>5, TallySteady DEF Batch!End
<1>6. ASSUME NEW w \in Batch!Workers, Batch!Decide(w) PROVE Tally'
  <2>1. PICK v \in {"ACCEPT", "REJECT"} :
          verdict' = [verdict EXCEPT ![w] = v] /\ Batch!Claim(Batch!Wire(w), v)
    BY <1>6 DEF Batch!Decide, Batch!Answers
  <2>2. verdict[w] = "NONE" /\ step' = step /\ checks' = checks
    BY <1>6 DEF Batch!Decide, Shape
  <2>3. step \in {0, 3}
    BY <1>6, Resting DEF Batch!Decide
  <2> QED BY <2>1, <2>2, <2>3, ClaimTallies
<1>7. ASSUME NEW w \in Batch!Workers, Batch!Look(w) PROVE Tally'
  BY <1>7, TallySteady DEF Batch!Look
<1>8. ASSUME NEW w \in Batch!Workers, Batch!Mark(w) PROVE Tally'
  <2>1. PICK v \in {"ACCEPT", "REJECT"} :
          verdict' = [verdict EXCEPT ![w] = v] /\ Batch!Claim(Batch!Wire(w), v)
    BY <1>8 DEF Batch!Mark, Batch!Answers
  <2>2. verdict[w] = "NONE" /\ step' = step /\ checks' = checks
    BY <1>8 DEF Batch!Mark, Shape
  <2>3. step \in {0, 3}
    BY <1>8, Resting DEF Batch!Mark
  <2> QED BY <2>1, <2>2, <2>3, ClaimTallies
<1>9. CASE Batch!JoinGroup
  <2>1. /\ step \in {0, 3} /\ step' = step + 1 /\ wins' = wins
        /\ checks' = [checks EXCEPT ![step] = Batch!JudgeParallel]
    BY <1>9 DEF Batch!JoinGroup, Batch!Groups
  <2>2. ASSUME Batch!JudgeParallel = "PASS"
        PROVE  \A r \in {Batch!Wire(w) : w \in Batch!Workers} :
                 Batch!Winners(r) = IF r = 5 THEN 0 ELSE 1
    BY <2>2 DEF Batch!JudgeParallel, Batch!Damaged
  <2>3. CASE step = 0
    <3>1. checks'[0] = "PASS" => wins'[0] = 1 /\ wins'[5] = 0
      BY <2>1, <2>2, <2>3, BothCopies DEF Tally, Shape
    <3>2. step' = 1 /\ wins'[1] = 0 /\ \A r \in 2..4 : wins'[r] = 0
      BY <2>1, <2>3 DEF Tally
    <3> QED BY <3>1, <3>2 DEF Tally
  <2>4. CASE step = 3
    <3>1. checks'[3] = "PASS" => wins'[2] = 1 /\ wins'[3] = 1
      BY <2>1, <2>2, <2>4, BothCopies DEF Tally, Shape
    <3>2. step' = 4 /\ wins'[4] = 0 /\ \A a \in 0..2 : checks'[a] = checks[a]
      BY <2>1, <2>4 DEF Tally, Shape
    <3> QED BY <2>1, <2>4, <3>1, <3>2 DEF Tally
  <2> QED BY <2>1, <2>3, <2>4
<1>10. CASE Batch!SingleOpen
  BY <1>10, SingleTallies
<1>11. CASE Batch!CloseRound
  <2>1. step = 7 /\ step' \in {8, 9} /\ checks' = checks /\ wins' = wins
    BY <1>11 DEF Batch!CloseRound, Batch!NextRound
  <2> QED BY <2>1 DEF Tally
<1>12. ASSUME NEW s \in {"FAIL", "INCOMPLETE"}, Batch!Lose(s) PROVE Tally'
  <2>1. step' \in {8, 9} /\ \A a \in 0..6 : checks'[a] = "NOT_RUN"
    BY <1>12 DEF Batch!Lose, Batch!NextRound, Batch!NotRun
  <2> QED BY <2>1 DEF Tally
<1>13. CASE Batch!BeginRound
  <2>1. step = 8 /\ step' = 0 /\ verdict' = verdict /\ \A r \in 0..5 : wins'[r] = 0
    BY <1>13 DEF Batch!BeginRound, Batch!workers, Batch!Records, Batch!Damaged
  <2>2. \A w \in Batch!Workers : verdict[w] = "NONE"
    BY <2>1, Resting
  <2>3. \A r : Batch!Winners(r)' = 0
    BY <2>1, <2>2, NoneYet DEF Batch!Winners, Batch!Wire, Batch!Damaged, Batch!Workers
  <2> QED BY <2>1, <2>3 DEF Tally
<1> QED BY <1>1, <1>2, <1>3, <1>4, <1>5, <1>6, <1>7, <1>8, <1>9, <1>10, <1>11, <1>12,
    <1>13 DEF Batch!Next, Batch!Step, Batch!Main

\* A new batch has nothing to show.
LEMMA RoundInit ==
  ASSUME ExchangeAssumption, Init PROVE RoundInv
<1> USE DEF Batch!Workers, Batch!Groups, Batch!Records, Batch!Damaged
<1>1. Batch!Init
  BY DEF Init
<1>2. /\ step = 0 /\ pc = [w \in Batch!Workers |-> "new"] /\ now = Origin
      /\ started = [w \in Batch!Workers |-> 0] /\ finished = [w \in Batch!Workers |-> 0]
      /\ verdict = [w \in Batch!Workers |-> "NONE"] /\ checks = [a \in 0..6 |-> "NOT_RUN"]
      /\ overlap = [g \in {0, 3} |-> FALSE] /\ met = [g \in {0, 3} |-> FALSE]
  BY <1>1 DEF Batch!Init, Batch!Fresh, Batch!NotRun
<1>3. wins = [r \in 0..5 |-> 0]
  <2>1. (0..4) \cup {5} = 0..5
    OBVIOUS
  <2> QED BY <1>1, <2>1 DEF Batch!Init
<1>4. Shape
  BY <1>2, <1>3 DEF Shape, ExchangeAssumption
<1>5. Meetings
  BY <1>2 DEF Meetings, Begun
<1>6. Tally
  <2>1. \A r : Batch!Winners(r) = 0
    BY <1>2, NoneYet
  <2> QED BY <1>2, <1>3, <2>1 DEF Tally
<1> QED BY <1>4, <1>5, <1>6 DEF RoundInv

LEMMA RoundStep ==
  ASSUME ExchangeAssumption, RoundInv, [Next]_vars PROVE RoundInv'
<1>1. CASE UNCHANGED batchVars
  <2>1. UNCHANGED <<step, now, pc, started, finished, verdict, checks, wins, met, overlap>>
    BY <1>1 DEF batchVars
  <2>2. Shape' /\ Meetings'
    BY <2>1 DEF RoundInv, Shape, Meetings, Batch!Workers
  <2> QED BY <2>1, <2>2, TallySteady DEF RoundInv
<1>2. CASE Batch!Next
  BY <1>2, ShapeStep, MeetingsStep, TallyStep DEF RoundInv
<1>3. UNCHANGED batchVars \/ Batch!Next
  BY DEF Next, Refuse, Exchanging, Exit, vars
<1> QED BY <1>1, <1>2, <1>3

(***************************************************************************)
(* A round with seven PASSes had one winner for each record and contended  *)
(* in both groups, for every number of workers and every clock, be it      *)
(* coarse or fine (concurrent_exchange.go:50-91 and 166-222).              *)
(***************************************************************************)
THEOREM WinnersAreUnique == Spec => []OneWinnerEach
<1>1. Init => RoundInv
  BY ExchangeAssumption, RoundInit
<1>2. RoundInv /\ [Next]_vars => RoundInv'
  BY ExchangeAssumption, RoundStep
<1>3. RoundInv => OneWinnerEach
  <2>1. SUFFICES ASSUME RoundInv PROVE OneWinnerEach
    OBVIOUS
  <2>2. \A g \in Batch!Groups : overlap[g] => met[g]
    BY <2>1 DEF RoundInv, Meetings, Batch!Groups
  <2>3. ASSUME step \in {8, 9}, \A a \in 0..6 : checks[a] = "PASS"
        PROVE  /\ \A r \in Batch!Records : wins[r] = 1
               /\ wins[Batch!Damaged] = 0
               /\ \A g \in Batch!Groups : met[g]
    <3>1. wins[0] = 1 /\ wins[1] = 1 /\ wins[2] = 1 /\ wins[3] = 1 /\ wins[4] = 1 /\ wins[5] = 0
      BY <2>1, <2>3 DEF RoundInv, Tally
    <3>2. \A g \in {0, 3} : met[g]
      BY <2>1, <2>3 DEF RoundInv, Meetings
    <3> QED BY <3>1, <3>2 DEF Batch!Records, Batch!Damaged, Batch!Groups
  <2> QED BY <2>2, <2>3 DEF OneWinnerEach, Batch!OneWinnerEach
<1> QED BY <1>1, <1>2, <1>3, PTL DEF Spec

-----------------------------------------------------------------------------
(* What the exit code of an exchange without threads stands for.           *)

Grades == {"PASS", "FAIL", "INCOMPLETE"}

TrialShape ==
  /\ mode \in Modes /\ kind \in [0..1 -> Kinds]
  /\ trial \in 0..4 /\ turn \in 1..7
  /\ stage \in {"produce", "check", "fresh", "receive", "fold"}
  /\ {produced, control, received} \cup counts \subseteq Trials!Statuses
  /\ report \in Grades /\ expired \in BOOLEAN /\ lost \in BOOLEAN
  /\ mode = "plain" => stage \notin {"fresh", "receive"}
  /\ mode # "plain" => stage # "check"
  /\ stage # "check" => turn = 1
  /\ trial = 4 => stage = "produce"
  /\ mode = "plain" => report = IF trial = 4 THEN Trials!PlainStatus ELSE "PASS"
  /\ mode = "concurrent" => ~lost /\ ~expired

\* What a trial that passed has shown of its sender and of its receiver.
Shown(t) ==
  /\ kind[t \div 2] \notin {"liar", "sealed"}
  /\ kind[1 - (t \div 2)] \notin {"deaf", "mumbles"}
       \cup (IF mode = "plain" THEN Trials!Bound ELSE {"ciphertext"} \cup Trials!StateFaults)

\* While every count is of PASS, no call was lost and no fault was met.
PlainClean ==
  mode = "plain" /\ counts \subseteq {"PASS"} =>
    /\ ~lost /\ (expired => stage # "fold" /\ trial # 4)
    /\ \A t \in 0..3 : t < trial => Shown(t)
    /\ stage # "produce" => produced = "PASS" /\ kind[Trials!Sender] # "liar"
    /\ turn > 1 \/ stage = "fold" => Trials!Opens /\ kind[Trials!Receiver] # "mumbles"
    /\ \A i \in 1..6 : i < turn - 1 \/ stage = "fold" =>
         kind[Trials!Receiver] # Trials!Contexts[i]

\* The same of the trials behind a report that is PASS, and of this trial.
ReplayClean ==
  mode = "replay" /\ report = "PASS" =>
    /\ \A t \in 0..3 : t < trial => Shown(t)
    /\ lost => \/ stage # "produce" /\ produced # "PASS"
               \/ stage \in {"receive", "fold"} /\ control # "PASS"
               \/ stage = "fold" /\ received # "PASS"
    /\ expired => trial # 4 /\ (stage = "fold" => received # "PASS")
    /\ stage # "produce" /\ produced = "PASS" => kind[Trials!Sender] # "liar"
    /\ stage \in {"receive", "fold"} /\ control = "PASS" =>
         Trials!Opens /\ kind[Trials!Receiver] # "mumbles"
    /\ stage = "fold" /\ received = "PASS" => Trials!Matches(kind[Trials!Receiver])

\* Correct cores whose calls are all answered meet nothing but PASS.
GoodClean ==
  (\A s \in 0..1 : kind[s] = "good") /\ ~lost =>
    /\ report = "PASS" /\ (mode = "plain" => counts \subseteq {"PASS"})
    /\ stage # "produce" => produced = "PASS"
    /\ stage \in {"receive", "fold"} /\ mode = "replay" => control = "PASS"
    /\ stage = "fold" /\ mode = "replay" => received = "PASS"

\* The recursion that follows a receiver through the nine actions, unrolled.
LEMMA BeforeStates ==
  ASSUME NEW k
  PROVE  /\ Trials!Before(k)[1] = [used |-> {}, closed |-> FALSE]
         /\ \A i \in 1..8 : Trials!Before(k)[i + 1] =
              Trials!After(k, Trials!Before(k)[i], Trials!Actions[i])
<1> DEFINE s1 == [used |-> {}, closed |-> FALSE]
           s2 == Trials!After(k, s1, Trials!Actions[1])
           s3 == Trials!After(k, s2, Trials!Actions[2])
           s4 == Trials!After(k, s3, Trials!Actions[3])
           s5 == Trials!After(k, s4, Trials!Actions[4])
           s6 == Trials!After(k, s5, Trials!Actions[5])
           s7 == Trials!After(k, s6, Trials!Actions[6])
           s8 == Trials!After(k, s7, Trials!Actions[7])
           s9 == Trials!After(k, s8, Trials!Actions[8])
           g == [i \in 1..9 |-> IF i = 1 THEN s1 ELSE IF i = 2 THEN s2
                  ELSE IF i = 3 THEN s3 ELSE IF i = 4 THEN s4
                  ELSE IF i = 5 THEN s5 ELSE IF i = 6 THEN s6
                  ELSE IF i = 7 THEN s7 ELSE IF i = 8 THEN s8 ELSE s9]
           Solves(f) == f = [i \in 1..9 |-> IF i = 1 THEN s1
                  ELSE Trials!After(k, f[i - 1], Trials!Actions[i - 1])]
<1>1. /\ s2 = Trials!After(k, s1, Trials!Actions[1])
      /\ s3 = Trials!After(k, s2, Trials!Actions[2])
      /\ s4 = Trials!After(k, s3, Trials!Actions[3])
      /\ s5 = Trials!After(k, s4, Trials!Actions[4])
      /\ s6 = Trials!After(k, s5, Trials!Actions[5])
      /\ s7 = Trials!After(k, s6, Trials!Actions[6])
      /\ s8 = Trials!After(k, s7, Trials!Actions[7])
      /\ s9 = Trials!After(k, s8, Trials!Actions[8])
  OBVIOUS
<1> HIDE DEF s2, s3, s4, s5, s6, s7, s8, s9
<1>2. \A i \in 1..9 : g[i] = IF i = 1 THEN s1
                  ELSE Trials!After(k, g[i - 1], Trials!Actions[i - 1])
  <2>1. SUFFICES ASSUME NEW i \in 1..9
                 PROVE  g[i] = IF i = 1 THEN s1
                               ELSE Trials!After(k, g[i - 1], Trials!Actions[i - 1])
    OBVIOUS
  <2>2. CASE i \in {1, 2, 3}
    BY <1>1, <2>2
  <2>3. CASE i \in {4, 5, 6}
    BY <1>1, <2>3
  <2>4. CASE i \in {7, 8, 9}
    BY <1>1, <2>4
  <2> QED BY <2>2, <2>3, <2>4
<1>3. Solves(g)
  BY <1>2
<1>4. Trials!Before(k) = CHOOSE f : Solves(f)
  BY DEF Trials!Before
<1> HIDE DEF g
<1>5. Solves(Trials!Before(k))
  <2> HIDE DEF Solves
  <2> QED BY <1>3, <1>4
<1>6. \A i \in 1..9 : Trials!Before(k)[i] = IF i = 1 THEN s1
                  ELSE Trials!After(k, Trials!Before(k)[i - 1], Trials!Actions[i - 1])
  BY <1>5
<1>7. ASSUME NEW i \in 1..8
      PROVE  Trials!Before(k)[i + 1] = Trials!After(k, Trials!Before(k)[i], Trials!Actions[i])
  <2>1. i + 1 \in 1..9 /\ i + 1 # 1 /\ (i + 1) - 1 = i
    OBVIOUS
  <2>2. Trials!Before(k)[i + 1] =
          Trials!After(k, Trials!Before(k)[(i + 1) - 1], Trials!Actions[(i + 1) - 1])
    BY <1>6, <2>1
  <2> QED BY <2>1, <2>2
<1> QED BY <1>6, <1>7

\* The state of a receiver that has accepted the records U.
OpenAt(s, U) == s.used = U /\ ~s.closed
ShutAt(s, U) == s.used = U /\ s.closed

\* What an action leaves behind.
LEMMA AfterAction ==
  ASSUME NEW k, NEW s, NEW n, NEW U, OpenAt(s, U)
  PROVE  /\ n = 0 - 1 => OpenAt(Trials!After(k, s, n), IF k = "burns" THEN U \cup {1} ELSE U)
         /\ n = 0 - 2 => ShutAt(Trials!After(k, s, n), U)
         /\ n \notin {0 - 1, 0 - 2} => OpenAt(Trials!After(k, s, n), 
              IF Trials!Verdict(k, s, n) = "ACCEPT" THEN U \cup {n} ELSE U)
<1>1. Trials!After(k, s, n).used =
        IF n = 0 - 1 THEN (IF k = "burns" THEN s.used \cup {1} ELSE s.used)
        ELSE IF n # 0 - 2 /\ Trials!Verdict(k, s, n) = "ACCEPT" THEN s.used \cup {n} ELSE s.used
  BY DEF Trials!After, Trials!Damaged, Trials!Close
<1>2. Trials!After(k, s, n).closed = (s.closed \/ n = 0 - 2)
  BY DEF Trials!After, Trials!Damaged, Trials!Close
<1>3. n = 0 - 2 => Trials!After(k, s, n).closed
  BY <1>2, Zenon
<1>4. n # 0 - 2 => ~Trials!After(k, s, n).closed
  BY <1>2, Zenon DEF OpenAt
<1>5. 0 - 1 # 0 - 2
  OBVIOUS
<1>6. CASE n = 0 - 1
  <2>1. ~Trials!After(k, s, n).closed
   BY <1>4, <1>5, <1>6
  <2>2. Trials!After(k, s, n).used = IF k = "burns" THEN U \cup {1} ELSE U
   BY <1>1,  <1>6 DEF OpenAt
  <2> QED  BY <2>1, <2>2, <1>5, <1>6, Zenon DEF OpenAt
<1>7. CASE n = 0 - 2
  BY <1>1, <1>3, <1>5, <1>7, Zenon DEF ShutAt, OpenAt
<1>8. CASE n \notin {0 - 1, 0 - 2}
  <2>1. ~Trials!After(k, s, n).closed
   BY <1>4, <1>8
  <2>2. Trials!After(k, s, n).used = IF Trials!Verdict(k, s, n) = "ACCEPT" THEN U \cup {n} ELSE U
   BY <1>1,  <1>8 DEF OpenAt
  <2> QED  BY <2>1, <2>2, <1>8 , Zenon DEF OpenAt
<1> QED BY <1>6, <1>7, <1>8

\* A record that a receiver in this state accepts, and one that it refuses.
LEMMA AcceptAction ==
  ASSUME Trials!Opens, NEW k, NEW s, NEW U, OpenAt(s, U), NEW n \in Nat, n \notin U,
         k = "strict" => ~ \E u \in U : u > n
  PROVE  OpenAt(Trials!After(k, s, n), U \cup {n})
<1>1. s.used = U /\ ~s.closed
  BY DEF OpenAt
<1>2. Trials!Verdict(k, s, n) = "ACCEPT"
  BY <1>1 DEF Trials!Verdict, Trials!Damaged, Trials!Close
<1>3. n \notin {0 - 1, 0 - 2}
  OBVIOUS
<1> QED BY <1>2, <1>3, AfterAction

LEMMA RefuseAction ==
  ASSUME NEW k, NEW s, NEW U, OpenAt(s, U), NEW n \in Nat, n \in U, k # "forgets"
  PROVE  OpenAt(Trials!After(k, s, n), U)
<1>1. s.used = U
  BY DEF OpenAt
<1>2. Trials!Verdict(k, s, n) = "REJECT"
  BY <1>1 DEF Trials!Verdict, Trials!Damaged, Trials!Close
<1>3. n \notin {0 - 1, 0 - 2}
  OBVIOUS
<1> QED BY <1>2, <1>3, AfterAction

\* The receiver that serves a batch, action by action.
LEMMA ReceiverStates ==
  ASSUME Trials!Opens, NEW k \in {"good", "reopens", "strict", "ciphertext", "burns", "forgets"}
  PROVE  /\ OpenAt(Trials!Before(k)[1], {}) /\ OpenAt(Trials!Before(k)[2], {0})
         /\ k # "forgets" => OpenAt(Trials!Before(k)[3], {0})
         /\ k = "burns" => OpenAt(Trials!Before(k)[4], {0, 1})
         /\ k \in {"good", "reopens", "strict"} =>
              /\ OpenAt(Trials!Before(k)[4], {0}) /\ OpenAt(Trials!Before(k)[5], {0, 1})
              /\ OpenAt(Trials!Before(k)[6], {0, 1, 3})
         /\ k \in {"good", "reopens"} =>
              /\ OpenAt(Trials!Before(k)[7], {0, 1, 2, 3})
              /\ OpenAt(Trials!Before(k)[8], {0, 1, 2, 3})
              /\ ShutAt(Trials!Before(k)[9], {0, 1, 2, 3})
<1> DEFINE b(i) == Trials!Before(k)[i]
           a(i) == Trials!Actions[i]
<1>1. OpenAt(b(1), {})
  BY BeforeStates DEF OpenAt, ShutAt
<1>2. \A i \in 1..8 : b(i + 1) = Trials!After(k, b(i), a(i))
  BY BeforeStates
<1>3. /\ b(2) = Trials!After(k, b(1), a(1)) /\ b(3) = Trials!After(k, b(2), a(2))
      /\ b(4) = Trials!After(k, b(3), a(3)) /\ b(5) = Trials!After(k, b(4), a(4))
      /\ b(6) = Trials!After(k, b(5), a(5)) /\ b(7) = Trials!After(k, b(6), a(6))
      /\ b(8) = Trials!After(k, b(7), a(7)) /\ b(9) = Trials!After(k, b(8), a(8))
  <2> HIDE DEF b, a
  <2> QED BY <1>2
<1>4. /\ a(1) = 0 /\ a(2) = 0 /\ a(3) = 0 - 1 /\ a(4) = 1 /\ a(5) = 3 /\ a(6) = 2
      /\ a(7) = 3 /\ a(8) = 0 - 2
  BY DEF Trials!Actions, Trials!Damaged, Trials!Close
<1> HIDE DEF b, a
<1>5. OpenAt(b(2), {0})
  <2>1. {} \cup {0} = {0}
    OBVIOUS
  <2>2. OpenAt(Trials!After(k, b(1), 0), {} \cup {0})
    BY <1>1, AcceptAction
  <2> QED BY <1>3, <1>4, <2>1, <2>2
<1>6. k # "forgets" => OpenAt(b(3), {0})
  <2>1. k # "forgets" => OpenAt(Trials!After(k, b(2), 0), {0})
    BY <1>5, RefuseAction
  <2> QED BY <1>3, <1>4, <2>1
<1>7. k = "burns" => OpenAt(b(4), {0, 1})
  <2>1. {0} \cup {1} = {0, 1}
    OBVIOUS
  <2>2. k = "burns" => OpenAt(Trials!After(k, b(3), 0 - 1), {0} \cup {1})
    BY <1>6, AfterAction
  <2> QED BY <1>3, <1>4, <2>1, <2>2
<1>8. k \in {"good", "reopens", "strict"} => OpenAt(b(4), {0})
  <2>1. k \in {"good", "reopens", "strict"} => OpenAt(Trials!After(k, b(3), 0 - 1), {0})
    BY <1>6, AfterAction
  <2> QED BY <1>3, <1>4, <2>1
<1>9. k \in {"good", "reopens", "strict"} => OpenAt(b(5), {0, 1})
  <2>1. {0} \cup {1} = {0, 1}
    OBVIOUS
  <2>2. 1 \notin {0} /\ (k = "strict" => ~ \E u \in {0} : u > 1)
    OBVIOUS
  <2>3. k \in {"good", "reopens", "strict"} => OpenAt(Trials!After(k, b(4), 1), {0} \cup {1})
    BY <1>8, <2>2, AcceptAction
  <2> QED BY <1>3, <1>4, <2>1, <2>3
<1>10. k \in {"good", "reopens", "strict"} => OpenAt(b(6), {0, 1, 3})
  <2>1. {0, 1} \cup {3} = {0, 1, 3}
    OBVIOUS
  <2>2. 3 \notin {0, 1} /\ (k = "strict" => ~ \E u \in {0, 1} : u > 3)
    OBVIOUS
  <2>3. k \in {"good", "reopens", "strict"} => OpenAt(Trials!After(k, b(5), 3), {0, 1} \cup {3})
    BY <1>9, <2>2, AcceptAction
  <2> QED BY <1>3, <1>4, <2>1, <2>3
<1>11. k \in {"good", "reopens"} => OpenAt(b(7), {0, 1, 2, 3})
  <2>1. {0, 1, 3} \cup {2} = {0, 1, 2, 3}
    OBVIOUS
  <2>2. 2 \notin {0, 1, 3}
    OBVIOUS
  <2>3. k \in {"good", "reopens"} => OpenAt(Trials!After(k, b(6), 2), {0, 1, 3} \cup {2})
    BY <1>10, <2>2, AcceptAction
  <2> QED BY <1>3, <1>4, <2>1, <2>3
<1>12. k \in {"good", "reopens"} => OpenAt(b(8), {0, 1, 2, 3})
  <2>1. k \in {"good", "reopens"} => OpenAt(Trials!After(k, b(7), 3), {0, 1, 2, 3})
    BY <1>11, RefuseAction
  <2> QED BY <1>3, <1>4, <2>1
<1>13. k \in {"good", "reopens"} => ShutAt(b(9), {0, 1, 2, 3})
  <2>1. k \in {"good", "reopens"} => ShutAt(Trials!After(k, b(8), 0 - 2), {0, 1, 2, 3})
    BY <1>12, AfterAction
  <2> QED BY <1>3, <1>4, <2>1
<1> QED BY <1>1, <1>5, <1>6, <1>7, <1>8, <1>9, <1>10, <1>11, <1>12, <1>13 DEF b

\* The batch finds every fault of a receiver that it is there to find.
LEMMA BatchFinds ==
  ASSUME Trials!Opens, NEW k, Trials!Matches(k)
  PROVE  k \notin {"mumbles", "ciphertext"} \cup Trials!StateFaults
<1> USE DEF OpenAt, ShutAt, Trials!Verdict, Trials!Damaged, Trials!Close
<1>1. \A i \in 1..9 : Trials!Verdict(k, Trials!Before(k)[i], Trials!Actions[i]) = Trials!Expected[i]
  BY DEF Trials!Matches
<1>2. /\ Trials!Actions[2] = 0 /\ Trials!Actions[3] = 0 - 1 /\ Trials!Actions[4] = 1
      /\ Trials!Actions[6] = 2 /\ Trials!Actions[9] = 4
  BY DEF Trials!Actions
<1>3. /\ Trials!Expected[2] = "REJECT" /\ Trials!Expected[3] = "REJECT"
      /\ Trials!Expected[4] = "ACCEPT" /\ Trials!Expected[6] = "ACCEPT"
      /\ Trials!Expected[9] = "REJECT"
  BY DEF Trials!Expected
<1>4. k # "forgets"
  <2>1. SUFFICES ASSUME k = "forgets" PROVE FALSE
    OBVIOUS
  <2>2. OpenAt(Trials!Before(k)[2], {0})
    BY <2>1, ReceiverStates
  <2> QED BY <1>1, <1>2, <1>3, <2>1, <2>2
<1>5. k # "ciphertext"
  <2>1. SUFFICES ASSUME k = "ciphertext" PROVE FALSE
    OBVIOUS
  <2>2. OpenAt(Trials!Before(k)[3], {0})
    BY <2>1, ReceiverStates
  <2> QED BY <1>1, <1>2, <1>3, <2>1, <2>2
<1>6. k # "burns"
  <2>1. SUFFICES ASSUME k = "burns" PROVE FALSE
    OBVIOUS
  <2>2. OpenAt(Trials!Before(k)[4], {0, 1})
    BY <2>1, ReceiverStates
  <2> QED BY <1>1, <1>2, <1>3, <2>1, <2>2
<1>7. k # "strict"
  <2>1. SUFFICES ASSUME k = "strict" PROVE FALSE
    OBVIOUS
  <2>2. OpenAt(Trials!Before(k)[6], {0, 1, 3})
    BY <2>1, ReceiverStates
  <2> QED BY <1>1, <1>2, <1>3, <2>1, <2>2
<1>8. k # "reopens"
  <2>1. SUFFICES ASSUME k = "reopens" PROVE FALSE
    OBVIOUS
  <2>2. ShutAt(Trials!Before(k)[9], {0, 1, 2, 3})
    BY <2>1, ReceiverStates
  <2> QED BY <1>1, <1>2, <1>3, <2>1, <2>2
<1> QED BY <1>4, <1>5, <1>6, <1>7, <1>8 DEF Trials!Matches, Trials!StateFaults

\* A correct receiver gives the verdicts that are expected.
LEMMA GoodMatches ==
  ASSUME Trials!Opens PROVE Trials!Matches("good")
<1> DEFINE b(i) == Trials!Before("good")[i]
<1>1. /\ OpenAt(b(1), {}) /\ OpenAt(b(2), {0}) /\ OpenAt(b(3), {0})
      /\ OpenAt(b(4), {0}) /\ OpenAt(b(5), {0, 1}) /\ OpenAt(b(6), {0, 1, 3})
      /\ OpenAt(b(7), {0, 1, 2, 3}) /\ OpenAt(b(8), {0, 1, 2, 3})
      /\ ShutAt(b(9), {0, 1, 2, 3})
  BY ReceiverStates
<1> HIDE DEF b
<1> USE DEF OpenAt, ShutAt, Trials!Verdict, Trials!Damaged, Trials!Close, Trials!Actions,
    Trials!Expected
<1>2. \A i \in {1, 2, 3} : Trials!Verdict("good", b(i), Trials!Actions[i]) = Trials!Expected[i]
  BY <1>1
<1>3. \A i \in {4, 5, 6} : Trials!Verdict("good", b(i), Trials!Actions[i]) = Trials!Expected[i]
  BY <1>1
<1>4. \A i \in {7, 8, 9} : Trials!Verdict("good", b(i), Trials!Actions[i]) = Trials!Expected[i]
  BY <1>1
<1>5. \A i \in 1..9 : Trials!Verdict("good", b(i), Trials!Actions[i]) = Trials!Expected[i]
  <2> HIDE DEF Trials!Verdict, Trials!Actions, Trials!Expected
  <2> QED BY <1>2, <1>3, <1>4
<1> QED BY <1>5 DEF Trials!Matches, b

\* A call that passes was answered, by what is wanted; an answered call passes.
LEMMA CallPasses ==
  ASSUME NEW v \in {"ACCEPT", "REJECT"}, NEW o \in Trials!Back(v),
         NEW wanted \in {"ACCEPT", "REJECT"}
  PROVE  /\ Trials!Judge(o, wanted) = "PASS" =>
              /\ ~expired /\ v = wanted /\ o = v
         /\ o \notin {"lost", "UNSUPPORTED"} => o = v
         /\ Trials!Judge(wanted, wanted) = "PASS"
         /\ Trials!Judge(o, wanted) \in {"PASS", "FAIL", "UNSUPPORTED"}
  BY DEF Trials!Back, Trials!Judge

TrialInv == TrialShape /\ PlainClean /\ ReplayClean /\ GoodClean

\* Before the first trial there is nothing to show.
LEMMA TrialInit ==
  ASSUME Init PROVE TrialInv
<1>1. kind \in [0..1 -> Kinds]
  BY DEF Init, Trials!Init
<1>2. /\ mode \in Modes /\ trial = 0 /\ stage = "produce" /\ turn = 1
      /\ produced = "NOT_RUN" /\ control = "NOT_RUN" /\ received = "NOT_RUN"
      /\ counts = {} /\ report = "PASS" /\ ~expired /\ ~lost
      /\ expired \in BOOLEAN /\ lost \in BOOLEAN
  BY DEF Init, Trials!Init, Modes
<1>3. TrialShape
  BY <1>1, <1>2 DEF TrialShape, Modes, Grades, Trials!Statuses
<1>4. \A t \in 0..3 : ~(t < 0)
  OBVIOUS
<1>5. \A i \in 1..6 : ~(i < 1 - 1)
  OBVIOUS
<1>6. PlainClean /\ ReplayClean /\ GoodClean
  BY <1>2, <1>4, <1>5 DEF PlainClean, ReplayClean, GoodClean
<1> QED BY <1>3, <1>6 DEF TrialInv

\* The two subjects of a trial.
LEMMA Sides ==
  ASSUME trial \in 0..3
  PROVE  Trials!Sender \in 0..1 /\ Trials!Receiver \in 0..1
<1>1. trial \in {0, 1, 2, 3}
  OBVIOUS
<1>2. trial \div 2 \in 0..1
  BY <1>1
<1> QED BY <1>2 DEF Trials!Sender, Trials!Receiver

\* The production.
LEMMA ProduceClean ==
  ASSUME TrialInv, mode # "concurrent", Trials!Produce PROVE TrialInv'
<1>1. PICK o \in Trials!Back("ACCEPT") :
        /\ produced' = IF o = "ACCEPT" /\ kind[Trials!Sender] = "liar" THEN "FAIL"
                       ELSE Trials!Judge(o, "ACCEPT")
        /\ lost' = (lost \/ o \in {"lost", "UNSUPPORTED"})
  BY DEF Trials!Produce, Trials!Note
<1>2. /\ trial < 4 /\ stage = "produce" /\ counts' = counts \cup {produced'}
      /\ stage' = IF mode = "plain" THEN "check" ELSE "fresh"
      /\ UNCHANGED <<mode, kind, trial, turn, control, received, last, report, expired>>
  BY DEF Trials!Produce
<1>3. /\ produced' = "PASS" => ~expired /\ kind[Trials!Sender] # "liar" /\ o = "ACCEPT"
      /\ produced' \in {"PASS", "FAIL", "UNSUPPORTED"}
      /\ o \notin {"lost", "UNSUPPORTED"} /\ kind[Trials!Sender] # "liar" => produced' = "PASS"
  BY <1>1, CallPasses
<1>4. produced' = "PASS" => lost' = lost
  BY <1>1, <1>3 DEF TrialInv, TrialShape
<1>5. lost' \in BOOLEAN /\ (lost => lost')
  BY <1>1 DEF TrialInv, TrialShape
<1>6. TrialShape'
  <2>1. trial' \in 0..3 /\ stage' \in {"check", "fresh"} /\ turn' = 1
    BY <1>2 DEF TrialInv, TrialShape
  <2> QED BY <1>2, <1>3, <1>5, <2>1 DEF TrialInv, TrialShape, Trials!Statuses
<1>7. PlainClean'
  BY <1>2, <1>3, <1>4 DEF TrialInv, TrialShape, PlainClean, Shown, Trials!Sender
<1>8. ReplayClean'
  BY <1>2, <1>3, <1>4 DEF TrialInv, TrialShape, ReplayClean, Shown, Trials!Sender
<1>9. GoodClean'
  <2>1. Trials!Sender \in 0..1
    BY <1>2, Sides DEF TrialInv, TrialShape
  <2>2. (\A s \in 0..1 : kind[s] = "good") /\ ~lost' => produced' = "PASS"
    BY <1>1, <1>3, <2>1
  <2> QED BY <1>2, <1>5, <2>2 DEF TrialInv, TrialShape, GoodClean
<1> QED BY <1>6, <1>7, <1>8, <1>9 DEF TrialInv

\* A check of a plain exchange.
LEMMA CheckClean ==
  ASSUME TrialInv, mode # "concurrent", Trials!Check PROVE TrialInv'
<1>1. /\ mode = "plain" /\ trial \in 0..3 /\ stage = "check" /\ turn \in 1..7
      /\ UNCHANGED <<mode, kind, trial, produced, received, report, expired>>
  BY DEF Trials!Check, Trials!CheckStep, TrialInv, TrialShape
<1>2. PICK told :
        /\ Trials!CheckStep(told) /\ told \in Trials!Statuses /\ lost' \in BOOLEAN
        /\ lost => lost'
        /\ told = "PASS" =>
             /\ ~expired /\ lost' = lost /\ produced = "PASS" /\ Trials!Truth = Trials!Wanted
             /\ turn = 1 => kind[Trials!Receiver] # "mumbles"
        /\ produced = "PASS" /\ ~lost' /\ Trials!Truth = Trials!Wanted
             /\ kind[Trials!Receiver] # "mumbles" => told = "PASS"
  <2>1. CASE produced # "PASS"
    <3>1. Trials!CheckStep("NOT_RUN") /\ lost' = lost
      BY <2>1 DEF Trials!Check
    <3> QED BY <2>1, <3>1 DEF TrialInv, TrialShape, Trials!Statuses
  <2>2. CASE produced = "PASS"
    <3>1. Trials!Truth \in {"ACCEPT", "REJECT"} /\ Trials!Wanted \in {"ACCEPT", "REJECT"}
      BY DEF Trials!Truth, Trials!Wanted
    <3>2. PICK o \in Trials!Back(Trials!Truth) :
            /\ Trials!CheckStep(IF turn = 1 /\ o = "ACCEPT" /\ kind[Trials!Receiver] = "mumbles"
                                THEN "FAIL" ELSE Trials!Judge(o, Trials!Wanted))
            /\ lost' = (lost \/ o \in {"lost", "UNSUPPORTED"})
      BY <2>2 DEF Trials!Check, Trials!Note
    <3> DEFINE told == IF turn = 1 /\ o = "ACCEPT" /\ kind[Trials!Receiver] = "mumbles"
                       THEN "FAIL" ELSE Trials!Judge(o, Trials!Wanted)
    <3>3. /\ Trials!Judge(o, Trials!Wanted) = "PASS" =>
               ~expired /\ Trials!Truth = Trials!Wanted /\ o = Trials!Truth
          /\ o \notin {"lost", "UNSUPPORTED"} => o = Trials!Truth
          /\ Trials!Judge(Trials!Wanted, Trials!Wanted) = "PASS"
          /\ Trials!Judge(o, Trials!Wanted) \in {"PASS", "FAIL", "UNSUPPORTED"}
      BY <3>1, <3>2, CallPasses
    <3>4. turn = 1 => Trials!Wanted = "ACCEPT"
      BY DEF Trials!Wanted
    <3>5. told \in Trials!Statuses
      BY <3>3 DEF Trials!Statuses
    <3>6. told = "PASS" =>
             /\ ~expired /\ Trials!Truth = Trials!Wanted
             /\ o \notin {"lost", "UNSUPPORTED"}
             /\ turn = 1 => kind[Trials!Receiver] # "mumbles"
      BY <3>1, <3>3, <3>4
    <3>7. Trials!Truth = Trials!Wanted /\ o \notin {"lost", "UNSUPPORTED"}
             /\ kind[Trials!Receiver] # "mumbles" => told = "PASS"
      BY <3>3
    <3>8. Trials!CheckStep(told)
      BY <3>2
    <3> HIDE DEF told
    <3>9. lost' \in BOOLEAN /\ (lost => lost') /\ (~lost' => o \notin {"lost", "UNSUPPORTED"})
          /\ (o \notin {"lost", "UNSUPPORTED"} => lost' = lost)
      BY <3>2 DEF TrialInv, TrialShape
    <3> QED BY <2>2, <3>5, <3>6, <3>7, <3>8, <3>9
  <2> QED BY <2>1, <2>2
<1>3. /\ counts' = counts \cup {told}
      /\ IF turn < 7 THEN turn' = turn + 1 /\ stage' = "check"
                     ELSE turn' = 1 /\ stage' = "fold"
      /\ control' \in {control, told}
  BY <1>1, <1>2 DEF Trials!CheckStep
<1>4. Trials!Sender' = Trials!Sender /\ Trials!Receiver' = Trials!Receiver
      /\ Trials!Opens' = Trials!Opens
  BY <1>1 DEF Trials!Sender, Trials!Receiver, Trials!Opens
<1>5. TrialShape'
  <2>1. control' \in Trials!Statuses /\ counts' \subseteq Trials!Statuses
    BY <1>2, <1>3 DEF TrialInv, TrialShape
  <2>2. turn' \in 1..7 /\ stage' \in {"check", "fold"} /\ (stage' # "check" => turn' = 1)
    BY <1>1, <1>3
  <2> QED BY <1>1, <1>2, <2>1, <2>2 DEF TrialInv, TrialShape
<1>6. PlainClean'
  <2>1. SUFFICES ASSUME counts' \subseteq {"PASS"}
        PROVE  /\ ~lost' /\ ~expired /\ (\A t \in 0..3 : t < trial => Shown(t))
               /\ produced = "PASS" /\ kind[Trials!Sender] # "liar"
               /\ Trials!Opens /\ kind[Trials!Receiver] # "mumbles"
               /\ \A i \in 1..6 : i < turn' - 1 \/ stage' = "fold" =>
                    kind[Trials!Receiver] # Trials!Contexts[i]
    <3>1. \A t : Shown(t)' <=> Shown(t)
      BY <1>1 DEF Shown
    <3> QED BY <1>1, <1>3, <1>4, <2>1, <3>1 DEF PlainClean
  <2>2. told = "PASS" /\ counts \subseteq {"PASS"}
    BY <1>3, <2>1
  <2>3. /\ ~lost' /\ ~expired /\ produced = "PASS" /\ kind[Trials!Sender] # "liar"
        /\ \A t \in 0..3 : t < trial => Shown(t)
    BY <1>1, <1>2, <2>2 DEF TrialInv, PlainClean
  <2>4. CASE turn = 1
    <3>1. Trials!Opens /\ kind[Trials!Receiver] # "mumbles"
      BY <1>2, <2>2, <2>4 DEF Trials!Truth, Trials!Wanted
    <3>2. turn' = 2 /\ stage' = "check"
      BY <1>3, <2>4
    <3>3. \A i \in 1..6 : ~(i < 2 - 1)
      OBVIOUS
    <3> QED BY <2>3, <3>1, <3>2, <3>3
  <2>5. CASE turn \in 2..7
    <3>1. Trials!Opens /\ kind[Trials!Receiver] # "mumbles"
      BY <1>1, <2>2, <2>5 DEF TrialInv, PlainClean
    <3>2. kind[Trials!Receiver] # Trials!Contexts[turn - 1]
      BY <1>2, <2>2, <2>5, <3>1 DEF Trials!Truth, Trials!Wanted
    <3>3. \A i \in 1..6 : i < turn - 1 => kind[Trials!Receiver] # Trials!Contexts[i]
      BY <1>1, <2>2 DEF TrialInv, PlainClean
    <3>4. \A i \in 1..6 : i < turn' - 1 \/ stage' = "fold" => i < turn - 1 \/ i = turn - 1
      BY <1>1, <1>3
    <3> QED BY <2>3, <3>1, <3>2, <3>3, <3>4
  <2> QED BY <1>1, <2>4, <2>5
<1>7. GoodClean'
  <2>1. SUFFICES ASSUME \A s \in 0..1 : kind[s] = "good", ~lost'
        PROVE  report = "PASS" /\ counts' \subseteq {"PASS"} /\ produced = "PASS"
    BY <1>1, <2>1 DEF GoodClean
  <2>2. report = "PASS" /\ counts \subseteq {"PASS"} /\ produced = "PASS"
    BY <1>1, <1>2, <2>1 DEF TrialInv, GoodClean
  <2>3. kind[Trials!Sender] = "good" /\ kind[Trials!Receiver] = "good"
    BY <1>1, <2>1, Sides
  <2>4. Trials!Truth = Trials!Wanted
    <3>1. turn \in 2..7 => Trials!Contexts[turn - 1] # "good"
      BY DEF Trials!Contexts
    <3> QED BY <1>1, <2>3, <3>1 DEF Trials!Truth, Trials!Wanted, Trials!Opens
  <2> QED BY <1>2, <1>3, <2>1, <2>2, <2>3, <2>4
<1>8. ReplayClean'
  BY <1>1 DEF ReplayClean
<1> QED BY <1>5, <1>6, <1>7, <1>8 DEF TrialInv

\* The control of a replay exchange.
LEMMA ControlClean ==
  ASSUME TrialInv, mode # "concurrent", Trials!FreshControl PROVE TrialInv'
<1>1. /\ mode = "replay" /\ trial \in 0..3 /\ stage = "fresh" /\ stage' = "receive" /\ turn = 1
      /\ UNCHANGED <<mode, kind, trial, turn, produced, received, last, counts, report, expired>>
  BY DEF Trials!FreshControl, TrialInv, TrialShape, Modes
<1>2. /\ control' \in Trials!Statuses /\ lost' \in BOOLEAN /\ (lost => lost')
      /\ control' = "PASS" =>
           /\ ~expired /\ lost' = lost /\ produced = "PASS"
           /\ Trials!Opens /\ kind[Trials!Receiver] # "mumbles"
      /\ produced = "PASS" /\ lost' # lost => control' # "PASS"
      /\ produced # "PASS" => lost' = lost
      /\ produced = "PASS" /\ ~lost' /\ Trials!Opens /\ kind[Trials!Receiver] # "mumbles" =>
           control' = "PASS"
  <2>1. CASE produced # "PASS"
    <3>1. control' = "NOT_RUN" /\ lost' = lost
      BY <2>1 DEF Trials!FreshControl
    <3> QED BY <2>1, <3>1 DEF TrialInv, TrialShape, Trials!Statuses
  <2>2. CASE produced = "PASS"
    <3>1. PICK o \in Trials!Back("ACCEPT") :
            /\ control' = IF o = "ACCEPT" /\ (~Trials!Opens \/ kind[Trials!Receiver] = "mumbles")
                          THEN "FAIL" ELSE Trials!Judge(o, "ACCEPT")
            /\ lost' = (lost \/ o \in {"lost", "UNSUPPORTED"})
      BY <2>2 DEF Trials!FreshControl, Trials!Note
    <3>2. /\ Trials!Judge(o, "ACCEPT") = "PASS" => ~expired /\ o = "ACCEPT"
          /\ o \notin {"lost", "UNSUPPORTED"} => o = "ACCEPT"
          /\ Trials!Judge("ACCEPT", "ACCEPT") = "PASS"
          /\ Trials!Judge(o, "ACCEPT") \in {"PASS", "FAIL", "UNSUPPORTED"}
      BY <3>1, CallPasses
    <3>3. /\ lost' \in BOOLEAN /\ (lost => lost') /\ (~lost' => o \notin {"lost", "UNSUPPORTED"})
          /\ (o \notin {"lost", "UNSUPPORTED"} => lost' = lost)
      BY <3>1 DEF TrialInv, TrialShape
    <3> QED BY <2>2, <3>1, <3>2, <3>3 DEF Trials!Statuses
  <2> QED BY <2>1, <2>2
<1>3. Trials!Sender' = Trials!Sender /\ Trials!Receiver' = Trials!Receiver
      /\ Trials!Opens' = Trials!Opens
  BY <1>1 DEF Trials!Sender, Trials!Receiver, Trials!Opens
<1>4. TrialShape'
  BY <1>1, <1>2 DEF TrialInv, TrialShape
<1>5. ReplayClean'
  <2>1. SUFFICES ASSUME report = "PASS"
        PROVE  /\ \A t \in 0..3 : t < trial => Shown(t)
               /\ lost' => produced # "PASS" \/ control' # "PASS"
               /\ produced = "PASS" => kind[Trials!Sender] # "liar"
               /\ control' = "PASS" => Trials!Opens /\ kind[Trials!Receiver] # "mumbles"
    <3>1. \A t : Shown(t)' <=> Shown(t)
      BY <1>1 DEF Shown
    <3> QED BY <1>1, <1>3, <2>1, <3>1 DEF ReplayClean
  <2>2. /\ \A t \in 0..3 : t < trial => Shown(t)
        /\ lost => produced # "PASS"
        /\ produced = "PASS" => kind[Trials!Sender] # "liar"
    BY <1>1, <2>1 DEF TrialInv, ReplayClean
  <2> QED BY <1>2, <2>2
<1>6. GoodClean'
  <2>1. SUFFICES ASSUME \A s \in 0..1 : kind[s] = "good", ~lost'
        PROVE  report = "PASS" /\ produced = "PASS" /\ control' = "PASS"
    BY <1>1, <2>1 DEF GoodClean
  <2>2. report = "PASS" /\ produced = "PASS"
    BY <1>1, <1>2, <2>1 DEF TrialInv, GoodClean
  <2>3. kind[Trials!Sender] = "good" /\ kind[Trials!Receiver] = "good"
    BY <1>1, <2>1, Sides
  <2> QED BY <1>2, <2>1, <2>2, <2>3 DEF Trials!Opens
<1>7. PlainClean'
  BY <1>1 DEF PlainClean
<1> QED BY <1>4, <1>5, <1>6, <1>7 DEF TrialInv

\* The batch of a replay exchange.
LEMMA ReceiveClean ==
  ASSUME TrialInv, mode # "concurrent", Trials!Receive PROVE TrialInv'
<1>1. /\ mode = "replay" /\ trial \in 0..3 /\ stage = "receive" /\ stage' = "fold" /\ turn = 1
      /\ UNCHANGED <<mode, kind, trial, turn, produced, control, last, counts, report, expired>>
  BY DEF Trials!Receive, TrialInv, TrialShape, Modes
<1>2. /\ received' \in Trials!Statuses /\ lost' \in BOOLEAN /\ (lost => lost')
      /\ received' = "PASS" =>
           /\ ~expired /\ lost' = lost /\ produced = "PASS" /\ Trials!Matches(kind[Trials!Receiver])
      /\ produced # "PASS" => lost' = lost
      /\ produced = "PASS" /\ ~lost' /\ Trials!Matches(kind[Trials!Receiver]) => received' = "PASS"
  <2>1. CASE produced # "PASS"
    <3>1. received' = "NOT_RUN" /\ lost' = lost
      BY <2>1 DEF Trials!Receive
    <3> QED BY <2>1, <3>1 DEF TrialInv, TrialShape, Trials!Statuses
  <2>2. CASE produced = "PASS"
    <3>1. PICK o \in Trials!Back("ACCEPT") :
            /\ received' = IF o = "ACCEPT" /\ ~Trials!Matches(kind[Trials!Receiver])
                          THEN "FAIL" ELSE Trials!Judge(o, "ACCEPT")
            /\ lost' = (lost \/ o \in {"lost", "UNSUPPORTED"})
      BY <2>2 DEF Trials!Receive, Trials!Note
    <3>2. /\ Trials!Judge(o, "ACCEPT") = "PASS" => ~expired /\ o = "ACCEPT"
          /\ o \notin {"lost", "UNSUPPORTED"} => o = "ACCEPT"
          /\ Trials!Judge("ACCEPT", "ACCEPT") = "PASS"
          /\ Trials!Judge(o, "ACCEPT") \in {"PASS", "FAIL", "UNSUPPORTED"}
      BY <3>1, CallPasses
    <3>3. /\ lost' \in BOOLEAN /\ (lost => lost') /\ (~lost' => o \notin {"lost", "UNSUPPORTED"})
          /\ (o \notin {"lost", "UNSUPPORTED"} => lost' = lost)
      BY <3>1 DEF TrialInv, TrialShape
    <3> QED BY <2>2, <3>1, <3>2, <3>3 DEF Trials!Statuses
  <2> QED BY <2>1, <2>2
<1>3. Trials!Sender' = Trials!Sender /\ Trials!Receiver' = Trials!Receiver
      /\ Trials!Opens' = Trials!Opens
  BY <1>1 DEF Trials!Sender, Trials!Receiver, Trials!Opens
<1>4. TrialShape'
  BY <1>1, <1>2 DEF TrialInv, TrialShape
<1>5. Trials!Matches(kind[Trials!Receiver])' <=> Trials!Matches(kind[Trials!Receiver])
  BY <1>1, <1>3 DEF Trials!Matches, Trials!Verdict, Trials!Before, Trials!After
<1>6. ReplayClean'
  <2>1. SUFFICES ASSUME report = "PASS"
        PROVE  /\ \A t \in 0..3 : t < trial => Shown(t)
               /\ lost' => produced # "PASS" \/ control # "PASS" \/ received' # "PASS"
               /\ expired => received' # "PASS"
               /\ produced = "PASS" => kind[Trials!Sender] # "liar"
               /\ control = "PASS" => Trials!Opens /\ kind[Trials!Receiver] # "mumbles"
               /\ received' = "PASS" => Trials!Matches(kind[Trials!Receiver])
    <3>1. \A t : Shown(t)' <=> Shown(t)
      BY <1>1 DEF Shown
    <3> QED BY <1>1, <1>3, <1>5, <2>1, <3>1 DEF ReplayClean
  <2>2. /\ \A t \in 0..3 : t < trial => Shown(t)
        /\ lost => produced # "PASS" \/ control # "PASS"
        /\ produced = "PASS" => kind[Trials!Sender] # "liar"
        /\ control = "PASS" => Trials!Opens /\ kind[Trials!Receiver] # "mumbles"
    BY <1>1, <2>1 DEF TrialInv, ReplayClean
  <2> QED BY <1>2, <2>2
<1>7. GoodClean'
  <2>1. SUFFICES ASSUME \A s \in 0..1 : kind[s] = "good", ~lost'
        PROVE  report = "PASS" /\ produced = "PASS" /\ control = "PASS" /\ received' = "PASS"
    BY <1>1, <2>1 DEF GoodClean
  <2>2. report = "PASS" /\ produced = "PASS" /\ control = "PASS"
    BY <1>1, <1>2, <2>1 DEF TrialInv, GoodClean
  <2>3. kind[Trials!Sender] = "good" /\ kind[Trials!Receiver] = "good"
    BY <1>1, <2>1, Sides
  <2>4. Trials!Matches(kind[Trials!Receiver])
    BY <2>3, GoodMatches DEF Trials!Opens
  <2> QED BY <1>2, <2>1, <2>2, <2>4
<1>8. PlainClean'
  BY <1>1 DEF PlainClean
<1> QED BY <1>4, <1>6, <1>7, <1>8 DEF TrialInv

\* The end of a trial: what it has shown is kept.
LEMMA FoldClean ==
  ASSUME TrialInv, mode # "concurrent", Trials!Fold PROVE TrialInv'
<1>1. /\ mode \in {"plain", "replay"} /\ trial \in 0..3 /\ stage = "fold" /\ turn = 1
      /\ trial' = trial + 1 /\ stage' = "produce"
      /\ produced' = "NOT_RUN" /\ received' = "NOT_RUN" /\ control' = "NOT_RUN"
      /\ UNCHANGED <<mode, kind, turn, last, counts, expired, lost>>
  BY DEF Trials!Fold, TrialInv, TrialShape, Modes
<1>2. report' = IF mode = "replay" THEN Trials!ReplayStatus
                ELSE IF trial = 3 THEN Trials!PlainStatus ELSE report
  BY DEF Trials!Fold
<1>3. Trials!PlainStatus' = Trials!PlainStatus
  BY <1>1 DEF Trials!PlainStatus
<1>4. {produced, control, received} \cup counts \subseteq Trials!Statuses /\ report \in Grades
  BY DEF TrialInv, TrialShape
<1>5. TrialShape'
  <2>1. report' \in Grades
    BY <1>2, <1>4 DEF Trials!ReplayStatus, Trials!PlainStatus, Grades
  <2>2. trial' \in 1..4 /\ (trial' = 4 <=> trial = 3)
    BY <1>1
  <2>3. mode = "plain" => report' = IF trial' = 4 THEN Trials!PlainStatus ELSE "PASS"
    BY <1>1, <1>2, <2>2 DEF TrialInv, TrialShape
  <2>4. trial' \in 0..4 /\ turn' \in 1..7
    BY <1>1, <2>2
  <2>5. {produced', control', received'} \cup counts' \subseteq Trials!Statuses
    BY <1>1, <1>4 DEF Trials!Statuses
  <2> QED BY <1>1, <1>3, <2>1, <2>3, <2>4, <2>5 DEF TrialInv, TrialShape
<1>6. \A t : Shown(t)' <=> Shown(t)
  BY <1>1 DEF Shown
<1>7. ASSUME \A t \in 0..3 : t < trial => Shown(t), Shown(trial)
      PROVE  \A t \in 0..3 : t < trial' => Shown(t)'
  <2>1. \A t \in 0..3 : t < trial' => t < trial \/ t = trial
    BY <1>1
  <2> QED BY <1>6, <1>7, <2>1
<1>8. PlainClean'
  <2>1. SUFFICES ASSUME mode = "plain", counts \subseteq {"PASS"}
        PROVE  ~lost /\ ~expired /\ \A t \in 0..3 : t < trial' => Shown(t)'
    <3>1. \A i \in 1..6 : ~(i < 1 - 1)
      OBVIOUS
    <3> QED BY <1>1, <2>1, <3>1 DEF PlainClean
  <2>2. /\ ~lost /\ ~expired /\ (\A t \in 0..3 : t < trial => Shown(t))
        /\ kind[Trials!Sender] # "liar" /\ Trials!Opens /\ kind[Trials!Receiver] # "mumbles"
        /\ \A i \in 1..6 : kind[Trials!Receiver] # Trials!Contexts[i]
    BY <1>1, <2>1 DEF TrialInv, PlainClean
  <2>3. Shown(trial)
    <3>1. kind[Trials!Receiver] \notin Trials!Bound
      BY <2>2 DEF Trials!Bound
    <3> QED BY <2>1, <2>2, <3>1 DEF Shown, Trials!Opens, Trials!Sender, Trials!Receiver
  <2> QED BY <1>7, <2>2, <2>3
<1>9. ReplayClean'
  <2>1. SUFFICES ASSUME mode = "replay", report' = "PASS"
        PROVE  ~lost /\ ~expired /\ \A t \in 0..3 : t < trial' => Shown(t)'
    BY <1>1, <2>1 DEF ReplayClean
  <2>2. report = "PASS" /\ produced = "PASS" /\ control = "PASS" /\ received = "PASS"
    BY <1>2, <2>1 DEF Trials!ReplayStatus
  <2>3. /\ ~lost /\ ~expired /\ (\A t \in 0..3 : t < trial => Shown(t))
        /\ kind[Trials!Sender] # "liar" /\ Trials!Opens
        /\ kind[Trials!Receiver] # "mumbles" /\ Trials!Matches(kind[Trials!Receiver])
    BY <1>1, <2>1, <2>2 DEF TrialInv, ReplayClean
  <2>4. Shown(trial)
    <3>1. kind[Trials!Receiver] \notin {"mumbles", "ciphertext"} \cup Trials!StateFaults
      BY <2>3, BatchFinds
    <3> QED BY <2>1, <2>3, <3>1 DEF Shown, Trials!Opens, Trials!Sender, Trials!Receiver
  <2> QED BY <1>7, <2>3, <2>4
<1>10. GoodClean'
  <2>1. SUFFICES ASSUME \A s \in 0..1 : kind[s] = "good", ~lost
        PROVE  report' = "PASS" /\ (mode = "plain" => counts \subseteq {"PASS"})
    BY <1>1, <2>1 DEF GoodClean
  <2>2. /\ report = "PASS" /\ (mode = "plain" => counts \subseteq {"PASS"})
        /\ mode = "replay" => produced = "PASS" /\ control = "PASS" /\ received = "PASS"
    BY <1>1, <2>1 DEF TrialInv, GoodClean
  <2>3. mode = "replay" => Trials!ReplayStatus = "PASS"
    BY <2>2 DEF Trials!ReplayStatus
  <2>4. mode = "plain" => Trials!PlainStatus = "PASS"
    BY <2>2 DEF Trials!PlainStatus
  <2> QED BY <1>1, <1>2, <2>2, <2>3, <2>4
<1> QED BY <1>5, <1>8, <1>9, <1>10 DEF TrialInv

\* The three minutes are over.
LEMMA ExpireClean ==
  ASSUME TrialInv, mode # "concurrent", Trials!Expire PROVE TrialInv'
<1>1. /\ trial \in 0..3 /\ stage # "fold" /\ expired'
      /\ expired' \in BOOLEAN
      /\ UNCHANGED <<mode, kind, trial, stage, turn, produced, control, received, last,
                     counts, report, lost>>
  BY DEF Trials!Expire, TrialInv, TrialShape
<1>2. TrialShape'
  BY <1>1 DEF TrialInv, TrialShape, Trials!PlainStatus
<1>3. /\ \A t : Shown(t)' <=> Shown(t)
      /\ Trials!Sender' = Trials!Sender /\ Trials!Receiver' = Trials!Receiver
      /\ Trials!Opens' = Trials!Opens
  BY <1>1 DEF Shown, Trials!Sender, Trials!Receiver, Trials!Opens
<1>4. PlainClean'
  BY <1>1, <1>3 DEF TrialInv, PlainClean
<1>5. ReplayClean'
  BY <1>1, <1>3 DEF TrialInv, ReplayClean
<1>6. GoodClean'
  BY <1>1 DEF TrialInv, GoodClean
<1> QED BY <1>2, <1>4, <1>5, <1>6 DEF TrialInv

\* Every step of the program keeps what the trials have shown.
LEMMA TrialStep ==
  ASSUME TrialInv, [Next]_vars PROVE TrialInv'
<1>1. CASE UNCHANGED trialVars
  <2>1. UNCHANGED <<mode, kind, trial, stage, turn, produced, control, received, last,
                    counts, report, expired, lost>>
    BY <1>1 DEF trialVars
  <2>2. /\ \A t : Shown(t)' <=> Shown(t)
        /\ Trials!Sender' = Trials!Sender /\ Trials!Receiver' = Trials!Receiver
        /\ Trials!Opens' = Trials!Opens
        /\ \A k : Trials!Matches(k)' <=> Trials!Matches(k)
    BY <2>1 DEF Shown, Trials!Sender, Trials!Receiver, Trials!Opens, Trials!Matches,
        Trials!Verdict, Trials!Before, Trials!After
  <2>3. TrialShape' /\ GoodClean'
    BY <2>1 DEF TrialInv, TrialShape, GoodClean, Trials!PlainStatus
  <2>4. PlainClean'
    BY <2>1, <2>2 DEF TrialInv, PlainClean
  <2>5. ReplayClean'
    BY <2>1, <2>2 DEF TrialInv, ReplayClean
  <2> QED BY <2>3, <2>4, <2>5 DEF TrialInv
<1>2. CASE mode # "concurrent" /\ Trials!Next
  BY <1>2, ProduceClean, CheckClean, ControlClean, ReceiveClean, FoldClean, ExpireClean
     DEF Trials!Next
<1>3. UNCHANGED trialVars \/ (mode # "concurrent" /\ Trials!Next)
  BY DEF Next, Refuse, Exchanging, Exit, vars
<1> QED BY <1>1, <1>2, <1>3

-----------------------------------------------------------------------------
(* What the status of a contention stands for.                            *)

BatchShape ==
  /\ core \in Cores /\ round \in Nat /\ (step \in {8, 9} => round > 0)
  /\ status \in Grades
  /\ \A a \in 0..6 : checks[a] \in Grades \cup {"NOT_RUN"}
  /\ \A w \in Batch!Workers : pc[w] = "done" => started[w] <= finished[w]
  /\ \A w \in Batch!Workers : pc[w] = "checked" => core = "racy"

\* Whatever the harness is to be blamed for is on record.
Blamed ==
  blame =>
    \/ status # "PASS"
    \/ step \in {0, 3} /\ \E w \in Batch!Workers : pc[w] \in Begun /\ started[w] = 0
    \/ step \in 1..7 /\ \E a \in 0..6 : a < step /\ checks[a] = "FAIL"

Answered(w) == pc[w] \in {"answered", "done"}

\* What each check that passed has shown of the core.
CoreSeen ==
  /\ step = 0 => \A w \in Batch!Workers : Answered(w) /\ Batch!Wire(w) = 5 =>
       /\ core = "lax" => verdict[w] = "ACCEPT"
       /\ core = "burns" => 1 \in used
  /\ step = 1 /\ core = "burns" => 1 \in used
  /\ step > 0 /\ checks[0] = "PASS" => core # "lax"
  /\ step > 1 /\ checks[1] = "PASS" => core # "burns"
  /\ step > 2 /\ checks[2] = "PASS" => core # "forgets"
  /\ round > 0 /\ status = "PASS" => core \notin {"lax", "burns", "forgets"}

\* The winners that an atomic core has had so far of the group in hand.
Tallied ==
  /\ \A w \in Batch!Workers : Answered(w) =>
       IF Batch!Wire(w) = 5 THEN verdict[w] = "REJECT" ELSE Batch!Wire(w) \in used
  /\ \A r \in (IF step = 0 THEN {0} ELSE {2, 3}) :
       Batch!Winners(r) = IF r \in used THEN 1 ELSE 0

\* An atomic core accepts each record once and nothing fails.
AtomicClean ==
  core = "atomic" /\ ~blame =>
    /\ status # "FAIL" /\ \A a \in 0..6 : checks[a] # "FAIL"
    /\ \A w \in Batch!Workers : pc[w] \in Begun => started[w] # 0
    /\ step \in {0, 3} => Tallied
    /\ step \in {1, 2} => 0 \in used
    /\ step \in {0, 1} => 1 \notin used
    /\ step \in {4, 5} => {2, 3} \subseteq used
    /\ step < 3 => used \cap {2, 3} = {}
    /\ step < 7 => 4 \notin used

\* What the two ways to answer a call have in common.
LEMMA OneAnswer ==
  ASSUME ExchangeAssumption, Shape, BatchShape, NEW w \in Batch!Workers,
         Batch!Decide(w) \/ Batch!Mark(w)
  PROVE  /\ step \in {0, 3} /\ pc[w] \in {"began", "checked"} /\ verdict[w] = "NONE"
         /\ pc' = [pc EXCEPT ![w] = "answered"]
         /\ UNCHANGED <<core, round, step, gate, now, started, finished, checks, overlap,
                        status, met, blame>>
         /\ \E v \in {"ACCEPT", "REJECT"} :
              /\ verdict' = [verdict EXCEPT ![w] = v] /\ Batch!Claim(Batch!Wire(w), v)
              /\ core = "lax" /\ Batch!Wire(w) = 5 => v = "ACCEPT"
              /\ core = "burns" /\ Batch!Wire(w) = 5 => v = "REJECT"
              /\ core = "atomic" =>
                   v = IF Batch!Wire(w) = 5 \/ Batch!Wire(w) \in used THEN "REJECT" ELSE "ACCEPT"
<1>1. CASE Batch!Decide(w)
  <2>1. /\ pc[w] = "began" /\ pc' = [pc EXCEPT ![w] = "answered"]
        /\ UNCHANGED <<core, round, step, gate, now, started, finished, checks, overlap,
                       status, met, blame>>
    BY <1>1 DEF Batch!Decide
  <2>2. step \in {0, 3} /\ verdict[w] = "NONE"
    BY <2>1, Resting DEF Shape
  <2>3. PICK v \in Batch!Answers(Batch!Wire(w),
                                 \E u \in Batch!Workers \ {w} : pc[u] \in Batch!Busy) :
          verdict' = [verdict EXCEPT ![w] = v] /\ Batch!Claim(Batch!Wire(w), v)
    BY <1>1 DEF Batch!Decide
  <2>4. /\ v \in {"ACCEPT", "REJECT"}
        /\ core = "lax" /\ Batch!Wire(w) = 5 => v = "ACCEPT"
        /\ core = "burns" /\ Batch!Wire(w) = 5 => v = "REJECT"
        /\ core = "atomic" =>
             v = IF Batch!Wire(w) = 5 \/ Batch!Wire(w) \in used THEN "REJECT" ELSE "ACCEPT"
    BY <2>3 DEF Batch!Answers, Batch!Damaged
  <2> QED BY <2>1, <2>2, <2>3, <2>4
<1>2. CASE Batch!Mark(w)
  <2>1. /\ pc[w] = "checked" /\ pc' = [pc EXCEPT ![w] = "answered"]
        /\ UNCHANGED <<core, round, step, gate, now, started, finished, checks, overlap,
                       status, met, blame>>
        /\ verdict' = [verdict EXCEPT ![w] = "ACCEPT"] /\ Batch!Claim(Batch!Wire(w), "ACCEPT")
    BY <1>2 DEF Batch!Mark
  <2>2. step \in {0, 3} /\ verdict[w] = "NONE" /\ core = "racy"
    BY <2>1, Resting DEF Shape, BatchShape
  <2> QED BY <2>1, <2>2
<1> QED BY <1>1, <1>2

\* The steps that are no answer and leave the round where it is.
Quiet(w) == Batch!Ready(w) \/ Batch!Begin(w) \/ Batch!Look(w) \/ Batch!End(w)

\* They note no verdict and take back no beginning.
LEMMA QuietSteps ==
  ASSUME Shape
  PROVE  /\ \A w \in Batch!Workers : Quiet(w) =>
              /\ UNCHANGED <<core, round, step, verdict, used, checks, status>>
              /\ \A v \in Batch!Workers : Answered(v)' <=> Answered(v)
              /\ \A v \in Batch!Workers : pc[v] \in Begun => pc'[v] \in Begun
         /\ Batch!OpenGate \/ Batch!Tick =>
              UNCHANGED <<core, round, step, pc, started, finished, verdict, used, checks,
                          status, blame>>
<1>1. ASSUME NEW w \in Batch!Workers, Batch!Ready(w)
      PROVE  /\ UNCHANGED <<core, round, step, verdict, used, checks, status>>
             /\ \A v \in Batch!Workers : Answered(v)' <=> Answered(v)
             /\ \A v \in Batch!Workers : pc[v] \in Begun => pc'[v] \in Begun
  BY <1>1 DEF Batch!Ready, Answered, Begun, Shape
<1>2. ASSUME NEW w \in Batch!Workers, Batch!Begin(w)
      PROVE  /\ UNCHANGED <<core, round, step, verdict, used, checks, status>>
             /\ \A v \in Batch!Workers : Answered(v)' <=> Answered(v)
             /\ \A v \in Batch!Workers : pc[v] \in Begun => pc'[v] \in Begun
  BY <1>2 DEF Batch!Begin, Answered, Begun, Shape
<1>3. ASSUME NEW w \in Batch!Workers, Batch!Look(w)
      PROVE  /\ UNCHANGED <<core, round, step, verdict, used, checks, status>>
             /\ \A v \in Batch!Workers : Answered(v)' <=> Answered(v)
             /\ \A v \in Batch!Workers : pc[v] \in Begun => pc'[v] \in Begun
  BY <1>3 DEF Batch!Look, Answered, Begun, Shape
<1>4. ASSUME NEW w \in Batch!Workers, Batch!End(w)
      PROVE  /\ UNCHANGED <<core, round, step, verdict, used, checks, status>>
             /\ \A v \in Batch!Workers : Answered(v)' <=> Answered(v)
             /\ \A v \in Batch!Workers : pc[v] \in Begun => pc'[v] \in Begun
  BY <1>4 DEF Batch!End, Answered, Begun, Shape
<1>5. Batch!OpenGate \/ Batch!Tick =>
        UNCHANGED <<core, round, step, pc, started, finished, verdict, used, checks,
                          status, blame>>
  BY DEF Batch!OpenGate, Batch!Tick
<1> QED BY <1>1, <1>2, <1>3, <1>4, <1>5 DEF Quiet

\* The actions of a batch, as these invariants tell them apart.
LEMMA BatchActions ==
  ASSUME Batch!Next
  PROVE  \/ \E w \in Batch!Workers : Quiet(w)
         \/ \E w \in Batch!Workers : Batch!Decide(w) \/ Batch!Mark(w)
         \/ Batch!OpenGate \/ Batch!Tick
         \/ Batch!JoinGroup \/ Batch!SingleOpen \/ Batch!CloseRound \/ Batch!BeginRound
         \/ \E s \in {"FAIL", "INCOMPLETE"} : Batch!Lose(s)
  BY DEF Batch!Next, Batch!Step, Batch!Main, Quiet

\* The end of a round, completed or lost.
LEMMA RoundEnds ==
  ASSUME BatchShape, Batch!CloseRound \/ \E s \in {"FAIL", "INCOMPLETE"} : Batch!Lose(s)
  PROVE  /\ core' = core /\ used' = used /\ step' \in {8, 9} /\ round' = round + 1
         /\ pc' = [w \in Batch!Workers |-> "new"]
         /\ status' \in Grades
         /\ \A a \in 0..6 : checks'[a] \in Grades \cup {"NOT_RUN"}
         /\ \/ Batch!CloseRound /\ checks' = checks /\ blame' = blame /\ step = 7
            \/ status' # "PASS" /\ checks' = Batch!NotRun /\ blame'
         /\ status' = "PASS" => status = "PASS" /\ \A a \in 0..6 : checks[a] = "PASS"
         /\ ~blame' /\ status # "FAIL" /\ (\A a \in 0..6 : checks[a] # "FAIL") =>
              status' # "FAIL"
<1>1. CASE Batch!CloseRound
  <2>1. status' = Batch!Fold(status, checks) /\ checks' = checks /\ blame' = blame /\ step = 7
    BY <1>1 DEF Batch!CloseRound, Batch!NextRound
  <2>2. /\ core' = core /\ used' = used /\ step' \in {8, 9} /\ round' = round + 1
        /\ pc' = [w \in Batch!Workers |-> "new"]
    BY <1>1 DEF Batch!CloseRound, Batch!NextRound, Batch!Refresh
  <2>3. Batch!Worse(status, "INCOMPLETE") =
          IF status = "FAIL" THEN "FAIL" ELSE "INCOMPLETE"
    BY DEF Batch!Worse
  <2>4. status \in Grades /\ \A a \in 0..6 : checks[a] \in Grades \cup {"NOT_RUN"}
    BY DEF BatchShape
  <2>5. Batch!Fold(status, checks) = "PASS" =>
          status = "PASS" /\ \A a \in 0..6 : checks[a] = "PASS"
    BY <2>3 DEF Batch!Fold
  <2>6. Batch!Fold(status, checks) \in Grades
    BY <2>3, <2>4 DEF Batch!Fold, Grades
  <2>7. status # "FAIL" /\ (\A a \in 0..6 : checks[a] # "FAIL") =>
          Batch!Fold(status, checks) # "FAIL"
    BY <2>3 DEF Batch!Fold
  <2> QED BY <1>1, <2>1, <2>2, <2>4, <2>5, <2>6, <2>7
<1>2. ASSUME NEW s \in {"FAIL", "INCOMPLETE"}, Batch!Lose(s)
      PROVE  /\ core' = core /\ used' = used /\ step' \in {8, 9} /\ round' = round + 1
             /\ pc' = [w \in Batch!Workers |-> "new"]
             /\ status' \in Grades /\ status' # "PASS" /\ checks' = Batch!NotRun /\ blame'
  <2>1. status' = Batch!Worse(status, s) /\ checks' = Batch!NotRun /\ blame' = TRUE
    BY <1>2 DEF Batch!Lose, Batch!NextRound
  <2>2. Batch!Worse(status, s) \in {"FAIL", "INCOMPLETE"}
    BY <1>2 DEF Batch!Worse
  <2>3. /\ core' = core /\ used' = used /\ step' \in {8, 9} /\ round' = round + 1
        /\ pc' = [w \in Batch!Workers |-> "new"]
    BY <1>2 DEF Batch!Lose, Batch!NextRound, Batch!Refresh
  <2> QED BY <2>1, <2>2, <2>3 DEF Grades
<1>3. \A a \in 0..6 : Batch!NotRun[a] = "NOT_RUN"
  BY DEF Batch!NotRun
<1> QED BY <1>1, <1>2, <1>3

\* The shape of a batch is kept.
LEMMA BatchShapeStep ==
  ASSUME ExchangeAssumption, Shape, Meetings, BatchShape, Batch!Next
  PROVE  BatchShape'
<1> USE DEF Batch!Workers
<1>1. ASSUME NEW w \in Batch!Workers, Quiet(w) PROVE BatchShape'
  <2>1. UNCHANGED <<core, round, step, checks, status>>
    BY <1>1, QuietSteps
  <2>2. ASSUME NEW v \in Batch!Workers, pc'[v] = "done" PROVE started'[v] <= finished'[v]
    <3>1. CASE Batch!End(w)
      <4>1. /\ pc[w] = "answered" /\ pc' = [pc EXCEPT ![w] = "done"]
            /\ finished' = [finished EXCEPT ![w] = now] /\ started' = started
        BY <3>1 DEF Batch!End
      <4>2. started[w] <= now
        BY <4>1 DEF Meetings, Begun
      <4> QED BY <2>2, <4>1, <4>2 DEF BatchShape, Shape
    <3>2. CASE Batch!Begin(w)
      <4>1. /\ pc[w] = "ready" /\ pc' = [pc EXCEPT ![w] = "began"]
            /\ started' = [started EXCEPT ![w] = now] /\ finished' = finished
        BY <3>2 DEF Batch!Begin
      <4> QED BY <2>2, <4>1 DEF BatchShape, Shape
    <3>3. CASE Batch!Ready(w) \/ Batch!Look(w)
      <4>1. started' = started /\ finished' = finished /\ (pc'[v] = "done" => pc[v] = "done")
        BY <3>3 DEF Batch!Ready, Batch!Look, Shape
      <4> QED BY <2>2, <4>1 DEF BatchShape
    <3> QED BY <1>1, <3>1, <3>2, <3>3 DEF Quiet
  <2>3. ASSUME NEW v \in Batch!Workers, pc'[v] = "checked" PROVE core = "racy"
    <3>1. CASE Batch!Look(w)
      BY <3>1 DEF Batch!Look
    <3>2. CASE Batch!Ready(w) \/ Batch!Begin(w) \/ Batch!End(w)
      <4>1. pc[v] = "checked"
        BY <2>3, <3>2 DEF Batch!Ready, Batch!Begin, Batch!End, Shape
      <4> QED BY <4>1 DEF BatchShape
    <3> QED BY <1>1, <3>1, <3>2 DEF Quiet
  <2> QED BY <2>1, <2>2, <2>3 DEF BatchShape
<1>2. ASSUME NEW w \in Batch!Workers, Batch!Decide(w) \/ Batch!Mark(w) PROVE BatchShape'
  <2>1. /\ pc' = [pc EXCEPT ![w] = "answered"]
        /\ UNCHANGED <<core, round, step, started, finished, checks, status>>
    BY <1>2, OneAnswer
  <2>2. \A v \in Batch!Workers : /\ pc'[v] = "done" => pc[v] = "done"
                                 /\ pc'[v] = "checked" => pc[v] = "checked"
    BY <2>1 DEF Shape
  <2> QED BY <2>1, <2>2 DEF BatchShape
<1>3. CASE Batch!OpenGate \/ Batch!Tick
  <2>1. UNCHANGED <<core, round, step, pc, started, finished, checks, status>>
    BY <1>3, QuietSteps
  <2> QED BY <2>1 DEF BatchShape
<1>4. CASE Batch!JoinGroup
  <2>1. /\ step \in {0, 3} /\ step' = step + 1 /\ UNCHANGED <<core, round, status>>
        /\ pc' = [w \in Batch!Workers |-> "new"]
        /\ checks' = [checks EXCEPT ![step] = Batch!JudgeParallel]
    BY <1>4 DEF Batch!JoinGroup, Batch!Refresh, Batch!Groups
  <2>2. Batch!JudgeParallel \in Grades
    BY DEF Batch!JudgeParallel, Grades
  <2>3. \A a \in 0..6 : checks'[a] \in Grades \cup {"NOT_RUN"}
    BY <2>1, <2>2 DEF BatchShape, Shape
  <2> QED BY <2>1, <2>3 DEF BatchShape
<1>5. CASE Batch!SingleOpen
  <2>1. /\ step \in {1, 2, 4, 5, 6} /\ step' = step + 1
        /\ UNCHANGED <<core, round, pc, started, finished, status>>
    BY <1>5 DEF Batch!SingleOpen, Batch!Asked, Batch!workers
  <2>2. \A a \in 0..6 : checks'[a] \in Grades \cup {"NOT_RUN"}
    BY <1>5 DEF Batch!SingleOpen, BatchShape, Shape, Grades
  <2> QED BY <2>1, <2>2 DEF BatchShape
<1>6. CASE Batch!CloseRound \/ \E s \in {"FAIL", "INCOMPLETE"} : Batch!Lose(s)
  <2>1. /\ core' = core /\ round' = round + 1 /\ status' \in Grades
        /\ pc' = [w \in Batch!Workers |-> "new"]
        /\ \A a \in 0..6 : checks'[a] \in Grades \cup {"NOT_RUN"}
    BY <1>6, RoundEnds
  <2>2. round' \in Nat /\ round' > 0
    BY <2>1 DEF BatchShape
  <2> QED BY <2>1, <2>2 DEF BatchShape
<1>7. CASE Batch!BeginRound
  <2>1. /\ step' = 0 /\ UNCHANGED <<core, round, pc, started, finished, status>>
        /\ \A a \in 0..6 : checks'[a] = "NOT_RUN"
    BY <1>7 DEF Batch!BeginRound, Batch!workers, Batch!NotRun
  <2> QED BY <2>1 DEF BatchShape
<1> QED BY <1>1, <1>2, <1>3, <1>4, <1>5, <1>6, <1>7, BatchActions

\* What the harness is to be blamed for stays on record.
LEMMA BlamedStep ==
  ASSUME ExchangeAssumption, Shape, BatchShape, Blamed, Batch!Next
  PROVE  Blamed'
<1> USE DEF Batch!Workers
<1>1. ASSUME NEW w \in Batch!Workers, Quiet(w) PROVE Blamed'
  <2>1. /\ UNCHANGED <<step, checks, status>>
        /\ \A v \in Batch!Workers : pc[v] \in Begun => pc'[v] \in Begun
    BY <1>1, QuietSteps
  <2>2. CASE Batch!Begin(w)
    <3>1. /\ step \in {0, 3} /\ pc[w] = "ready" /\ pc'[w] = "began" /\ started'[w] = now
          /\ started' = [started EXCEPT ![w] = now] /\ blame' = (blame \/ now = 0)
      BY <2>2 DEF Batch!Begin, Batch!Groups, Shape
    <3>2. \A v \in Batch!Workers : pc[v] \in Begun => started'[v] = started[v]
      BY <3>1 DEF Begun, Shape
    <3>3. now = 0 => \E v \in Batch!Workers : pc'[v] \in Begun /\ started'[v] = 0
      BY <3>1 DEF Begun
    <3>4. blame' => blame \/ now = 0
      BY <3>1
    <3> QED BY <2>1, <3>1, <3>2, <3>3, <3>4 DEF Blamed
  <2>3. CASE ~Batch!Begin(w)
    <3>1. started' = started /\ blame' = blame
      BY <1>1, <2>3 DEF Quiet, Batch!Ready, Batch!Look, Batch!End
    <3> QED BY <2>1, <3>1 DEF Blamed
  <2> QED BY <2>2, <2>3
<1>2. ASSUME NEW w \in Batch!Workers, Batch!Decide(w) \/ Batch!Mark(w) PROVE Blamed'
  <2>1. /\ pc' = [pc EXCEPT ![w] = "answered"] /\ UNCHANGED <<step, started, checks, status, blame>>
    BY <1>2, OneAnswer
  <2>2. \A v \in Batch!Workers : pc[v] \in Begun => pc'[v] \in Begun
    BY <2>1 DEF Shape, Begun
  <2> QED BY <2>1, <2>2 DEF Blamed
<1>3. CASE Batch!OpenGate \/ Batch!Tick
  <2>1. UNCHANGED <<step, pc, started, checks, status, blame>>
    BY <1>3, QuietSteps
  <2> QED BY <2>1 DEF Blamed
<1>4. CASE Batch!JoinGroup
  <2>1. /\ step \in {0, 3} /\ step' = step + 1 /\ UNCHANGED <<status, blame>>
        /\ checks' = [checks EXCEPT ![step] = Batch!JudgeParallel]
    BY <1>4 DEF Batch!JoinGroup, Batch!Groups
  <2>2. ASSUME NEW w \in Batch!Workers, started[w] = 0 PROVE checks'[step] = "FAIL"
    <3>1. Batch!JudgeParallel = "FAIL"
      BY <2>2 DEF Batch!JudgeParallel, Batch!Refused
    <3>2. step \in DOMAIN checks
      BY <2>1 DEF Shape
    <3> QED BY <2>1, <3>1, <3>2
  <2>3. step \in 0..6 /\ step < step' /\ step' \in 1..7
    BY <2>1
  <2>4. \A a \in 0..6 : a < step => checks'[a] = checks[a] /\ a < step'
    <3>1. \A a \in 0..6 : a # step => checks'[a] = checks[a]
      BY <2>1 DEF Shape
    <3> QED BY <2>1, <3>1
  <2>5. status # "PASS" \/ (\E w \in Batch!Workers : started[w] = 0)
          \/ (\E a \in 0..6 : a < step /\ step \in 1..7 /\ checks[a] = "FAIL") \/ ~blame
    BY DEF Blamed
  <2> QED BY <2>1, <2>2, <2>3, <2>4, <2>5 DEF Blamed
<1>5. CASE Batch!SingleOpen
  <2>1. /\ step \in {1, 2, 4, 5, 6} /\ step' = step + 1 /\ UNCHANGED <<status, blame>>
    BY <1>5 DEF Batch!SingleOpen, Batch!Asked
  <2>2. \A a \in 0..6 : a < step => checks'[a] = checks[a] /\ a < step'
    <3>1. \A a \in 0..6 : a # step => checks'[a] = checks[a]
      BY <1>5 DEF Batch!SingleOpen, Shape
    <3> QED BY <2>1, <3>1
  <2>3. step' \in 1..7 /\ step \in 1..7 /\ step \notin {0, 3}
    BY <2>1
  <2> QED BY <2>1, <2>2, <2>3 DEF Blamed
<1>6. CASE Batch!CloseRound \/ \E s \in {"FAIL", "INCOMPLETE"} : Batch!Lose(s)
  <2>1. CASE status' # "PASS"
    BY <2>1 DEF Blamed
  <2>2. CASE status' = "PASS"
    <3>1. /\ step = 7 /\ blame' = blame
          /\ status = "PASS" /\ \A a \in 0..6 : checks[a] = "PASS"
      BY <1>6, <2>2, RoundEnds
    <3> QED BY <3>1 DEF Blamed
  <2> QED BY <2>1, <2>2
<1>7. CASE Batch!BeginRound
  <2>1. step = 8 /\ UNCHANGED <<status, blame>>
    BY <1>7 DEF Batch!BeginRound
  <2> QED BY <2>1 DEF Blamed
<1> QED BY <1>1, <1>2, <1>3, <1>4, <1>5, <1>6, <1>7, BatchActions

\* The records that a receiver has accepted are never fewer within a round.
LEMMA UsedGrows ==
  ASSUME NEW r, NEW v, Batch!Claim(r, v)
  PROVE  /\ used \subseteq used' /\ used' \subseteq used \cup {r, 1}
         /\ v = "ACCEPT" => used' = used \cup {r}
         /\ v # "ACCEPT" /\ core = "burns" /\ r = 5 => 1 \in used'
         /\ v # "ACCEPT" /\ core # "burns" => used' = used
  BY DEF Batch!Claim, Batch!Damaged

\* A group that passes has no winner of the damaged copy.
LEMMA NoDamagedWinner ==
  ASSUME ExchangeAssumption, step = 0, Batch!JudgeParallel = "PASS", NEW w \in Batch!Workers,
         Batch!Wire(w) = 5
  PROVE  verdict[w] # "ACCEPT"
<1> DEFINE Won == {u \in Batch!Workers : Batch!Wire(u) = 5 /\ verdict[u] = "ACCEPT"}
<1>1. Batch!Winners(5) = 0
  BY DEF Batch!JudgeParallel, Batch!Damaged
<1>2. IsFiniteSet(Won)
  <2>1. IsFiniteSet(Batch!Workers)
    BY FS_Interval DEF Batch!Workers, ExchangeAssumption
  <2> QED BY <2>1, FS_Subset
<1>3. Cardinality(Won) = 0
  BY <1>1, SameCount DEF Batch!Winners
<1>4. Won = {}
  BY <1>2, <1>3, FS_EmptySet
<1> QED BY <1>4

\* Each fault is found by the check that is there to find it.
LEMMA CoreSeenStep ==
  ASSUME ExchangeAssumption, Shape, BatchShape, CoreSeen, Batch!Next
  PROVE  CoreSeen'
<1>0. \A w : step' = step => Batch!Wire(w)' = Batch!Wire(w)
  BY DEF Batch!Wire, Batch!Damaged
<1>1. ASSUME NEW w \in Batch!Workers, Quiet(w) PROVE CoreSeen'
  <2>1. /\ UNCHANGED <<core, round, step, verdict, used, checks, status>>
        /\ \A v \in Batch!Workers : Answered(v)' <=> Answered(v)
    BY <1>1, QuietSteps
  <2> QED BY <1>0, <2>1 DEF CoreSeen, Batch!Workers
<1>2. ASSUME NEW w \in Batch!Workers, Batch!Decide(w) \/ Batch!Mark(w) PROVE CoreSeen'
  <2>1. /\ step \in {0, 3} /\ pc' = [pc EXCEPT ![w] = "answered"]
        /\ UNCHANGED <<core, round, step, checks, status>>
    BY <1>2, OneAnswer
  <2>2. PICK v \in {"ACCEPT", "REJECT"} :
              /\ verdict' = [verdict EXCEPT ![w] = v] /\ Batch!Claim(Batch!Wire(w), v)
              /\ core = "lax" /\ Batch!Wire(w) = 5 => v = "ACCEPT"
              /\ core = "burns" /\ Batch!Wire(w) = 5 => v = "REJECT"
    BY <1>2, OneAnswer
  <2>3. used \subseteq used' /\ (core = "burns" /\ Batch!Wire(w) = 5 => 1 \in used')
    BY <2>2, UsedGrows
  <2>4. ASSUME NEW u \in Batch!Workers, Answered(u)', Batch!Wire(u) = 5, step = 0
        PROVE  (core = "lax" => verdict'[u] = "ACCEPT") /\ (core = "burns" => 1 \in used')
    <3>1. CASE u = w
      BY <2>2, <2>3, <2>4, <3>1 DEF Shape
    <3>2. CASE u # w
      <4>1. Answered(u) /\ verdict'[u] = verdict[u]
        BY <2>1, <2>2, <2>4, <3>2 DEF Answered, Shape
      <4> QED BY <2>3, <2>4, <4>1 DEF CoreSeen
    <3> QED BY <3>1, <3>2
  <2> QED BY <1>0, <2>1, <2>4 DEF CoreSeen, Batch!Workers
<1>3. CASE Batch!OpenGate \/ Batch!Tick
  <2>1. UNCHANGED <<core, round, step, pc, verdict, used, checks, status>>
    BY <1>3, QuietSteps
  <2> QED BY <1>0, <2>1 DEF CoreSeen, Answered, Batch!Workers
<1>4. CASE Batch!JoinGroup
  <2>1. /\ step \in {0, 3} /\ step' = step + 1 /\ UNCHANGED <<core, round, used, status>>
        /\ checks' = [checks EXCEPT ![step] = Batch!JudgeParallel]
        /\ \A w \in Batch!Workers : Answered(w)
    BY <1>4 DEF Batch!JoinGroup, Batch!Groups, Answered
  <2>2. CASE step = 0
    <3>1. PICK w \in Batch!Workers : Batch!Wire(w) = 5
      BY <2>2, BothCopies
    <3>2. core = "lax" => verdict[w] = "ACCEPT"
      BY <2>1, <2>2, <3>1 DEF CoreSeen
    <3>3. core = "burns" => 1 \in used
      BY <2>1, <2>2, <3>1 DEF CoreSeen
    <3>4. checks'[0] = "PASS" => core # "lax"
      <4>1. checks'[0] = Batch!JudgeParallel
        BY <2>1, <2>2 DEF Shape
      <4> QED BY <2>2, <3>1, <3>2, <4>1, NoDamagedWinner
    <3> QED BY <2>1, <2>2, <3>3, <3>4 DEF CoreSeen
  <2>3. CASE step = 3
    <3>1. \A a \in 0..2 : checks'[a] = checks[a]
      BY <2>1, <2>3 DEF Shape
    <3> QED BY <2>1, <2>3, <3>1 DEF CoreSeen
  <2> QED BY <2>1, <2>2, <2>3
<1>5. CASE Batch!SingleOpen
  <2>1. /\ step \in {1, 2, 4, 5, 6} /\ step' = step + 1 /\ UNCHANGED <<core, round, status>>
        /\ \A w \in Batch!Workers : pc'[w] = "new"
    BY <1>5, Resting DEF Batch!SingleOpen, Batch!Asked, Batch!workers
  <2>2. PICK v \in Batch!Answers(Batch!Asked[step], FALSE) :
          checks' = [checks EXCEPT ![step] = IF v = Batch!Wanted(step) THEN "PASS" ELSE "FAIL"]
    BY <1>5 DEF Batch!SingleOpen
  <2>3. \A a \in 0..6 : a # step => checks'[a] = checks[a]
    BY <2>2 DEF Shape
  <2>4. step = 1 /\ checks'[1] = "PASS" => core # "burns"
    <3>1. SUFFICES ASSUME step = 1, core = "burns" PROVE checks'[1] # "PASS"
      OBVIOUS
    <3>2. 1 \in used /\ Batch!Asked[step] = 1
      BY <3>1 DEF CoreSeen, Batch!Asked
    <3>3. v = "REJECT" /\ Batch!Wanted(step) = "ACCEPT"
      BY <2>2, <3>1, <3>2 DEF Batch!Answers, Batch!Wanted, Batch!Damaged
    <3> QED BY <2>2, <3>1, <3>3 DEF Shape
  <2>5. step = 2 /\ checks'[2] = "PASS" => core # "forgets"
    <3>1. SUFFICES ASSUME step = 2, core = "forgets" PROVE checks'[2] # "PASS"
      OBVIOUS
    <3>2. Batch!Asked[step] = 0
      BY <3>1 DEF Batch!Asked
    <3>3. v = "ACCEPT" /\ Batch!Wanted(step) = "REJECT"
      BY <2>2, <3>1, <3>2 DEF Batch!Answers, Batch!Wanted, Batch!Damaged
    <3> QED BY <2>2, <3>1, <3>3 DEF Shape
  <2>6. CASE step = 1
    BY <2>1, <2>3, <2>4, <2>6 DEF CoreSeen
  <2>7. CASE step = 2
    BY <2>1, <2>3, <2>5, <2>7 DEF CoreSeen
  <2>8. CASE step \in {4, 5, 6}
    <3>1. \A a \in 0..2 : checks'[a] = checks[a]
      BY <2>3, <2>8
    <3> QED BY <2>1, <2>8, <3>1 DEF CoreSeen
  <2> QED BY <2>1, <2>6, <2>7, <2>8
<1>6. CASE Batch!CloseRound \/ \E s \in {"FAIL", "INCOMPLETE"} : Batch!Lose(s)
  <2>1. core' = core /\ step' \in {8, 9}
        /\ ((checks' = checks /\ step = 7) \/ checks' = Batch!NotRun)
        /\ (status' = "PASS" => checks' = checks /\ step = 7 /\ \A a \in 0..6 : checks[a] = "PASS")
    BY <1>6, RoundEnds
  <2>2. \A a \in 0..6 : Batch!NotRun[a] # "PASS"
    BY DEF Batch!NotRun
  <2>3. /\ checks'[0] = "PASS" => core # "lax"
        /\ checks'[1] = "PASS" => core # "burns"
        /\ checks'[2] = "PASS" => core # "forgets"
    BY <2>1, <2>2 DEF CoreSeen
  <2>4. status' = "PASS" => core \notin {"lax", "burns", "forgets"}
    BY <2>1, <2>3
  <2> QED BY <2>1, <2>3, <2>4 DEF CoreSeen
<1>7. CASE Batch!BeginRound
  <2>1. /\ step = 8 /\ step' = 0 /\ UNCHANGED <<core, round, pc, status>>
        /\ \A a \in 0..6 : checks'[a] = "NOT_RUN"
    BY <1>7 DEF Batch!BeginRound, Batch!workers, Batch!NotRun
  <2>2. \A w \in Batch!Workers : ~Answered(w)'
    BY <2>1, Resting DEF Answered
  <2> QED BY <2>1, <2>2 DEF CoreSeen, Batch!Workers
<1> QED BY <1>1, <1>2, <1>3, <1>4, <1>5, <1>6, <1>7, BatchActions

\* An answer of an atomic core keeps the winners in step with its records.
LEMMA AnswerTallied ==
  ASSUME ExchangeAssumption, Shape, BatchShape, core = "atomic", Tallied,
         NEW w \in Batch!Workers, Batch!Decide(w) \/ Batch!Mark(w)
  PROVE  /\ Tallied'
         /\ step = 0 => used' \subseteq used \cup {0}
         /\ step = 3 => used' \subseteq used \cup {2, 3}
         /\ used \subseteq used'
<1>1. /\ step \in {0, 3} /\ verdict[w] = "NONE" /\ pc' = [pc EXCEPT ![w] = "answered"]
      /\ core' = core /\ step' = step
  BY OneAnswer
<1>2. PICK v \in {"ACCEPT", "REJECT"} :
        /\ verdict' = [verdict EXCEPT ![w] = v] /\ Batch!Claim(Batch!Wire(w), v)
        /\ v = IF Batch!Wire(w) = 5 \/ Batch!Wire(w) \in used THEN "REJECT" ELSE "ACCEPT"
  BY OneAnswer
<1>3. used' = IF v = "ACCEPT" THEN used \cup {Batch!Wire(w)} ELSE used
  BY <1>2, UsedGrows
<1>4. \A r : Batch!Winners(r) \in Nat
             /\ Batch!Winners(r)' =
                  Batch!Winners(r) + (IF v = "ACCEPT" /\ r = Batch!Wire(w) THEN 1 ELSE 0)
  BY <1>1, <1>2, OneMore
<1>5. \A u : Batch!Wire(u)' = Batch!Wire(u)
  BY <1>1 DEF Batch!Wire, Batch!Damaged
<1>6. /\ step = 0 => Batch!Wire(w) \in {0, 5}
      /\ step = 3 => Batch!Wire(w) \in {2, 3}
  BY WiresOf
<1>7. ASSUME NEW u \in Batch!Workers, Answered(u)'
      PROVE  IF Batch!Wire(u) = 5 THEN verdict'[u] = "REJECT" ELSE Batch!Wire(u) \in used'
  <2>1. CASE u = w
    BY <1>2, <1>3, <2>1 DEF Shape
  <2>2. CASE u # w
    <3>1. Answered(u) /\ verdict'[u] = verdict[u]
      BY <1>1, <1>2, <1>7, <2>2 DEF Answered, Shape
    <3> QED BY <1>3, <3>1 DEF Tallied
  <2> QED BY <2>1, <2>2
<1>8. ASSUME NEW r \in (IF step = 0 THEN {0} ELSE {2, 3})
      PROVE  Batch!Winners(r)' = IF r \in used' THEN 1 ELSE 0
  <2>1. Batch!Winners(r) = IF r \in used THEN 1 ELSE 0
    BY <1>8 DEF Tallied
  <2>2. CASE v = "ACCEPT" /\ r = Batch!Wire(w)
    <3>1. r \notin used /\ r \in used'
      BY <1>2, <1>3, <2>2
    <3> QED BY <1>4, <2>1, <2>2, <3>1
  <2>3. CASE ~(v = "ACCEPT" /\ r = Batch!Wire(w))
    <3>1. r \in used' <=> r \in used
      BY <1>3, <2>3
    <3> QED BY <1>4, <2>1, <2>3, <3>1
  <2> QED BY <2>2, <2>3
<1>9. used \subseteq used'
  BY <1>3
<1>10. /\ step = 0 => used' \subseteq used \cup {0}
       /\ step = 3 => used' \subseteq used \cup {2, 3}
  BY <1>2, <1>3, <1>6
<1>11. Tallied'
  <2>1. \A u \in Batch!Workers : Answered(u)' =>
          IF Batch!Wire(u)' = 5 THEN verdict'[u] = "REJECT" ELSE Batch!Wire(u)' \in used'
    BY <1>5, <1>7
  <2>2. \A r \in (IF step' = 0 THEN {0} ELSE {2, 3}) :
          Batch!Winners(r)' = IF r \in used' THEN 1 ELSE 0
    BY <1>1, <1>8
  <2> QED BY <2>1, <2>2 DEF Tallied, Batch!Workers
<1> QED BY <1>9, <1>10, <1>11

\* A group of an atomic core has its winners, and is judged no failure.
LEMMA GroupTallied ==
  ASSUME ExchangeAssumption, Shape, BatchShape, core = "atomic", ~blame, AtomicClean,
         step \in {0, 3}, \A w \in Batch!Workers : pc[w] = "done"
  PROVE  /\ Batch!JudgeParallel # "FAIL"
         /\ step = 0 => 0 \in used
         /\ step = 3 => {2, 3} \subseteq used
<1>1. \A w \in Batch!Workers : ~Batch!Refused(w)
  <2>1. TAKE w \in Batch!Workers
  <2>2. started[w] # 0 /\ started[w] <= finished[w]
    BY DEF AtomicClean, Begun, BatchShape
  <2>3. started[w] \in Nat /\ finished[w] \in Nat
    BY DEF Shape
  <2> QED BY <2>2, <2>3 DEF Batch!Refused
<1>2. /\ \A w \in Batch!Workers :
           IF Batch!Wire(w) = 5 THEN verdict[w] = "REJECT" ELSE Batch!Wire(w) \in used
      /\ \A r \in (IF step = 0 THEN {0} ELSE {2, 3}) :
           Batch!Winners(r) = IF r \in used THEN 1 ELSE 0
  BY DEF AtomicClean, Tallied, Answered
<1>3. /\ step = 0 => 0 \in used
      /\ step = 3 => {2, 3} \subseteq used
  BY <1>2, BothCopies
<1>4. Batch!Winners(5) = 0
  <2>1. {w \in Batch!Workers : Batch!Wire(w) = 5 /\ verdict[w] = "ACCEPT"} = {}
    BY <1>2
  <2> QED BY <2>1, SameCount, FS_EmptySet DEF Batch!Winners
<1>5. \A w \in Batch!Workers :
        Batch!Winners(Batch!Wire(w)) = IF Batch!Wire(w) = 5 THEN 0 ELSE 1
  <2>1. TAKE w \in Batch!Workers
  <2>2. CASE Batch!Wire(w) = 5
    BY <1>4, <2>2
  <2>3. CASE Batch!Wire(w) # 5
    <3>1. Batch!Wire(w) \in (IF step = 0 THEN {0} ELSE {2, 3}) /\ Batch!Wire(w) \in used
      BY <1>2, <2>3, WiresOf
    <3> QED BY <1>2, <2>3, <3>1
  <2> QED BY <2>2, <2>3
<1> QED BY <1>1, <1>3, <1>5 DEF Batch!JudgeParallel, Batch!Damaged

\* An atomic core passes every check, in every order of its workers.
LEMMA AtomicCleanStep ==
  ASSUME ExchangeAssumption, Shape, BatchShape, AtomicClean, Batch!Next
  PROVE  AtomicClean'
<1>0. SUFFICES ASSUME core' = "atomic", ~blame' PROVE AtomicClean'
  BY DEF AtomicClean
<1>1. ASSUME NEW w \in Batch!Workers, Quiet(w) PROVE AtomicClean'
  <2>1. /\ UNCHANGED <<core, round, step, verdict, used, checks, status>>
        /\ \A v \in Batch!Workers : Answered(v)' <=> Answered(v)
    BY <1>1, QuietSteps
  <2>2. ~blame /\ \A v \in Batch!Workers : pc'[v] \in Begun => started'[v] # 0
    <3>1. CASE Batch!Begin(w)
      <4>1. /\ pc' = [pc EXCEPT ![w] = "began"] /\ started' = [started EXCEPT ![w] = now]
            /\ blame' = (blame \/ now = 0)
        BY <3>1 DEF Batch!Begin
      <4>2. ~blame /\ now # 0
        BY <1>0, <4>1
      <4> QED BY <1>0, <2>1, <4>1, <4>2 DEF AtomicClean, Shape, Begun
    <3>2. CASE Batch!Ready(w)
      <4>1. pc' = [pc EXCEPT ![w] = "ready"] /\ started' = started /\ blame' = blame
        BY <3>2 DEF Batch!Ready
      <4> QED BY <1>0, <2>1, <4>1 DEF AtomicClean, Shape, Begun
    <3>3. CASE Batch!Look(w) \/ Batch!End(w)
      <4>1. /\ pc[w] \in Begun /\ started' = started /\ blame' = blame
            /\ \A v \in Batch!Workers : v # w => pc'[v] = pc[v]
        BY <3>3 DEF Batch!Look, Batch!End, Begun, Shape
      <4> QED BY <1>0, <2>1, <4>1 DEF AtomicClean
    <3> QED BY <1>1, <3>1, <3>2, <3>3 DEF Quiet
  <2>3. step \in {0, 3} => Tallied'
    <3>1. \A r : Batch!Winners(r)' = Batch!Winners(r) /\ Batch!Wire(r)' = Batch!Wire(r)
      BY <2>1 DEF Batch!Winners, Batch!Wire, Batch!Damaged, Batch!Workers
    <3>2. step \in {0, 3} => Tallied
      BY <1>0, <2>1, <2>2 DEF AtomicClean
    <3> QED BY <2>1, <3>1, <3>2 DEF Tallied, Batch!Workers
  <2> QED BY <1>0, <2>1, <2>2, <2>3 DEF AtomicClean, Batch!Workers
<1>2. ASSUME NEW w \in Batch!Workers, Batch!Decide(w) \/ Batch!Mark(w) PROVE AtomicClean'
  <2>1. /\ step \in {0, 3} /\ pc[w] \in Begun /\ pc' = [pc EXCEPT ![w] = "answered"]
        /\ UNCHANGED <<core, step, started, checks, status, blame>>
    BY <1>2, OneAnswer DEF Begun
  <2>2. /\ core = "atomic" /\ ~blame /\ Tallied
        /\ status # "FAIL" /\ \A a \in 0..6 : checks[a] # "FAIL"
    BY <1>0, <2>1 DEF AtomicClean
  <2>3. /\ Tallied' /\ used \subseteq used'
        /\ step = 0 => used' \subseteq used \cup {0}
        /\ step = 3 => used' \subseteq used \cup {2, 3}
    BY <1>2, <2>2, AnswerTallied
  <2>4. \A v \in Batch!Workers : pc'[v] \in Begun => started'[v] # 0
    BY <2>1, <2>2 DEF AtomicClean, Shape
  <2>5. /\ step = 0 => 1 \notin used' /\ used' \cap {2, 3} = {} /\ 4 \notin used'
        /\ step = 3 => 4 \notin used'
    BY <2>2, <2>3 DEF AtomicClean
  <2> QED BY <2>1, <2>2, <2>3, <2>4, <2>5 DEF AtomicClean, Batch!Workers
<1>3. CASE Batch!OpenGate \/ Batch!Tick
  <2>1. UNCHANGED <<core, step, pc, started, verdict, used, checks, status, blame>>
    BY <1>3, QuietSteps
  <2>2. \A r : Batch!Winners(r)' = Batch!Winners(r) /\ Batch!Wire(r)' = Batch!Wire(r)
    BY <2>1 DEF Batch!Winners, Batch!Wire, Batch!Damaged, Batch!Workers
  <2>3. Tallied' <=> Tallied
    BY <2>1, <2>2 DEF Tallied, Answered, Batch!Workers
  <2> QED BY <2>1, <2>3 DEF AtomicClean, Batch!Workers
<1>4. CASE Batch!JoinGroup
  <2>1. /\ step \in {0, 3} /\ step' = step + 1 /\ UNCHANGED <<core, used, status, blame>>
        /\ checks' = [checks EXCEPT ![step] = Batch!JudgeParallel]
        /\ pc' = [w \in Batch!Workers |-> "new"]
        /\ \A w \in Batch!Workers : pc[w] = "done"
    BY <1>4 DEF Batch!JoinGroup, Batch!Groups, Batch!Refresh
  <2>2. core = "atomic" /\ ~blame
    BY <1>0, <2>1
  <2>3. /\ Batch!JudgeParallel # "FAIL"
        /\ step = 0 => 0 \in used
        /\ step = 3 => {2, 3} \subseteq used
    BY <2>1, <2>2, GroupTallied
  <2>4. status' # "FAIL" /\ \A a \in 0..6 : checks'[a] # "FAIL"
    BY <2>1, <2>2, <2>3 DEF AtomicClean, Shape
  <2>5. \A w \in Batch!Workers : pc'[w] \notin Begun
    BY <2>1 DEF Begun
  <2>6. CASE step = 0
    <3>1. 1 \notin used /\ used \cap {2, 3} = {} /\ 4 \notin used
      BY <2>2, <2>6 DEF AtomicClean
    <3> QED BY <2>1, <2>3, <2>4, <2>5, <2>6, <3>1 DEF AtomicClean, Batch!Workers
  <2>7. CASE step = 3
    <3>1. 4 \notin used
      BY <2>2, <2>7 DEF AtomicClean
    <3> QED BY <2>1, <2>3, <2>4, <2>5, <2>7, <3>1 DEF AtomicClean, Batch!Workers
  <2> QED BY <2>1, <2>6, <2>7
<1>5. CASE Batch!SingleOpen
  <2>1. /\ step \in {1, 2, 4, 5, 6} /\ step' = step + 1
        /\ UNCHANGED <<core, pc, verdict, status, blame>>
        /\ \A w \in Batch!Workers : pc'[w] = "new" /\ verdict'[w] = "NONE"
    BY <1>5, Resting DEF Batch!SingleOpen, Batch!Asked, Batch!workers
  <2>2. PICK v \in Batch!Answers(Batch!Asked[step], FALSE) :
          /\ Batch!Claim(Batch!Asked[step], v)
          /\ checks' = [checks EXCEPT ![step] = IF v = Batch!Wanted(step) THEN "PASS" ELSE "FAIL"]
    BY <1>5 DEF Batch!SingleOpen
  <2>3. core = "atomic" /\ ~blame
    BY <1>0, <2>1
  <2>4. /\ Batch!Asked[1] = 1 /\ Batch!Asked[2] = 0 /\ Batch!Asked[4] = 2
        /\ Batch!Asked[5] = 3 /\ Batch!Asked[6] = 4
    BY DEF Batch!Asked
  <2>5. v = IF Batch!Asked[step] \in used THEN "REJECT" ELSE "ACCEPT"
    <3>1. Batch!Asked[step] # 5
      BY <2>1, <2>4
    <3> QED BY <2>2, <2>3, <3>1 DEF Batch!Answers, Batch!Damaged
  <2>6. /\ step \in {1, 2} => 0 \in used
        /\ step = 1 => 1 \notin used
        /\ step \in {4, 5} => {2, 3} \subseteq used
        /\ step \in {1, 2} => used \cap {2, 3} = {}
        /\ 4 \notin used
    BY <2>1, <2>3 DEF AtomicClean
  <2>7. v = Batch!Wanted(step)
    BY <2>1, <2>4, <2>5, <2>6 DEF Batch!Wanted
  <2>8. status' # "FAIL" /\ \A a \in 0..6 : checks'[a] # "FAIL"
    BY <2>1, <2>2, <2>3, <2>7 DEF AtomicClean, Shape
  <2>9. used' = IF v = "ACCEPT" THEN used \cup {Batch!Asked[step]} ELSE used
    BY <2>2, <2>3, <2>5, UsedGrows
  <2>10. \A w \in Batch!Workers : pc'[w] \notin Begun /\ ~Answered(w)'
    BY <2>1 DEF Begun, Answered
  <2>11. CASE step = 2
    <3>1. used' = used /\ step' = 3
      BY <2>1, <2>4, <2>5, <2>6, <2>9, <2>11
    <3>2. \A r : Batch!Winners(r)' = 0
      <4>1. \A r : {w \in Batch!Workers : Batch!Wire(w)' = r /\ verdict'[w] = "ACCEPT"} = {}
        BY <2>1
      <4> QED BY <4>1, SameCount, FS_EmptySet DEF Batch!Winners, Batch!Workers
    <3>3. Tallied'
      BY <2>6, <2>10, <2>11, <3>1, <3>2 DEF Tallied, Batch!Workers
    <3> QED BY <2>6, <2>8, <2>10, <3>1, <3>3 DEF AtomicClean, Batch!Workers
  <2>12. CASE step = 1
    <3>1. used' = used \cup {1} /\ step' = 2
      BY <2>1, <2>4, <2>5, <2>6, <2>9, <2>12
    <3> QED BY <2>6, <2>8, <2>10, <2>12, <3>1 DEF AtomicClean, Batch!Workers
  <2>13. CASE step \in {4, 5}
    <3>1. used' = used /\ step' \in {5, 6} /\ (step' = 5 => step = 4)
      BY <2>1, <2>4, <2>5, <2>6, <2>9, <2>13
    <3> QED BY <2>6, <2>8, <2>10, <2>13, <3>1 DEF AtomicClean, Batch!Workers
  <2>14. CASE step = 6
    <3>1. step' = 7
      BY <2>1, <2>14
    <3> QED BY <2>8, <2>10, <3>1 DEF AtomicClean, Batch!Workers
  <2> QED BY <2>1, <2>11, <2>12, <2>13, <2>14
<1>6. CASE Batch!CloseRound \/ \E s \in {"FAIL", "INCOMPLETE"} : Batch!Lose(s)
  <2>1. /\ core' = core /\ step' \in {8, 9} /\ checks' = checks /\ blame' = blame
        /\ pc' = [w \in Batch!Workers |-> "new"]
        /\ status # "FAIL" /\ (\A a \in 0..6 : checks[a] # "FAIL") => status' # "FAIL"
    BY <1>0, <1>6, RoundEnds
  <2>2. status # "FAIL" /\ (\A a \in 0..6 : checks[a] # "FAIL")
    BY <1>0, <2>1 DEF AtomicClean
  <2>3. \A w \in Batch!Workers : pc'[w] \notin Begun
    BY <2>1 DEF Begun
  <2> QED BY <2>1, <2>2, <2>3 DEF AtomicClean, Batch!Workers
<1>7. CASE Batch!BeginRound
  <2>1. /\ step = 8 /\ step' = 0 /\ used' = {} /\ UNCHANGED <<core, pc, verdict, status, blame>>
        /\ \A a \in 0..6 : checks'[a] = "NOT_RUN"
        /\ \A w \in Batch!Workers : pc'[w] = "new" /\ verdict'[w] = "NONE"
    BY <1>7, Resting DEF Batch!BeginRound, Batch!workers, Batch!NotRun
  <2>2. \A w \in Batch!Workers : pc'[w] \notin Begun /\ ~Answered(w)'
    BY <2>1 DEF Begun, Answered
  <2>3. \A r : Batch!Winners(r)' = 0
    <3>1. \A r : {w \in Batch!Workers : Batch!Wire(w)' = r /\ verdict'[w] = "ACCEPT"} = {}
      BY <2>1
    <3> QED BY <3>1, SameCount, FS_EmptySet DEF Batch!Winners, Batch!Workers
  <2>4. Tallied'
    BY <2>1, <2>2, <2>3 DEF Tallied, Batch!Workers
  <2>5. status' # "FAIL"
    BY <1>0, <2>1 DEF AtomicClean
  <2> QED BY <2>1, <2>2, <2>4, <2>5 DEF AtomicClean, Batch!Workers
<1> QED BY <1>1, <1>2, <1>3, <1>4, <1>5, <1>6, <1>7, BatchActions

BatchInv == BatchShape /\ Blamed /\ CoreSeen /\ AtomicClean

\* A new batch is clean, and every step keeps what is known of it.
LEMMA BatchInit ==
  ASSUME ExchangeAssumption, Init PROVE BatchInv
<1>1. /\ core \in Cores /\ round = 0 /\ step = 0 /\ used = {} /\ status = "PASS" /\ ~blame
      /\ pc = [w \in Batch!Workers |-> "new"] /\ verdict = [w \in Batch!Workers |-> "NONE"]
      /\ checks = [a \in 0..6 |-> "NOT_RUN"]
  BY DEF Init, Batch!Init, Batch!Fresh, Batch!NotRun
<1>2. \A w \in Batch!Workers : pc[w] \notin Begun /\ ~Answered(w) /\ pc[w] = "new"
  BY <1>1 DEF Begun, Answered
<1>3. Tallied
  <2>1. \A r : Batch!Winners(r) = 0
    BY <1>1, NoneYet
  <2> QED BY <1>1, <1>2, <2>1 DEF Tallied
<1>4. BatchShape /\ Blamed /\ CoreSeen
  BY <1>1, <1>2 DEF BatchShape, Blamed, CoreSeen, Grades
<1>5. AtomicClean
  BY <1>1, <1>2, <1>3 DEF AtomicClean
<1> QED BY <1>4, <1>5 DEF BatchInv

LEMMA BatchStep ==
  ASSUME ExchangeAssumption, RoundInv, BatchInv, [Next]_vars PROVE BatchInv'
<1>1. CASE UNCHANGED batchVars
  <2>1. UNCHANGED <<core, round, step, pc, now, started, finished, verdict, used, checks,
                    status, wins, blame>>
    BY <1>1 DEF batchVars
  <2>2. \A r : Batch!Winners(r)' = Batch!Winners(r) /\ Batch!Wire(r)' = Batch!Wire(r)
    BY <2>1 DEF Batch!Winners, Batch!Wire, Batch!Damaged, Batch!Workers
  <2>3. (\A w : Answered(w)' <=> Answered(w)) /\ (Tallied' <=> Tallied)
    BY <2>1, <2>2 DEF Answered, Tallied, Batch!Workers
  <2>4. BatchShape' /\ Blamed'
    BY <2>1 DEF BatchInv, BatchShape, Blamed, Batch!Workers
  <2>5. CoreSeen'
    BY <2>1, <2>2, <2>3 DEF BatchInv, CoreSeen, Batch!Workers
  <2>6. AtomicClean'
    BY <2>1, <2>3 DEF BatchInv, AtomicClean, Batch!Workers
  <2> QED BY <2>4, <2>5, <2>6 DEF BatchInv
<1>2. CASE Batch!Next
  BY <1>2, BatchShapeStep, BlamedStep, CoreSeenStep, AtomicCleanStep DEF RoundInv, BatchInv
<1>3. UNCHANGED batchVars \/ Batch!Next
  BY DEF Next, Refuse, Exchanging, Exit, vars
<1> QED BY <1>1, <1>2, <1>3

\* The exit code reports what the exchange came to.

-----------------------------------------------------------------------------
(* The exit code.                                                          *)

ExitInv ==
  /\ code \in {0 - 1, 0, 1, 2, 3}
  /\ mode # "concurrent" => ~blame
  /\ code \in {0, 1} =>
       /\ distinct /\ IF mode = "concurrent" THEN step = 9 ELSE trial = 4
       /\ Outcome = IF code = 0 THEN "PASS" ELSE "FAIL"

LEMMA ExitStep ==
  ASSUME TrialInv, BatchInv, ExitInv, [Next]_vars PROVE ExitInv'
<1>1. CASE UNCHANGED vars
  BY <1>1 DEF vars, trialVars, batchVars, ExitInv, Outcome
<1>2. CASE Refuse
  BY <1>2 DEF Refuse, trialVars, batchVars, ExitInv
<1>3. CASE Exchanging
  <2>1. code' = 0 - 1 /\ mode' = mode /\ (mode # "concurrent" => blame' = blame)
    BY <1>3 DEF Exchanging, Running, trialVars, batchVars, Trials!Next, Trials!Produce,
       Trials!Check, Trials!CheckStep, Trials!FreshControl, Trials!Receive, Trials!Fold,
       Trials!Expire
  <2> QED BY <2>1 DEF ExitInv
<1>4. CASE Exit
  <2>1. /\ distinct /\ IF mode = "concurrent" THEN step = 9 ELSE trial = 4
        /\ code' \in {2, CASE Outcome = "FAIL" -> 1 [] Outcome = "INCOMPLETE" -> 3 [] OTHER -> 0}
        /\ UNCHANGED <<mode, trial, report, step, status, blame, distinct>>
    BY <1>4 DEF Exit, trialVars, batchVars
  <2>2. Outcome \in Grades /\ Outcome' = Outcome
    BY <2>1 DEF Outcome, TrialInv, TrialShape, BatchInv, BatchShape
  <2>3. code' \in {2, 1, 3, 0} /\ (code' = 1 => Outcome = "FAIL") /\ (code' = 0 => Outcome = "PASS")
    BY <2>1, <2>2 DEF Grades
  <2> QED BY <2>1, <2>2, <2>3 DEF ExitInv
<1> QED BY <1>1, <1>2, <1>3, <1>4 DEF Next

\* The inductive invariant of the program.
ExchangeInv == TrialInv /\ RoundInv /\ BatchInv /\ ExitInv

LEMMA ExchangeInvariance == Spec => []ExchangeInv
<1>1. Init => ExchangeInv
  <2>1. Init => ExitInv
    BY DEF Init, Batch!Init, ExitInv
  <2> QED BY <2>1, ExchangeAssumption, TrialInit, RoundInit, BatchInit DEF ExchangeInv
<1>2. ExchangeInv /\ [Next]_vars => ExchangeInv'
  BY ExchangeAssumption, TrialStep, RoundStep, BatchStep, ExitStep DEF ExchangeInv
<1> QED BY <1>1, <1>2, PTL DEF Spec

(***************************************************************************)
(* Exit code 0 is earned, for all pairs of cores, for every number of      *)
(* workers and rounds, and whatever is lost, late or out of order          *)
(* (exchange.go:112-179, replay_exchange.go:59-158,                        *)
(* concurrent_exchange.go:166-222, main.go:69-78).                         *)
(***************************************************************************)
THEOREM CodeZeroEarned == Spec => []ExitZeroIsEarned
<1>1. ExchangeInv => ExitZeroIsEarned
  <2>1. SUFFICES ASSUME ExchangeInv, code = 0
        PROVE  distinct /\ ~lost /\ ~blame /\ ~expired /\ Present \cap Sought = {}
    BY DEF ExitZeroIsEarned
  <2>2. /\ distinct /\ IF mode = "concurrent" THEN step = 9 ELSE trial = 4
        /\ Outcome = "PASS" /\ (mode # "concurrent" => ~blame)
    BY <2>1 DEF ExchangeInv, ExitInv
  <2>3. mode \in Modes
    BY <2>1 DEF ExchangeInv, TrialInv, TrialShape
  <2>4. CASE mode = "concurrent"
    <3>1. step = 9 /\ status = "PASS" /\ round > 0
      BY <2>1, <2>2, <2>4 DEF Outcome, ExchangeInv, BatchInv, BatchShape
    <3>2. ~blame
      BY <2>1, <3>1 DEF ExchangeInv, BatchInv, Blamed
    <3>3. core \notin {"lax", "burns", "forgets"}
      BY <2>1, <3>1 DEF ExchangeInv, BatchInv, CoreSeen
    <3>4. ~lost /\ ~expired
      BY <2>1, <2>4 DEF ExchangeInv, TrialInv, TrialShape
    <3> QED BY <2>2, <2>4, <3>2, <3>3, <3>4 DEF Present, Sought
  <2>5. ASSUME \A t \in 0..3 : Shown(t)
        PROVE  /\ {kind[0], kind[1]} \cap {"liar", "sealed", "deaf", "mumbles"} = {}
               /\ mode = "plain" => {kind[0], kind[1]} \cap Trials!Bound = {}
               /\ mode # "plain" =>
                     {kind[0], kind[1]} \cap ({"ciphertext"} \cup Trials!StateFaults) = {}
    <3>1. 0 \div 2 = 0 /\ 2 \div 2 = 1 /\ 1 - 0 = 1 /\ 1 - 1 = 0
      OBVIOUS
    <3>2. Shown(0) /\ Shown(2)
      BY <2>5
    <3> QED BY <3>1, <3>2 DEF Shown
  <2>6. CASE mode = "plain"
    <3>1. trial = 4 /\ report = "PASS"
      BY <2>2, <2>6 DEF Outcome
    <3>2. counts \subseteq {"PASS"}
      <4>1. Trials!PlainStatus = "PASS" /\ counts \subseteq Trials!Statuses
        BY <2>1, <2>6, <3>1 DEF ExchangeInv, TrialInv, TrialShape
      <4> QED BY <4>1 DEF Trials!PlainStatus, Trials!Statuses
    <3>3. ~lost /\ ~expired /\ \A t \in 0..3 : Shown(t)
      BY <2>1, <2>6, <3>1, <3>2 DEF ExchangeInv, TrialInv, PlainClean
    <3> QED BY <2>2, <2>5, <2>6, <3>3 DEF Present, Sought
  <2>7. CASE mode = "replay"
    <3>1. trial = 4 /\ report = "PASS" /\ stage = "produce"
      BY <2>1, <2>2, <2>7 DEF Outcome, ExchangeInv, TrialInv, TrialShape
    <3>2. ~lost /\ ~expired /\ \A t \in 0..3 : Shown(t)
      BY <2>1, <2>7, <3>1 DEF ExchangeInv, TrialInv, ReplayClean
    <3> QED BY <2>2, <2>5, <2>7, <3>2 DEF Present, Sought, Trials!StateFaults
  <2> QED BY <2>3, <2>4, <2>6, <2>7 DEF Modes
<1> QED BY <1>1, ExchangeInvariance, PTL

(***************************************************************************)
(* Exit code 1 is never the fault of correct cores: a call was lost, or a  *)
(* worker read a clock that had not moved (concurrent_exchange.go:65).     *)
(***************************************************************************)
THEOREM CodeOneEarned == Spec => []NoFalseAlarm
<1>1. ExchangeInv => NoFalseAlarm
  <2>1. SUFFICES ASSUME ExchangeInv, code = 1, ~lost, ~blame, Present \subseteq {"good", "atomic"}
        PROVE  FALSE
    BY DEF NoFalseAlarm
  <2>2. Outcome = "FAIL"
    BY <2>1 DEF ExchangeInv, ExitInv
  <2>3. CASE mode = "concurrent"
    <3>1. core = "atomic"
      BY <2>1, <2>3, ExchangeAssumption
         DEF Present, ExchangeInv, BatchInv, BatchShape, ExchangeAssumption, Batch!CoreKinds
    <3>2. status # "FAIL"
      BY <2>1, <3>1 DEF ExchangeInv, BatchInv, AtomicClean
    <3> QED BY <2>2, <2>3, <3>2 DEF Outcome
  <2>4. CASE mode # "concurrent"
    <3>1. "atomic" \notin Trials!AllKinds
      BY DEF Trials!AllKinds, Trials!ProducerFaults, Trials!ReceiverFaults, Trials!StateFaults,
         Trials!Bound, Trials!Contexts
    <3>2. kind[0] \in Trials!AllKinds /\ kind[1] \in Trials!AllKinds
      BY <2>1, ExchangeAssumption DEF ExchangeInv, TrialInv, TrialShape, ExchangeAssumption
    <3>3. \A s \in 0..1 : kind[s] = "good"
      BY <2>1, <2>4, <3>1, <3>2 DEF Present
    <3>4. report = "PASS"
      BY <2>1, <3>3 DEF ExchangeInv, TrialInv, GoodClean
    <3> QED BY <2>2, <2>4, <3>4 DEF Outcome
  <2> QED BY <2>3, <2>4
<1> QED BY <1>1, ExchangeInvariance, PTL

-----------------------------------------------------------------------------
(* No goroutine waits for ever.                                            *)

\* Nobody passes the gate before it is open.
GateInv == ~gate => \A w \in Batch!Workers : pc[w] \in {"new", "ready"}

LEMMA GateStep ==
  ASSUME Shape, GateInv, [Next]_vars PROVE GateInv'
<1>1. CASE UNCHANGED batchVars
  BY <1>1 DEF batchVars, GateInv, Batch!Workers
<1>2. CASE Batch!Next
  <2>1. ASSUME NEW w \in Batch!Workers, Batch!Ready(w) PROVE GateInv'
    <3>1. gate' = gate /\ \A v \in Batch!Workers : pc'[v] \in {pc[v], "ready"}
      BY <2>1 DEF Batch!Ready, Shape
    <3> QED BY <3>1 DEF GateInv, Batch!Workers
  <2>2. ASSUME NEW w \in Batch!Workers,
               \/ Batch!Begin(w) \/ Batch!Decide(w) \/ Batch!Look(w) \/ Batch!Mark(w)
               \/ Batch!End(w)
        PROVE  GateInv'
    <3>1. gate' = gate /\ (gate \/ pc[w] \notin {"new", "ready"})
      BY <2>2 DEF Batch!Begin, Batch!Decide, Batch!Look, Batch!Mark, Batch!End
    <3> QED BY <3>1 DEF GateInv, Batch!Workers
  <2>3. CASE Batch!OpenGate
    BY <2>3 DEF Batch!OpenGate, GateInv
  <2>4. CASE Batch!Tick \/ Batch!SingleOpen \/ Batch!BeginRound
    <3>1. gate' = gate /\ pc' = pc
      BY <2>4 DEF Batch!Tick, Batch!SingleOpen, Batch!BeginRound, Batch!workers
    <3> QED BY <3>1 DEF GateInv, Batch!Workers
  <2>5. CASE \/ Batch!JoinGroup \/ Batch!CloseRound
             \/ \E s \in {"FAIL", "INCOMPLETE"} : Batch!Lose(s)
    <3>1. \A w \in Batch!Workers : pc'[w] = "new"
      BY <2>5 DEF Batch!JoinGroup, Batch!CloseRound, Batch!Lose, Batch!NextRound, Batch!Refresh
    <3> QED BY <3>1 DEF GateInv, Batch!Workers
  <2> QED BY <1>2, <2>1, <2>2, <2>3, <2>4, <2>5 DEF Batch!Next, Batch!Step, Batch!Main
<1>3. UNCHANGED batchVars \/ Batch!Next
  BY DEF Next, Refuse, Exchanging, Exit, vars
<1> QED BY <1>1, <1>2, <1>3

\* Before step 9 the guard of a worker or of the main goroutine holds.
LEMMA GuardsCover ==
  ASSUME Shape, GateInv, step # 9
  PROVE  Batch!MayMain \/ \E w \in Batch!Workers : Batch!MayStep(w)
<1> USE DEF Batch!MayMain, Batch!MayStep
<1>1. CASE step \in Batch!Groups
  <2>1. CASE \A w \in Batch!Workers : pc[w] = "done"
    BY <1>1, <2>1
  <2>2. CASE ~gate /\ \A w \in Batch!Workers : pc[w] = "ready"
    BY <1>1, <2>2
  <2>3. ASSUME NEW w \in Batch!Workers, pc[w] # "done", gate \/ pc[w] # "ready"
        PROVE  Batch!MayStep(w)
    <3>1. pc[w] \in {"new", "ready", "began", "checked", "answered"}
      BY <2>3 DEF Shape, Begun
    <3>2. CASE pc[w] \in {"new", "ready", "checked", "answered"}
      BY <1>1, <2>3, <3>2
    <3>3. CASE pc[w] = "began"
      BY <3>3
    <3> QED BY <3>1, <3>2, <3>3
  <2>4. CASE gate /\ ~(\A w \in Batch!Workers : pc[w] = "done")
    BY <2>3, <2>4
  <2>5. CASE ~gate /\ ~(\A w \in Batch!Workers : pc[w] = "ready")
    BY <2>3, <2>5 DEF GateInv
  <2> QED BY <2>1, <2>2, <2>4, <2>5
<1>2. CASE step \notin Batch!Groups
  <2>1. step \in {7, 8} \/ step \in DOMAIN Batch!Asked
    BY <1>2 DEF Shape, Batch!Groups, Batch!Asked
  <2> QED BY <2>1
<1> QED BY <1>1, <1>2

(***************************************************************************)
(* Workers, gate and join never wait on each other, for any number of      *)
(* workers (parallel.go:47-52): until the batch is over the guard of some  *)
(* action other than the clock's and a lost call holds.                    *)
(***************************************************************************)
THEOREM SomeoneCanGoOn == Spec => []NeverStuck
<1>1. Init => GateInv
  BY DEF Init, Batch!Init, Batch!Fresh, GateInv
<1>2. ExchangeInv /\ GateInv /\ [Next]_vars => GateInv'
  BY GateStep DEF ExchangeInv, RoundInv
<1>3. ExchangeInv /\ GateInv => NeverStuck
  BY GuardsCover DEF ExchangeInv, RoundInv, NeverStuck, Batch!NeverStuck
<1> QED BY <1>1, <1>2, <1>3, ExchangeInvariance, PTL DEF Spec

===============================================================================
