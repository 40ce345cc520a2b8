----------------------------- MODULE CloseProofs -----------------------------
(***************************************************************************)
(* Theorems of the two models of what a close does to work under way:      *)
(* McpOwner, where it meets an invocation that may already be admitted,    *)
(* for every set of clock samples and all durations; and CloseRace, where  *)
(* it meets opens of the same session, for any number of opens and rounds, *)
(* any bound on the clock and every kind of core.                          *)
(***************************************************************************)
EXTENDS McpOwner, CloseRace, TLAPS

-----------------------------------------------------------------------------
(* The owner.                                                              *)

(***************************************************************************)
(* Where an operation can be, given the transport and the ledger.  Without *)
(* it a step could complete setup again after the response, or submit over *)
(* an entry that already exists.                                           *)
(***************************************************************************)
OperationFollows ==
  /\ phase = "SETUP" => operation = "SETUP"
  /\ phase = "READY" => operation # "SETUP"
  /\ ledger # "ABSENT" => operation \in {"PROTECTED", "DONE"}

IInv ==
  /\ TypeOK
  /\ OperationFollows
  /\ ExpiredIsClosed
  /\ LedgerTellsTheEffect

(***************************************************************************)
(* The invariant is inductive: one step per event.                         *)
(***************************************************************************)
THEOREM Inductive == Spec => []IInv
<1> USE ClockAssumption
<1>1. Init => IInv
  <2> SUFFICES ASSUME Init PROVE IInv
    OBVIOUS
  <2>1. TypeOK /\ OperationFollows
    BY DEF Init, TypeOK, OperationFollows
  <2>2. ExpiredIsClosed
    BY DEF Init, ExpiredIsClosed, Expired, ExpiredAt
  <2>3. LedgerTellsTheEffect
    BY DEF Init, LedgerTellsTheEffect
  <2> QED
    BY <2>1, <2>2, <2>3 DEF IInv
<1>2. IInv /\ [Next]_vars => IInv'
  <2> SUFFICES ASSUME IInv, [Next]_vars PROVE IInv'
    OBVIOUS
  <2> USE DEF IInv, TypeOK, OperationFollows, ExpiredIsClosed, LedgerTellsTheEffect,
              Expired, ExpiredAt
  <2>1. ASSUME NEW t \in Times, Tick(t) PROVE IInv'
    BY <2>1 DEF Tick
  <2>2. CASE Close
    BY <2>2 DEF Close
  <2>3. CASE Crash
    BY <2>3 DEF Crash
  <2>4. CASE Effect
    BY <2>4 DEF Effect
  <2>5. CASE Finish
    BY <2>5 DEF Finish
  <2>6. CASE SetupDone
    BY <2>6, <2>2 DEF SetupDone, WhileOpen
  <2>7. CASE Submit
    BY <2>7, <2>2 DEF Submit, WhileOpen
  <2>8. CASE Reserve
    BY <2>8, <2>2 DEF Reserve, WhileOpen
  <2>9. CASE Admit
    BY <2>9, <2>2 DEF Admit, WhileOpen
  <2>10. CASE Respond
    BY <2>10, <2>2 DEF Respond, WhileOpen
  <2>11. CASE UNCHANGED vars
    BY <2>11 DEF vars
  <2> QED
    BY <2>1, <2>2, <2>3, <2>4, <2>5, <2>6, <2>7, <2>8, <2>9, <2>10, <2>11 DEF Next
<1> QED
  BY <1>1, <1>2, PTL DEF Spec

(***************************************************************************)
(* No event of an open owner is handled past a deadline.                   *)
(***************************************************************************)
THEOREM ExpiryCloses == Spec => []ExpiredIsClosed
<1>1. IInv => ExpiredIsClosed
  BY DEF IInv
<1> QED
  BY <1>1, Inductive, PTL

(***************************************************************************)
(* At every moment the ledger entry says what happened to the effect.      *)
(***************************************************************************)
THEOREM LedgerIsTruthful == Spec => []LedgerTellsTheEffect
<1>1. IInv => LedgerTellsTheEffect
  BY DEF IInv
<1> QED
  BY <1>1, Inductive, PTL

(***************************************************************************)
(* Because an expired owner is closed, an owner that handles an event is   *)
(* within its deadlines.                                                   *)
(***************************************************************************)
LEMMA OpenIsInTime ==
  ASSUME IInv, phase # "CLOSED", operation = "PROTECTED"
  PROVE  now < deadline /\ now < SessionEnd
BY ClockAssumption DEF IInv, TypeOK, ExpiredIsClosed, Expired, ExpiredAt

(***************************************************************************)
(* Only an open owner in time admits, and an admission is permanent.       *)
(***************************************************************************)
THEOREM AdmissionIsInTime == Spec => AdmissionInTime
<1>1. IInv /\ [Next]_vars =>
        [/\ admitted => admitted'
         /\ admitted' /\ ~admitted =>
              /\ phase = "READY" /\ ledger = "RESERVED"
              /\ now < deadline /\ now < SessionEnd]_vars
  BY OpenIsInTime DEF Next, Tick, Close, Crash, Effect, Finish, WhileOpen, SetupDone,
     Submit, Reserve, Admit, Respond, vars, IInv, TypeOK
<1> QED
  BY <1>1, Inductive, PTL DEF Spec, AdmissionInTime

(***************************************************************************)
(* The ledger never goes back and leaves no terminal outcome.              *)
(***************************************************************************)
THEOREM LedgerIsMonotonic == Spec => LedgerMovesForward
<1>1. IInv /\ [Next]_vars =>
        [/\ ledger' # ledger => Rank(ledger') > Rank(ledger)
         /\ ledger \in {"COMPLETED", "UNKNOWN"} => UNCHANGED <<ledger, effects>>]_vars
  BY DEF Next, Tick, Close, Crash, Effect, Finish, WhileOpen, SetupDone, Submit,
     Reserve, Admit, Respond, vars, IInv, TypeOK, Rank
<1> QED
  BY <1>1, Inductive, PTL DEF Spec, LedgerMovesForward

(***************************************************************************)
(* A response leaves within the deadline of its submission, which nothing  *)
(* extends.                                                                *)
(***************************************************************************)
THEOREM ResponseIsInTime == Spec => ResponseInTime
<1>1. IInv /\ [Next]_vars =>
        [/\ operation = "PROTECTED" => deadline' = deadline
         /\ published' /\ ~published =>
              phase = "READY" /\ now < deadline /\ now < SessionEnd]_vars
  <2> SUFFICES ASSUME IInv, Next
               PROVE  /\ operation = "PROTECTED" => deadline' = deadline
                      /\ published' /\ ~published =>
                           phase = "READY" /\ now < deadline /\ now < SessionEnd
    OBVIOUS
  <2>1. CASE Respond
    BY <2>1, OpenIsInTime
    DEF Respond, WhileOpen, Close, IInv, TypeOK, OperationFollows
  <2>2. CASE ~Respond
    BY <2>2 DEF Next, Tick, Close, Crash, Effect, Finish, WhileOpen, SetupDone, Submit,
       Reserve, Admit
  <2> QED
    BY <2>1, <2>2
<1> QED
  BY <1>1, Inductive, PTL DEF Spec, ResponseInTime

(***************************************************************************)
(* Type correctness, whatever the clock shows and the durations are.       *)
(***************************************************************************)
THEOREM TypeCorrect == Spec => []TypeOK
<1>1. IInv => TypeOK
  BY DEF IInv
<1> QED
  BY Inductive, <1>1, PTL

-----------------------------------------------------------------------------
(* The close race.  The evaluator sees readings and verdicts, the          *)
(* properties speak of what happened: the invariant relates the two.       *)

Active == Busy \cup {"done"}

RaceTypeOK ==
  /\ core \in CoreKinds /\ mode \in Modes \cup {"over"} /\ stage \in {"idle", "calls"}
  /\ pc \in [Parties -> {"new", "ready"} \cup Active]
  /\ time \in Nat /\ fresh \in Nat
  /\ started \in [Parties -> Nat] /\ finished \in [Parties -> Nat]
  /\ verdict \in [Parties -> {"NONE", "ACCEPT", "REJECT"}]
  /\ closed \in BOOLEAN /\ raced \in BOOLEAN /\ bad \in BOOLEAN /\ met \in BOOLEAN
  /\ round \in Nat /\ hits \in Nat /\ missed \in Nat
  /\ result \in [Modes -> {"NONE", "PASS", "FAIL", "INCOMPLETE"}]
  /\ tardy \subseteq Workers /\ harm \subseteq Modes

\* The readings of a round are in the order of its steps.
Readings ==
  stage = "calls" =>
    /\ Origin <= fresh /\ fresh <= time
    /\ \A p \in Parties : /\ pc[p] \in Active => fresh <= started[p] /\ started[p] <= time
                          /\ pc[p] = "done" => started[p] <= finished[p] /\ finished[p] <= time

Before(p, q) == pc[p] = "done" /\ finished[p] <= started[q]

\* What the history says of a round, the readings show.
History ==
  stage = "calls" =>
    /\ \A w \in tardy : pc[w] \in Active /\ Before(Closer, w)
    /\ ~met => \A w \in Workers : pc[w] \in Active /\ pc[Closer] \in Active =>
                                    Before(w, Closer) \/ Before(Closer, w)

\* Where the evaluator is.
Progress ==
  /\ mode = "over" => stage = "idle"
  /\ mode # "over" => result[mode] = "NONE" /\ code = -1
  /\ mode = "control" => result["race"] = "NONE" /\ "race" \notin harm /\ missed = 0
  /\ mode = "over" => code = 1 \/ (code = 3 /\ \A m \in Modes : result[m] # "FAIL")
  /\ stage = "idle" /\ round = 0 => ~raced /\ ~bad

\* Harm of the mode in hand has been noted, or will be when the round is judged.
Noted ==
  /\ mode \in harm =>
       \/ raced \/ bad
       \/ /\ stage = "calls"
          /\ \E w \in tardy : verdict[w] = "ACCEPT" /\ pc[w] \in {"answered", "done"}
  /\ \A m \in harm : m # mode => result[m] = "FAIL"

\* Every round of a race was a hit or was missed at most.
Rounded ==
  /\ mode = "race" => missed + hits <= round
  /\ result["race"] = "PASS" => mode = "over" /\ missed = 0

RaceInv == RaceTypeOK /\ Readings /\ History /\ Progress /\ Noted /\ Rounded

\* A round of a correct core in which no reading is shared.
CleanRound ==
  /\ Origin > 0 /\ pc[Closer] # "looked"
  /\ closed <=> pc[Closer] \in {"answered", "done"}
  /\ closed => verdict[Closer] = "ACCEPT"
  /\ \A w \in Workers :
       /\ pc[w] \in {"new", "ready", "began"} => verdict[w] = "NONE"
       /\ w \in tardy => verdict[w] # "ACCEPT"
       /\ pc[w] \in Active /\ pc[Closer] = "done" => w \in tardy \/ started[w] < finished[Closer]
       /\ mode = "control" =>
            /\ pc[w] \in {"looked", "answered", "done"} => verdict[w] = "ACCEPT"
            /\ pc[Closer] # "new" => Before(w, Closer)

CleanInv ==
  core = "correct" /\ ~blame =>
    /\ ~raced /\ ~bad /\ \A m \in Modes : result[m] # "FAIL"
    /\ stage = "calls" => CleanRound

-----------------------------------------------------------------------------
(* What every run keeps.                                                   *)

\* The one that closes is no worker, and comes after all of them.
LEMMA Places ==
  ASSUME CloseRaceAssumption
  PROVE  /\ Closer \in Parties /\ Closer \notin Workers /\ Workers \subseteq Parties
         /\ \A p \in Parties : p # Closer => p \in Workers
         /\ \A w \in Workers : w < Closer
  BY DEF CloseRaceAssumption, Closer, Parties, Workers

LEMMA TypeStep ==
  ASSUME CloseRaceAssumption, RaceTypeOK, Progress, RaceNext
  PROVE  RaceTypeOK'
<1> USE DEF judged, batch, clock, raceVars, Active, Busy, Modes
<1>1. ASSUME NEW p \in Parties, Ready(p) PROVE RaceTypeOK'
  BY <1>1 DEF Ready, RaceTypeOK
<1>2. ASSUME NEW p \in Parties, Begin(p) PROVE RaceTypeOK'
  <2>1. tardy' \subseteq Workers
    <3>1. pc[Closer] = "done" => p # Closer
      BY <1>2, Places DEF Begin, Turn
    <3> QED BY <1>2, <3>1, Places DEF Begin, RaceTypeOK
  <2>2. harm' \subseteq Modes
    BY <1>2 DEF Begin, RaceTypeOK, Progress
  <2> QED BY <1>2, <2>1, <2>2 DEF Begin, RaceTypeOK
<1>3. ASSUME NEW p \in Parties, Look(p) PROVE RaceTypeOK'
  BY <1>3 DEF Look, RaceTypeOK
<1>4. ASSUME NEW p \in Parties, Answer(p) PROVE RaceTypeOK'
  BY <1>4 DEF Answer, RaceTypeOK, Progress
<1>5. ASSUME NEW p \in Parties, End(p) PROVE RaceTypeOK'
  BY <1>5 DEF End, RaceTypeOK
<1>6. CASE Shut
  BY <1>6 DEF Shut, RaceTypeOK
<1>7. CASE Settle
  BY <1>7 DEF Settle, RaceTypeOK
<1>8. CASE ClockTicks
  BY <1>8 DEF ClockTicks, RaceTypeOK
<1>9. CASE Positive
  <2>1. time' \in Nat /\ fresh' \in Nat
    BY <1>9 DEF Positive, CloseRaceAssumption
  <2>2. /\ pc' \in [Parties -> {"new", "ready"} \cup Active]
        /\ started' \in [Parties -> Nat] /\ finished' \in [Parties -> Nat]
        /\ verdict' \in [Parties -> {"NONE", "ACCEPT", "REJECT"}]
    BY <1>9 DEF Positive
  <2> QED BY <1>9, <2>1, <2>2 DEF Positive, RaceTypeOK
<1>10. CASE OpenGate
  BY <1>10 DEF OpenGate, RaceTypeOK
<1>11. CASE Emit
  <2>1. harm' \subseteq Modes
    BY <1>11 DEF Emit, RaceTypeOK, Progress
  <2>2. hits' \in Nat /\ missed' \in Nat /\ round' \in Nat
    BY <1>11 DEF Emit, RaceTypeOK
  <2>3. bad' \in BOOLEAN
    BY <1>11 DEF Emit, RaceTypeOK
  <2> QED BY <1>11, <2>1, <2>2, <2>3 DEF Emit, RaceTypeOK
<1>12. CASE ProbeExits
  BY <1>12 DEF ProbeExits, Conclude, Evaluate, RaceTypeOK
<1>13. CASE ProbeFails
  BY <1>13 DEF ProbeFails, Conclude, RaceTypeOK
<1>14. CASE ProbeChanged
  BY <1>14 DEF ProbeChanged, RaceTypeOK
<1>15. CASE TimeOut
  BY <1>15 DEF TimeOut, Conclude, RaceTypeOK
<1>16. CASE Done
  BY <1>16 DEF Done, RaceTypeOK
<1> QED BY <1>1, <1>2, <1>3, <1>4, <1>5, <1>6, <1>7, <1>8, <1>9, <1>10, <1>11, <1>12,
    <1>13, <1>14, <1>15, <1>16 DEF RaceNext, Step, Main

\* A reading is taken from the clock, which does not go back.
LEMMA ReadingsStep ==
  ASSUME CloseRaceAssumption, RaceTypeOK, RaceTypeOK', Readings, RaceNext
  PROVE  Readings'
<1> USE DEF judged, batch, clock, raceVars, Active, Busy
<1>1. ASSUME NEW p \in Parties, Ready(p) PROVE Readings'
  BY <1>1 DEF Ready, Readings, RaceTypeOK
<1>2. ASSUME NEW p \in Parties, Begin(p) PROVE Readings'
  BY <1>2 DEF Begin, Readings, RaceTypeOK
<1>3. ASSUME NEW p \in Parties, Look(p) PROVE Readings'
  BY <1>3 DEF Look, Readings, RaceTypeOK
<1>4. ASSUME NEW p \in Parties, Answer(p) PROVE Readings'
  BY <1>4 DEF Answer, Readings, RaceTypeOK
<1>5. ASSUME NEW p \in Parties, End(p) PROVE Readings'
  BY <1>5 DEF End, Readings, RaceTypeOK
<1>6. CASE Shut
  BY <1>6 DEF Shut, Readings, RaceTypeOK
<1>7. CASE Settle
  BY <1>7 DEF Settle, Readings, RaceTypeOK
<1>8. CASE ClockTicks
  BY <1>8 DEF ClockTicks, Readings, RaceTypeOK
<1>9. CASE Positive
  BY <1>9 DEF Positive, Readings, RaceTypeOK
<1>10. CASE OpenGate
  BY <1>10 DEF OpenGate, Readings, RaceTypeOK
<1>11. CASE Emit
  BY <1>11 DEF Emit, Readings, RaceTypeOK
<1>12. CASE ProbeExits
  BY <1>12 DEF ProbeExits, Conclude, Evaluate, Readings, RaceTypeOK
<1>13. CASE ProbeFails
  BY <1>13 DEF ProbeFails, Conclude, Readings, RaceTypeOK
<1>14. CASE ProbeChanged
  BY <1>14 DEF ProbeChanged, Readings, RaceTypeOK
<1>15. CASE TimeOut
  BY <1>15 DEF TimeOut, Conclude, Readings, RaceTypeOK
<1>16. CASE Done
  BY <1>16 DEF Done, Readings, RaceTypeOK
<1> QED BY <1>1, <1>2, <1>3, <1>4, <1>5, <1>6, <1>7, <1>8, <1>9, <1>10, <1>11, <1>12,
    <1>13, <1>14, <1>15, <1>16 DEF RaceNext, Step, Main

\* An open and a close that are not under way together are read one after the other.
LEMMA HistoryStep ==
  ASSUME CloseRaceAssumption, RaceTypeOK, RaceTypeOK', Readings, History, RaceNext
  PROVE  History'
<1> USE DEF judged, batch, clock, raceVars, Active, Busy
<1>a. /\ Closer \in Parties /\ Closer \notin Workers /\ Workers \subseteq Parties
      /\ \A p \in Parties : p # Closer => p \in Workers
      /\ \A w \in Workers : w < Closer
  BY Places
<1>1. ASSUME NEW p \in Parties, Ready(p) PROVE History'
  BY <1>1 DEF Ready, History, Before, RaceTypeOK
<1>2. ASSUME NEW p \in Parties, Begin(p) PROVE History'
  <2>1. /\ stage = "calls" /\ pc[p] \in {"new", "ready"} /\ pc'[p] = "began" /\ started'[p] = time
        /\ \A q \in Parties : q # p => pc'[q] = pc[q] /\ started'[q] = started[q]
        /\ finished' = finished /\ (met' <=> met \/ Rivals(p) # {})
        /\ tardy' = IF pc[Closer] = "done" THEN tardy \cup {p} ELSE tardy
    BY <1>2 DEF Begin, Turn, RaceTypeOK
  <2>2. \A q \in Parties : pc[q] = "done" => finished[q] <= time
    BY <2>1 DEF Readings
  <2>3. \A w \in tardy' : pc'[w] \in Active /\ Before(Closer, w)'
    <3> SUFFICES ASSUME NEW w \in tardy' PROVE pc'[w] \in Active /\ Before(Closer, w)'
      OBVIOUS
    <3>1. CASE w = p
      <4>1. pc[Closer] = "done" \/ w \in tardy
        BY <2>1
      <4>2. w \notin tardy
        BY <2>1, <3>1 DEF History
      <4> QED BY <1>2, <1>a, <2>1, <2>2, <3>1, <4>1, <4>2 DEF Before
    <3>2. CASE w # p
      <4>1. w \in tardy /\ w \in Parties
        BY <1>a, <2>1, <3>2 DEF RaceTypeOK
      <4>2. pc[w] \in Active /\ pc[Closer] = "done" /\ finished[Closer] <= started[w]
        BY <2>1, <4>1 DEF History, Before
      <4> QED BY <1>2, <1>a, <2>1, <3>2, <4>1, <4>2 DEF Before
    <3> QED BY <3>1, <3>2
  <2>4. ASSUME ~met', NEW w \in Workers, pc'[w] \in Active, pc'[Closer] \in Active
        PROVE  Before(w, Closer)' \/ Before(Closer, w)'
    <3>1. ~met /\ Rivals(p) = {}
      BY <2>1, <2>4
    <3>2. CASE p = w
      <4>1. pc[Closer] = "done"
        BY <1>a, <2>1, <2>4, <3>1, <3>2 DEF Rivals
      <4> QED BY <1>a, <2>1, <2>2, <3>2, <4>1 DEF Before
    <3>3. CASE p = Closer
      <4>1. pc[w] = "done"
        BY <1>a, <2>1, <2>4, <3>1, <3>3 DEF Rivals
      <4> QED BY <1>a, <2>1, <2>2, <3>3, <4>1 DEF Before
    <3>4. CASE p # w /\ p # Closer
      <4>1. Before(w, Closer) \/ Before(Closer, w)
        BY <1>a, <2>1, <2>4, <3>1, <3>4 DEF History
      <4> QED BY <1>a, <2>1, <3>4, <4>1 DEF Before
    <3> QED BY <3>2, <3>3, <3>4
  <2> QED BY <2>3, <2>4 DEF History
<1>3. ASSUME NEW p \in Parties, Look(p) PROVE History'
  BY <1>3 DEF Look, History, Before, RaceTypeOK
<1>4. ASSUME NEW p \in Parties, Answer(p) PROVE History'
  BY <1>4 DEF Answer, History, Before, RaceTypeOK
<1>5. ASSUME NEW p \in Parties, End(p) PROVE History'
  BY <1>5 DEF End, History, Before, RaceTypeOK
<1>6. CASE Shut
  BY <1>6 DEF Shut, History, Before, RaceTypeOK
<1>7. CASE Settle
  BY <1>7 DEF Settle, History, Before, RaceTypeOK
<1>8. CASE ClockTicks
  BY <1>8 DEF ClockTicks, History, Before, RaceTypeOK
<1>9. CASE Positive
  <2>1. tardy' = {} /\ \A p \in Parties : pc'[p] = "new"
    BY <1>9 DEF Positive
  <2> QED BY <1>a, <2>1 DEF History
<1>10. CASE OpenGate
  BY <1>10 DEF OpenGate, History, Before, RaceTypeOK
<1>11. CASE Emit
  BY <1>11 DEF Emit, History, Before, RaceTypeOK
<1>12. CASE ProbeExits
  BY <1>12 DEF ProbeExits, Conclude, Evaluate, History, Before, RaceTypeOK
<1>13. CASE ProbeFails
  BY <1>13 DEF ProbeFails, Conclude, History, Before, RaceTypeOK
<1>14. CASE ProbeChanged
  BY <1>14 DEF ProbeChanged, History, Before, RaceTypeOK
<1>15. CASE TimeOut
  BY <1>15 DEF TimeOut, Conclude, History, Before, RaceTypeOK
<1>16. CASE Done
  BY <1>16 DEF Done, History, Before, RaceTypeOK
<1> QED BY <1>1, <1>2, <1>3, <1>4, <1>5, <1>6, <1>7, <1>8, <1>9, <1>10, <1>11, <1>12,
    <1>13, <1>14, <1>15, <1>16 DEF RaceNext, Step, Main

LEMMA ProgressStep ==
  ASSUME CloseRaceAssumption, RaceTypeOK, Progress, RaceNext
  PROVE  Progress'
<1> USE DEF judged, batch, clock, raceVars, Modes
<1>1. ASSUME NEW p \in Parties, Ready(p) PROVE Progress'
  BY <1>1 DEF Ready, Progress, RaceTypeOK
<1>2. ASSUME NEW p \in Parties, Begin(p) PROVE Progress'
  BY <1>2 DEF Begin, Progress, RaceTypeOK
<1>3. ASSUME NEW p \in Parties, Look(p) PROVE Progress'
  BY <1>3 DEF Look, Progress, RaceTypeOK
<1>4. ASSUME NEW p \in Parties, Answer(p) PROVE Progress'
  BY <1>4 DEF Answer, Progress, RaceTypeOK
<1>5. ASSUME NEW p \in Parties, End(p) PROVE Progress'
  BY <1>5 DEF End, Progress, RaceTypeOK
<1>6. CASE Shut
  BY <1>6 DEF Shut, Progress, RaceTypeOK
<1>7. CASE Settle
  BY <1>7 DEF Settle, Progress, RaceTypeOK
<1>8. CASE ClockTicks
  BY <1>8 DEF ClockTicks, Progress, RaceTypeOK
<1>9. CASE Positive
  BY <1>9 DEF Positive, Progress, RaceTypeOK
<1>10. CASE OpenGate
  BY <1>10 DEF OpenGate, Progress, RaceTypeOK
<1>11. CASE Emit
  BY <1>11 DEF Emit, Progress, RaceTypeOK
<1>12. CASE ProbeExits
  BY <1>12 DEF ProbeExits, Conclude, Evaluate, Progress, RaceTypeOK
<1>13. CASE ProbeFails
  BY <1>13 DEF ProbeFails, Conclude, Progress, RaceTypeOK
<1>14. CASE ProbeChanged
  BY <1>14 DEF ProbeChanged, Progress, RaceTypeOK
<1>15. CASE TimeOut
  BY <1>15 DEF TimeOut, Conclude, Progress, RaceTypeOK
<1>16. CASE Done
  BY <1>16 DEF Done, Progress, RaceTypeOK
<1> QED BY <1>1, <1>2, <1>3, <1>4, <1>5, <1>6, <1>7, <1>8, <1>9, <1>10, <1>11, <1>12,
    <1>13, <1>14, <1>15, <1>16 DEF RaceNext, Step, Main

\* The row shows an open that was accepted too late, whenever it was answered.
LEMMA NotedStep ==
  ASSUME CloseRaceAssumption, RaceTypeOK, RaceTypeOK', History, Progress, Noted, RaceNext
  PROVE  Noted'
<1> USE DEF judged, batch, clock, raceVars, Modes
<1>a. /\ Closer \in Parties /\ Closer \notin Workers /\ Workers \subseteq Parties
      /\ \A p \in Parties : p # Closer => p \in Workers
      /\ \A w \in Workers : w < Closer
  BY Places
<1>1. ASSUME NEW p \in Parties, Ready(p) PROVE Noted'
  BY <1>1 DEF Ready, Noted, RaceTypeOK, Progress
<1>2. ASSUME NEW p \in Parties, Begin(p) PROVE Noted'
  <2>1. /\ stage = "calls" /\ stage' = stage /\ mode' = mode /\ verdict' = verdict /\ bad' = bad
        /\ result' = result /\ tardy \subseteq tardy' /\ (raced => raced')
        /\ \A q \in Parties : q # p => pc'[q] = pc[q]
        /\ pc[p] \in {"new", "ready"}
        /\ harm' = harm \/ (raced' /\ harm' = harm \cup {mode})
    BY <1>2 DEF Begin, Turn, RaceTypeOK
  <2>2. ASSUME NEW w \in tardy, verdict[w] = "ACCEPT", pc[w] \in {"answered", "done"}
        PROVE  w \in tardy' /\ verdict'[w] = "ACCEPT" /\ pc'[w] \in {"answered", "done"}
    <3>1. w # p /\ w \in Parties
      BY <1>a, <2>1, <2>2 DEF RaceTypeOK
    <3> QED BY <2>1, <2>2, <3>1
  <2>3. mode \in harm' => \/ raced' \/ bad'
                          \/ \E w \in tardy' : verdict'[w] = "ACCEPT"
                                               /\ pc'[w] \in {"answered", "done"}
    BY <2>1, <2>2 DEF Noted
  <2>4. \A m \in harm' : m # mode => result[m] = "FAIL"
    BY <2>1 DEF Noted
  <2> QED BY <2>1, <2>3, <2>4 DEF Noted
<1>3. ASSUME NEW p \in Parties, Look(p) PROVE Noted'
  BY <1>3 DEF Look, Noted, RaceTypeOK, Progress
<1>4. ASSUME NEW p \in Parties, Answer(p) PROVE Noted'
  BY <1>4 DEF Answer, Noted, RaceTypeOK, Progress
<1>5. ASSUME NEW p \in Parties, End(p) PROVE Noted'
  BY <1>5 DEF End, Noted, RaceTypeOK, Progress
<1>6. CASE Shut
  BY <1>6 DEF Shut, Noted, RaceTypeOK, Progress
<1>7. CASE Settle
  BY <1>7 DEF Settle, Noted, RaceTypeOK, Progress
<1>8. CASE ClockTicks
  BY <1>8 DEF ClockTicks, Noted, RaceTypeOK, Progress
<1>9. CASE Positive
  BY <1>9 DEF Positive, Noted, RaceTypeOK, Progress
<1>10. CASE OpenGate
  BY <1>10 DEF OpenGate, Noted, RaceTypeOK, Progress
<1>11. CASE Emit
  <2>1. /\ stage = "calls" /\ mode' = mode /\ result' = result /\ raced' = raced
        /\ bad => bad'
        /\ (\A last : RowBad(last)) => bad'
    BY <1>11 DEF Emit
  <2>2. ASSUME NEW w \in tardy, verdict[w] = "ACCEPT" PROVE bad'
    <3>1. w \in Workers /\ finished[Closer] <= started[w]
      BY <2>1 DEF History, Before, RaceTypeOK
    <3>2. started[w] >= finished[Closer]
      BY <1>a, <3>1 DEF RaceTypeOK
    <3>3. \A last : RowBad(last)
      BY <2>2, <3>1, <3>2 DEF RowBad, StartsAfterClose
    <3> QED BY <2>1, <3>3
  <2>3. mode \in harm' => raced' \/ bad'
    <3>1. CASE mode \in harm
      BY <2>1, <2>2, <3>1 DEF Noted
    <3>2. CASE ~closed
      BY <1>11, <3>2 DEF Emit, RowBad
    <3>3. CASE mode \notin harm /\ closed
      BY <1>11, <3>3 DEF Emit
    <3> QED BY <3>1, <3>2, <3>3
  <2>4. \A m \in harm' : m # mode => result[m] = "FAIL"
    BY <1>11 DEF Emit, Noted
  <2> QED BY <2>1, <2>3, <2>4 DEF Noted
<1>12. CASE ProbeExits
  BY <1>12 DEF ProbeExits, Conclude, Evaluate, Noted, RaceTypeOK, Progress
<1>13. CASE ProbeFails
  BY <1>13 DEF ProbeFails, Conclude, Noted, RaceTypeOK, Progress
<1>14. CASE ProbeChanged
  BY <1>14 DEF ProbeChanged, Noted, RaceTypeOK, Progress
<1>15. CASE TimeOut
  BY <1>15 DEF TimeOut, Conclude, Noted, RaceTypeOK, Progress
<1>16. CASE Done
  BY <1>16 DEF Done, Noted, RaceTypeOK, Progress
<1> QED BY <1>1, <1>2, <1>3, <1>4, <1>5, <1>6, <1>7, <1>8, <1>9, <1>10, <1>11, <1>12,
    <1>13, <1>14, <1>15, <1>16 DEF RaceNext, Step, Main

\* A hit is a meeting: the intervals of an open and of the close overlap.
LEMMA RoundedStep ==
  ASSUME CloseRaceAssumption, RaceTypeOK, RaceTypeOK', Readings, History, Progress, Rounded, RaceNext
  PROVE  Rounded'
<1> USE DEF judged, batch, clock, raceVars, Modes
<1>a. /\ Closer \in Parties /\ Closer \notin Workers /\ Workers \subseteq Parties
      /\ \A p \in Parties : p # Closer => p \in Workers
      /\ \A w \in Workers : w < Closer
  BY Places
<1>1. ASSUME NEW p \in Parties, Ready(p) PROVE Rounded'
  BY <1>1 DEF Ready, Rounded, RaceTypeOK, Progress
<1>2. ASSUME NEW p \in Parties, Begin(p) PROVE Rounded'
  BY <1>2 DEF Begin, Rounded, RaceTypeOK, Progress
<1>3. ASSUME NEW p \in Parties, Look(p) PROVE Rounded'
  BY <1>3 DEF Look, Rounded, RaceTypeOK, Progress
<1>4. ASSUME NEW p \in Parties, Answer(p) PROVE Rounded'
  BY <1>4 DEF Answer, Rounded, RaceTypeOK, Progress
<1>5. ASSUME NEW p \in Parties, End(p) PROVE Rounded'
  BY <1>5 DEF End, Rounded, RaceTypeOK, Progress
<1>6. CASE Shut
  BY <1>6 DEF Shut, Rounded, RaceTypeOK, Progress
<1>7. CASE Settle
  BY <1>7 DEF Settle, Rounded, RaceTypeOK, Progress
<1>8. CASE ClockTicks
  BY <1>8 DEF ClockTicks, Rounded, RaceTypeOK, Progress
<1>9. CASE Positive
  BY <1>9 DEF Positive, Rounded, RaceTypeOK, Progress
<1>10. CASE OpenGate
  BY <1>10 DEF OpenGate, Rounded, RaceTypeOK, Progress
<1>11. CASE Emit
  <2>1. /\ mode' = mode /\ result' = result /\ round' = round + 1
        /\ hits' = hits + (IF Hit THEN 1 ELSE 0)
        /\ missed' = missed + (IF mode = "race" /\ ~met THEN 1 ELSE 0)
        /\ stage = "calls" /\ \A p \in Parties : pc[p] = "done"
    BY <1>11 DEF Emit
  <2>2. Hit => met
    <3> SUFFICES ASSUME ~met, NEW w \in Workers PROVE
                   ~(started[w] < finished[Closer] /\ started[Closer] < finished[w])
      BY DEF Hit
    <3>1. finished[w] <= started[Closer] \/ finished[Closer] <= started[w]
      BY <1>a, <2>1 DEF History, Before, Active
    <3> QED BY <1>a, <3>1 DEF RaceTypeOK
  <2>3. mode = "race" => missed' + hits' <= round'
    BY <2>1, <2>2 DEF Rounded, RaceTypeOK
  <2>4. mode # "over"
    BY <2>1 DEF Progress
  <2> QED BY <2>1, <2>3, <2>4 DEF Rounded
<1>12. CASE ProbeExits
  BY <1>12 DEF ProbeExits, Conclude, Evaluate, Rounded, RaceTypeOK, Progress
<1>13. CASE ProbeFails
  BY <1>13 DEF ProbeFails, Conclude, Rounded, RaceTypeOK, Progress
<1>14. CASE ProbeChanged
  BY <1>14 DEF ProbeChanged, Rounded, RaceTypeOK, Progress
<1>15. CASE TimeOut
  BY <1>15 DEF TimeOut, Conclude, Rounded, RaceTypeOK, Progress
<1>16. CASE Done
  BY <1>16 DEF Done, Rounded, RaceTypeOK, Progress
<1> QED BY <1>1, <1>2, <1>3, <1>4, <1>5, <1>6, <1>7, <1>8, <1>9, <1>10, <1>11, <1>12,
    <1>13, <1>14, <1>15, <1>16 DEF RaceNext, Step, Main

-----------------------------------------------------------------------------
(* A correct core.                                                         *)

\* Nothing is wrong with a row of a clean round.
LEMMA CleanRow ==
  ASSUME CloseRaceAssumption, RaceTypeOK, Readings, CleanRound, stage = "calls", mode # "over",
         \A p \in Parties : pc[p] = "done"
  PROVE  closed /\ ~RowBad("REJECT")
<1>a. /\ Closer \in Parties /\ Closer \notin Workers /\ Workers \subseteq Parties
      /\ \A p \in Parties : p # Closer => p \in Workers
  BY Places
<1>1. closed /\ verdict[Closer] = "ACCEPT"
  BY <1>a DEF CleanRound
<1>2. \A p \in Parties : started[p] # 0 /\ ~(started[p] > finished[p]) /\ ~(started[p] < fresh)
  BY DEF Readings, Active, CleanRound, RaceTypeOK, CloseRaceAssumption
<1>3. \A w \in Workers : ~StartsAfterClose(w)
  <2> SUFFICES ASSUME NEW w \in Workers, verdict[w] = "ACCEPT"
               PROVE  ~(started[w] >= finished[Closer])
    BY DEF StartsAfterClose
  <2>1. started[w] < finished[Closer]
    BY <1>a DEF CleanRound, Active
  <2> QED BY <1>a, <2>1 DEF RaceTypeOK
<1>4. mode = "control" => \A w \in Workers : verdict[w] # "REJECT" /\ ~(finished[w] > started[Closer])
  <2> SUFFICES ASSUME mode = "control", NEW w \in Workers
               PROVE  verdict[w] # "REJECT" /\ ~(finished[w] > started[Closer])
    OBVIOUS
  <2>1. verdict[w] = "ACCEPT" /\ finished[w] <= started[Closer]
    BY <1>a DEF CleanRound, Before
  <2> QED BY <1>a, <2>1 DEF RaceTypeOK
<1> QED BY <1>a, <1>1, <1>2, <1>3, <1>4 DEF RowBad

\* No step of a clean run spoils it.
LEMMA CleanStep ==
  ASSUME CloseRaceAssumption, RaceTypeOK, RaceTypeOK', Readings, History, Progress, CleanInv, RaceNext
  PROVE  CleanInv'
<1> USE DEF judged, batch, clock, raceVars, Modes, Active, Busy
<1>a. /\ Closer \in Parties /\ Closer \notin Workers /\ Workers \subseteq Parties
      /\ \A p \in Parties : p # Closer => p \in Workers
      /\ \A w \in Workers : w < Closer
  BY Places
<1>1. ASSUME NEW p \in Parties, Ready(p) PROVE CleanInv'
  <2>1. CleanRound => CleanRound'
    BY <1>1, <1>a DEF Ready, CleanRound, Before, Turn, RaceTypeOK
  <2> QED BY <1>1, <2>1 DEF CleanInv, Ready
<1>2. ASSUME NEW p \in Parties, Begin(p) PROVE CleanInv'
  <2> SUFFICES ASSUME core = "correct", ~blame, CleanRound PROVE CleanRound'
    BY <1>2 DEF Begin, CleanInv
  <2>1. /\ stage = "calls" /\ pc[p] \in {"new", "ready"} /\ pc'[p] = "began" /\ started'[p] = time
        /\ \A q \in Parties : q # p => pc'[q] = pc[q] /\ started'[q] = started[q]
        /\ finished' = finished /\ verdict' = verdict /\ closed' = closed /\ mode' = mode
        /\ tardy' = IF pc[Closer] = "done" THEN tardy \cup {p} ELSE tardy
        /\ mode = "control" => \A q \in Parties : q < p => pc[q] = "done"
    BY <1>2 DEF Begin, Turn, RaceTypeOK
  <2>2. closed' <=> pc'[Closer] \in {"answered", "done"}
    BY <1>a, <2>1 DEF CleanRound
  <2>3. pc'[Closer] # "looked"
    BY <1>a, <2>1 DEF CleanRound
  <2>4. ASSUME NEW w \in Workers
        PROVE  /\ pc'[w] \in {"new", "ready", "began"} => verdict[w] = "NONE"
               /\ w \in tardy' => verdict[w] # "ACCEPT"
               /\ mode = "control" /\ pc'[w] \in {"looked", "answered", "done"} =>
                    verdict[w] = "ACCEPT"
    BY <1>a, <2>1 DEF CleanRound
  <2>5. ASSUME NEW w \in Workers, pc'[w] \in Active, pc'[Closer] = "done"
        PROVE  w \in tardy' \/ started'[w] < finished'[Closer]
    BY <1>a, <2>1, <2>5 DEF CleanRound
  <2>6. ASSUME NEW w \in Workers, mode = "control", pc'[Closer] # "new"
        PROVE  Before(w, Closer)'
    <3>1. CASE p = Closer
      <4>1. pc[w] = "done" /\ finished[w] <= time
        BY <1>a, <2>1, <2>6, <3>1 DEF Readings
      <4> QED BY <1>a, <2>1, <3>1, <4>1 DEF Before
    <3>2. CASE p # Closer
      <4>1. Before(w, Closer)
        BY <1>a, <2>1, <2>6, <3>2 DEF CleanRound
      <4> QED BY <1>a, <2>1, <3>2, <4>1 DEF Before
    <3> QED BY <3>1, <3>2
  <2> QED BY <2>1, <2>2, <2>3, <2>4, <2>5, <2>6 DEF CleanRound
<1>3. ASSUME NEW p \in Parties, Look(p) PROVE CleanInv'
  <2> SUFFICES ASSUME CleanRound PROVE CleanRound'
    BY <1>3 DEF Look, CleanInv
  <2>1. /\ p \in Workers /\ p # Closer /\ pc[p] = "began" /\ pc'[p] = "looked"
        /\ \A q \in Parties : q # p => pc'[q] = pc[q] /\ verdict'[q] = verdict[q]
        /\ verdict'[p] = (IF closed THEN "REJECT" ELSE "ACCEPT")
        /\ UNCHANGED <<started, finished, closed, tardy, mode>>
    BY <1>3, <1>a DEF Look, RaceTypeOK
  <2>2. stage = "calls" /\ pc'[Closer] = pc[Closer] /\ verdict'[Closer] = verdict[Closer]
    BY <1>3, <1>a, <2>1 DEF Look
  <2>3. p \in tardy => closed
    BY <2>2 DEF History, Before, CleanRound
  <2>4. mode = "control" => ~closed
    BY <1>a, <2>1 DEF CleanRound, Before
  <2>5. ASSUME NEW w \in Workers
        PROVE  /\ pc'[w] \in {"new", "ready", "began"} => verdict'[w] = "NONE"
               /\ w \in tardy' => verdict'[w] # "ACCEPT"
               /\ pc'[w] \in Active /\ pc'[Closer] = "done" =>
                    w \in tardy' \/ started'[w] < finished'[Closer]
               /\ mode = "control" =>
                    /\ pc'[w] \in {"looked", "answered", "done"} => verdict'[w] = "ACCEPT"
                    /\ pc'[Closer] # "new" => Before(w, Closer)'
    <3>1. CASE w = p
      BY <2>1, <2>2, <2>3, <2>4, <3>1 DEF CleanRound, Before
    <3>2. CASE w # p
      BY <1>a, <2>1, <2>2, <3>2 DEF CleanRound, Before
    <3> QED BY <3>1, <3>2
  <2> QED BY <2>1, <2>2, <2>5 DEF CleanRound
<1>4. ASSUME NEW p \in Parties, Answer(p) PROVE CleanInv'
  <2>1. CleanRound => CleanRound'
    BY <1>4, <1>a DEF Answer, CleanRound, Before, Turn, RaceTypeOK
  <2> QED BY <1>4, <2>1 DEF CleanInv, Answer
<1>5. ASSUME NEW p \in Parties, End(p) PROVE CleanInv'
  <2> SUFFICES ASSUME core = "correct", ~blame, ~blame', CleanRound PROVE CleanRound'
    BY <1>5 DEF End, CleanInv
  <2>1. /\ stage = "calls" /\ pc[p] = "answered" /\ pc'[p] = "done" /\ finished'[p] = time
        /\ \A q \in Parties : q # p => pc'[q] = pc[q] /\ finished'[q] = finished[q]
        /\ started' = started /\ verdict' = verdict /\ closed' = closed /\ mode' = mode
        /\ tardy' = tardy
        /\ p = Closer => \A w \in Workers : pc[w] \in Active => started[w] # time
    <3>1. DOMAIN pc = Parties /\ DOMAIN finished = Parties
      BY DEF RaceTypeOK
    <3>2. /\ pc'[p] = "done" /\ finished'[p] = time
          /\ \A q \in Parties : q # p => pc'[q] = pc[q] /\ finished'[q] = finished[q]
      BY <1>5, <3>1 DEF End
    <3>3. p = Closer => \A w \in Workers : pc[w] \in Active => started[w] # time
      BY <1>5 DEF End
    <3> QED BY <1>5, <3>2, <3>3 DEF End
  <2>2. \A w \in Workers : /\ pc[w] \in Active => started[w] <= time
                            /\ started[w] \in Nat /\ time \in Nat
    BY <1>a, <2>1 DEF Readings, RaceTypeOK
  <2>3. ASSUME NEW w \in Workers, pc'[w] \in Active, pc'[Closer] = "done"
        PROVE  w \in tardy \/ started[w] < finished'[Closer]
    BY <1>a, <2>1, <2>2, <2>3 DEF CleanRound
  <2>4. ASSUME NEW w \in Workers, mode = "control", pc'[Closer] # "new"
        PROVE  Before(w, Closer)'
    BY <1>a, <2>1, <2>4 DEF CleanRound, Before
  <2> QED BY <1>a, <2>1, <2>3, <2>4 DEF CleanRound
<1>6. CASE Shut
  <2> SUFFICES ASSUME core = "correct", CleanRound PROVE CleanRound'
    BY <1>6 DEF Shut, CleanInv
  <2>1. /\ pc[Closer] = "began" /\ pc'[Closer] = "answered" /\ closed'
        /\ \A q \in Parties : q # Closer => pc'[q] = pc[q] /\ verdict'[q] = verdict[q]
        /\ verdict'[Closer] = "ACCEPT"
        /\ UNCHANGED <<started, finished, tardy, mode>>
    <3>1. DOMAIN pc = Parties /\ DOMAIN verdict = Parties
      BY DEF RaceTypeOK
    <3>2. \A q \in Parties : q # Closer => pc'[q] = pc[q] /\ verdict'[q] = verdict[q]
      BY <1>6, <3>1 DEF Shut
    <3>3. pc[Closer] = "began" /\ pc'[Closer] = "answered" /\ verdict'[Closer] = "ACCEPT"
      BY <1>6, <1>a, <3>1 DEF Shut
    <3> QED BY <1>6, <3>2, <3>3 DEF Shut
  <2>2. \A w \in Workers : pc'[w] = pc[w] /\ verdict'[w] = verdict[w]
    BY <1>a, <2>1
  <2> QED BY <2>1, <2>2 DEF CleanRound, Before
<1>7. CASE Settle
  BY <1>7 DEF Settle, CleanInv, RaceTypeOK, Progress
<1>8. CASE ClockTicks
  <2>1. CleanRound => CleanRound'
    BY <1>8, <1>a DEF ClockTicks, CleanRound, Before, Turn, RaceTypeOK
  <2> QED BY <1>8, <2>1 DEF CleanInv, ClockTicks
<1>9. CASE Positive
  <2>0. blame' <=> blame \/ Origin = 0
    BY <1>9 DEF Positive
  <2>a. Origin # 0 => Origin > 0
    BY DEF CloseRaceAssumption
  <2> SUFFICES ASSUME core = "correct", ~blame, Origin > 0 PROVE CleanRound'
    BY <1>9, <2>0, <2>a DEF Positive, CleanInv
  <2>1. /\ tardy' = {} /\ ~closed'
        /\ \A p \in Parties : pc'[p] = "new" /\ verdict'[p] = "NONE"
    BY <1>9 DEF Positive
  <2> QED BY <1>a, <2>1 DEF CleanRound
<1>10. CASE OpenGate
  <2>1. CleanRound => CleanRound'
    BY <1>10, <1>a DEF OpenGate, CleanRound, Before, Turn, RaceTypeOK
  <2> QED BY <1>10, <2>1 DEF CleanInv, OpenGate
<1>11. CASE Emit
  <2> SUFFICES ASSUME core = "correct", ~blame PROVE ~bad'
    BY <1>11 DEF Emit, CleanInv
  <2>1. closed /\ ~RowBad("REJECT") /\ ~bad
    BY <1>11, CleanRow DEF Emit, CleanInv, Progress
  <2> QED BY <1>11, <2>1 DEF Emit
<1>12. CASE ProbeExits
  BY <1>12 DEF ProbeExits, Conclude, Evaluate, CleanInv, RaceTypeOK, Progress
<1>13. CASE ProbeFails
  BY <1>13 DEF ProbeFails, Conclude, CleanInv, RaceTypeOK, Progress
<1>14. CASE ProbeChanged
  BY <1>14 DEF ProbeChanged, CleanInv, RaceTypeOK, Progress
<1>15. CASE TimeOut
  BY <1>15 DEF TimeOut, Conclude, CleanInv, RaceTypeOK, Progress
<1>16. CASE Done
  BY <1>16 DEF Done, CleanInv, RaceTypeOK, Progress
<1> QED BY <1>1, <1>2, <1>3, <1>4, <1>5, <1>6, <1>7, <1>8, <1>9, <1>10, <1>11, <1>12,
    <1>13, <1>14, <1>15, <1>16 DEF RaceNext, Step, Main

-----------------------------------------------------------------------------
(* The theorems.                                                           *)

LEMMA RaceStart ==
  ASSUME CloseRaceAssumption, RaceInit PROVE RaceInv /\ CleanInv
<1>1. RaceTypeOK
  BY DEF RaceInit, RaceTypeOK, CloseRaceAssumption, Modes
<1>2. Readings /\ History /\ Progress
  BY DEF RaceInit, Readings, History, Progress, Modes
<1>3. Noted /\ Rounded /\ CleanInv
  BY DEF RaceInit, Noted, Rounded, CleanInv, Modes
<1> QED BY <1>1, <1>2, <1>3 DEF RaceInv

LEMMA RaceSteps ==
  ASSUME CloseRaceAssumption, RaceInv, CleanInv, [RaceNext]_raceVars PROVE RaceInv' /\ CleanInv'
<1>1. CASE RaceNext
  <2>1. RaceTypeOK' /\ Progress'
    BY <1>1, TypeStep, ProgressStep DEF RaceInv
  <2>2. Readings' /\ History' /\ CleanInv'
    BY <1>1, <2>1, ReadingsStep, HistoryStep, CleanStep DEF RaceInv
  <2>3. Noted' /\ Rounded'
    BY <1>1, <2>1, NotedStep, RoundedStep DEF RaceInv
  <2> QED BY <2>1, <2>2, <2>3 DEF RaceInv
<1>2. CASE UNCHANGED raceVars
  <2> USE <1>2 DEF raceVars
  <2>1. RaceTypeOK' = RaceTypeOK /\ Readings' = Readings /\ History' = History
    BY DEF RaceTypeOK, Readings, History, Before
  <2>2. Progress' = Progress /\ Noted' = Noted /\ Rounded' = Rounded
    BY DEF Progress, Noted, Rounded
  <2>3. CleanInv' = CleanInv
    BY DEF CleanInv, CleanRound, Before
  <2> QED BY <2>1, <2>2, <2>3 DEF RaceInv
<1> QED BY <1>1, <1>2

(***************************************************************************)
(* The invariants behind the verdicts hold in every state.                 *)
(***************************************************************************)
THEOREM RaceInductive == RaceSpec => [](RaceInv /\ CleanInv)
<1>1. RaceInit => RaceInv /\ CleanInv
  BY CloseRaceAssumption, RaceStart
<1>2. RaceInv /\ CleanInv /\ [RaceNext]_raceVars => (RaceInv /\ CleanInv)'
  BY CloseRaceAssumption, RaceSteps
<1> QED BY <1>1, <1>2, PTL DEF RaceSpec

(***************************************************************************)
(* Every variable keeps its type.                                          *)
(***************************************************************************)
THEOREM RaceTypeCorrect == RaceSpec => []RaceTypeOK
<1>1. RaceInv => RaceTypeOK
  BY DEF RaceInv
<1> QED BY RaceInductive, <1>1, PTL

(***************************************************************************)
(* Whatever the core does, its harm makes the mode fail, and a race that   *)
(* passes met in every round.                                              *)
(***************************************************************************)
THEOREM PassEarned == RaceSpec => []PassIsEarned
<1>1. RaceInv => PassIsEarned
  <2> SUFFICES ASSUME RaceInv PROVE PassIsEarned
    OBVIOUS
  <2>1. \A m \in harm : result[m] \in {"NONE", "FAIL"}
    BY DEF RaceInv, Noted, Progress, RaceTypeOK, Modes
  <2>2. harm # {} => code \in {-1, 1}
    BY DEF RaceInv, Noted, Progress, RaceTypeOK, Modes
  <2>3. result["race"] = "PASS" => missed = 0
    BY DEF RaceInv, Rounded
  <2> QED BY <2>1, <2>2, <2>3 DEF PassIsEarned
<1> QED BY RaceInductive, <1>1, PTL

(***************************************************************************)
(* No schedule makes a correct core fail, for any number of opens and      *)
(* rounds, unless two readings coincide, the clock shows 0 or the process  *)
(* is at fault.                                                            *)
(***************************************************************************)
THEOREM CorrectCoreNeverFails == RaceSpec => []NoFalseAlarm
<1>1. CleanInv => NoFalseAlarm
  BY DEF CleanInv, NoFalseAlarm
<1> QED BY RaceInductive, <1>1, PTL

-----------------------------------------------------------------------------
(* Progress.  The probe owes nothing, so that only the timer is awaited.   *)

\* Probe runs that are not over.
RunsLeft == IF mode = "control" THEN 2 ELSE IF mode = "race" THEN 1 ELSE 0

(***************************************************************************)
(* What makes the script end even when close and opens wait for each       *)
(* other: it has an exit code exactly when no probe run is left, until     *)
(* then the timer may fire, which no other step prevents without ending a  *)
(* run, and each time it fires it ends one (lines 47-51, 98-118).          *)
(***************************************************************************)
THEOREM ScriptComesCloser ==
  RaceSpec => /\ [](RunsLeft \in 0..2 /\ (code # -1 <=> RunsLeft = 0))
              /\ [][RunsLeft' <= RunsLeft /\ (TimeOut => RunsLeft' < RunsLeft)]_raceVars
<1>1. RaceInv => RunsLeft \in 0..2 /\ (code # -1 <=> RunsLeft = 0)
  BY DEF RaceInv, RaceTypeOK, Progress, Modes, RunsLeft
<1>2. ASSUME RaceInv, [RaceNext]_raceVars
      PROVE  RunsLeft' <= RunsLeft /\ (TimeOut => RunsLeft' < RunsLeft)
  <2>1. ASSUME NEW status, mode # "over", Conclude(status) PROVE RunsLeft' < RunsLeft
    <3>1. \/ mode = "control" /\ mode' = "race"
          \/ mode = "race" /\ mode' = "over"
      BY <1>2, <2>1 DEF Conclude, RaceInv, RaceTypeOK, Modes
    <3> QED
      BY <3>1 DEF RunsLeft
  <2>2. CASE ProbeExits \/ ProbeFails \/ TimeOut
    BY <2>1, <2>2 DEF ProbeExits, ProbeFails, TimeOut, RunsLeft
  <2>3. CASE ProbeChanged
    BY <1>2, <2>3 DEF ProbeChanged, RunsLeft, RaceInv, RaceTypeOK, Modes
  <2>4. CASE mode' = mode
    BY <2>1, <2>4 DEF RunsLeft, TimeOut
  <2> QED
    BY <1>2, <2>2, <2>3, <2>4
       DEF RaceNext, Step, Ready, Begin, Look, Answer, End, Shut, Settle, ClockTicks, Main,
           Positive, OpenGate, Emit, Done, batch, raceVars
<1> QED BY <1>1, <1>2, RaceInductive, PTL DEF RaceSpec

=============================================================================
