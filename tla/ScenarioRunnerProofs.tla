------------------------ MODULE ScenarioRunnerProofs ------------------------
(***************************************************************************)
(* Theorems of ScenarioRunner, for every number of steps and of lines: its *)
(* safety properties, and that its steps are steps of ScenarioContract.    *)
(***************************************************************************)
EXTENDS ScenarioRunner, TLAPS, SequenceTheorems

Looping  == pc \in {"select", "join"}
Tailing  == pc \in {"tail", "joinTail"}
Launched == proc # "none"
EofSeen  == StdoutEOF /\ consumed = Len(written)

(***************************************************************************)
(* The inductive invariant.  StepsInv: results form a prefix of PASS, one  *)
(* current step, a suffix of NOT_RUN.  ReadInv: the goroutine has read     *)
(* exactly one line per passed step, so a received line is the one of the  *)
(* current step.  TailInv: what an accepted end of file means.  WaitInv:   *)
(* what a nil error of cmd.Wait means.  EndInv: what a report that leaves  *)
(* as PASS has behind it.                                                  *)
(***************************************************************************)
StepsInv ==
  /\ \A i \in Steps : i < step => status[i] = "PASS"
  /\ \A i \in Steps : i > step => status[i] = "NOT_RUN"
  /\ pc \in {"check", "refused"} => step = 1 /\ consumed = 0 /\ ~Launched /\ io = "idle"
  /\ Supervising \/ pc = "returned" => Launched
  /\ pc \in {"check", "refused"} \/ Looping => status[step] = "NOT_RUN" /\ report = "PASS"
  /\ Launched /\ ~Looping /\ report = "PASS" => step = N /\ status[step] = "PASS"
  /\ pc # "exited" => exit = -1

ReadInv ==
  /\ Looping => io \in {"write", "read", "sent"}
  /\ Looping /\ io # "sent" => consumed = step - 1
  /\ Looping /\ io = "sent" => got = NoLine \/ (got = step /\ consumed = step)
  /\ Launched /\ ~Looping /\ status[step] = "PASS" => consumed = step
  /\ \A i \in Steps : status[i] = "PASS" => i <= Len(written) /\ written[i] = Good(i)
  /\ \A i \in Steps : actual[i] # NoLine =>
       actual[i] = i /\ i <= Len(written) /\ written[i].step = i
  /\ requests <= step
  /\ pc = "check" \/ io = "write" => requests < step

TailInv ==
  /\ Tailing => io \in {"tail", "sent"}
  /\ ~Looping /\ ~Tailing => io = "idle"
  /\ pc = "tail" /\ io = "sent" /\ got = EOF => EofSeen
  /\ pc = "joinTail" => trailing
  /\ pc \in {"wait", "watch", "drain", "verdict"} /\ ~trailing => EofSeen

WaitInv ==
  /\ pc \in {"watch", "drain", "verdict", "returned"} => Dead
  /\ pc \in {"drain", "verdict", "returned"} => watch = "gone"
  /\ pc \in {"watch", "drain", "verdict"} /\ ~waitErr => proc = "exit0"
  /\ pc = "verdict" /\ ~waitErr => ~exceeded /\ "stderr" \notin held

EndInv ==
  /\ pc = "returned" => inClosed /\ outClosed
  /\ pc \in {"returned", "exited"} /\ Launched /\ report = "PASS" =>
       EofSeen /\ proc = "exit0" /\ ~exceeded /\ held = {}
  /\ exit = 0 => pc = "exited" /\ Launched /\ report = "PASS"

IInv == StepsInv /\ ReadInv /\ TailInv /\ WaitInv /\ EndInv

(***************************************************************************)
(* Type correctness.                                                       *)
(***************************************************************************)
Outcomes == {"PASS", "FAIL", "UNSUPPORTED"}

\* Recording an outcome keeps the types, whatever the outcome is.
LEMMA SettleTyped ==
  ASSUME TypeOK, NEW outcome \in Outcomes, NEW a \in Int, Settle(outcome, a)
  PROVE  TypeOK'
<1> USE DEF TypeOK, Steps
<1>1. /\ status' \in [Steps -> {"NOT_RUN", "PASS", "FAIL", "UNSUPPORTED"}]
      /\ actual' \in [Steps -> Int]
  BY DEF Outcomes, Settle
<1>2. /\ step' \in Steps /\ pc' \in {"select", "closeIn"} /\ io' \in {"write", "idle"}
      /\ report' \in {"PASS", "FAIL", "INCOMPLETE"} /\ ctx' \in {"live", "done"}
  BY ScenarioAssumption DEF Outcomes, Settle
<1>3. UNCHANGED <<trailing, waitErr, exit, got, requests, consumed, inClosed,
                  outClosed, adapterVars>>
  BY DEF Settle
<1> QED
  BY <1>1, <1>2, <1>3 DEF adapterVars

\* Every variable of the runner and of the adapter keeps its type.
THEOREM TypeCorrect == Spec => []TypeOK
<1>1. Init => TypeOK
  <2> SUFFICES ASSUME Init PROVE TypeOK
    OBVIOUS
  <2>1. written \in Seq(Lines) /\ Len(written) = 0
    BY DEF Init
  <2>2. Len(written) <= MaxLines /\ consumed \in Nat /\ consumed <= Len(written)
    BY <2>1, ScenarioAssumption DEF Init
  <2>3. step \in Steps /\ actual \in [Steps -> Int]
    BY ScenarioAssumption DEF Init, Steps, NoLine
  <2> QED
    BY <2>1, <2>2, <2>3 DEF Init, TypeOK, NoLine
<1>2. TypeOK /\ [Next]_vars => TypeOK'
  <2> SUFFICES ASSUME TypeOK, [Next]_vars PROVE TypeOK'
    OBVIOUS
  <2> USE DEF TypeOK, Steps, runnerVars, ioVars, pipeVars, adapterVars
  <2>1. CASE Refuse
    BY <2>1 DEF Refuse
  <2>2. CASE Launch
    BY <2>2 DEF Launch
  <2>3. CASE TakeAnswer
    <3> DEFINE a == IF Observed(step, got) THEN got ELSE NoLine
    <3>1. Outcome(step, got) \in Outcomes /\ a \in Int
      BY DEF Outcomes, Outcome, NoLine
    <3>2. Settle(Outcome(step, got), a)
      BY <2>3 DEF TakeAnswer
    <3> QED
      BY <3>1, <3>2, SettleTyped
  <2>4. CASE TakeTimeout
    BY <2>4 DEF TakeTimeout
  <2>5. CASE TakeDeadline
    BY <2>5 DEF TakeDeadline
  <2>6. CASE Join
    BY <2>6, SettleTyped DEF Join, NoLine, Outcomes
  <2>7. CASE CloseInput
    BY <2>7 DEF CloseInput
  <2>8. CASE TakeTail
    BY <2>8 DEF TakeTail
  <2>9. CASE TakeTailDeadline
    BY <2>9 DEF TakeTailDeadline
  <2>10. CASE JoinTail
    BY <2>10 DEF JoinTail
  <2>11. CASE Reap
    BY <2>11 DEF Reap
  <2>12. CASE StopWatcher
    BY <2>12 DEF StopWatcher
  <2>13. CASE DrainStderr
    BY <2>13 DEF DrainStderr
  <2>14. CASE Return
    BY <2>14 DEF Return
  <2>15. CASE Exit
    BY <2>15 DEF Exit
  <2>16. CASE WriteRequest
    BY <2>16 DEF WriteRequest
  <2>17. CASE WriteFails
    BY <2>17 DEF WriteFails, NoLine, EOF
  <2>18. CASE ReadLine
    BY <2>18 DEF ReadLine, Unread
  <2>19. CASE ReadFails
    BY <2>19 DEF ReadFails, Unread, NoLine, EOF
  <2>20. CASE ReadTail
    BY <2>20 DEF ReadTail, Unread, NoLine, EOF
  <2>21. CASE Expire
    BY <2>21 DEF Expire
  <2>22. CASE KillGroup
    BY <2>22 DEF KillGroup
  <2>23. ASSUME NEW line \in Lines, AdapterWrites(line) PROVE TypeOK'
    <3>1. Append(written, line) \in Seq(Lines) /\ Len(Append(written, line)) = Len(written) + 1
      BY <2>23, AppendProperties
    <3>2. written' \in Seq(Lines) /\ Len(written') <= MaxLines /\ consumed <= Len(written')
      BY <2>23, <3>1, ScenarioAssumption DEF AdapterWrites
    <3>3. blame' \in SUBSET {"adapter", "clock"}
      BY <2>23 DEF AdapterWrites
    <3>4. UNCHANGED <<runnerVars, ioVars, pipeVars, watch, proc, shut, held, exceeded>>
      BY <2>23 DEF AdapterWrites
    <3> QED
      BY <3>2, <3>3, <3>4
  <2>24. ASSUME NEW code \in {"exit0", "exit1"}, AdapterExits(code) PROVE TypeOK'
    BY <2>24 DEF AdapterExits
  <2>25. ASSUME NEW fds \in SUBSET {"stdout", "stderr"} \ {{}}, AdapterForks(fds) PROVE TypeOK'
    BY <2>25 DEF AdapterForks
  <2>26. CASE DescendantsExit
    BY <2>26 DEF DescendantsExit
  <2>27. CASE AdapterFloods
    BY <2>27 DEF AdapterFloods
  <2>28. CASE UNCHANGED vars
    BY <2>28 DEF vars
  <2>29. CASE AdapterShuts
    BY <2>29 DEF AdapterShuts
  <2>30. CASE WriteBreaks
    BY <2>30 DEF WriteBreaks, NoLine
  <2> HIDE DEF TypeOK, Steps, runnerVars, ioVars, pipeVars, adapterVars
  <2> QED
    BY <2>1, <2>2, <2>3, <2>4, <2>5, <2>6, <2>7, <2>8, <2>9, <2>10, <2>11, <2>12, <2>13, <2>14,
       <2>15, <2>16, <2>17, <2>18, <2>19, <2>20, <2>21, <2>22, <2>23, <2>24, <2>25, <2>26, <2>27, <2>28,
       <2>29, <2>30
    DEF Next, Runner, Goroutine, Adapter, Terminated
<1> QED
  BY <1>1, <1>2, PTL DEF Spec

(***************************************************************************)
(* The end of a step keeps the invariant when a PASS stands on the         *)
(* expected line and a recorded observation on the line of its step.       *)
(***************************************************************************)
LEMMA SettleKeepsInv ==
  ASSUME TypeOK, TypeOK', IInv, Looping, io = "sent",
         NEW outcome \in Outcomes, NEW a \in Int, Settle(outcome, a),
         outcome = "PASS" => got = step /\ written[step] = Good(step),
         a # NoLine => /\ a = step /\ step <= Len(written)
                       /\ written[step].step = step
  PROVE  IInv'
<1> USE DEF TypeOK, Steps, IInv, StepsInv, Looping, Supervising, Launched,
            adapterVars, Outcomes
<1>1. /\ step \in Steps /\ \A i \in Steps : i # step => status'[i] = status[i] /\ actual'[i] = actual[i]
      /\ status'[step] = outcome /\ actual'[step] = a
      /\ UNCHANGED <<trailing, waitErr, exit, got, requests, consumed, inClosed,
                     outClosed, watch, proc, shut, held, written, exceeded, blame>>
  BY DEF Settle
<1>2. CASE outcome = "PASS" /\ step < N
  <2>1. step' = step + 1 /\ pc' = "select" /\ io' = "write" /\ report' = report
    BY <1>2 DEF Settle
  <2>2. StepsInv'
    BY <1>1, <1>2, <2>1
  <2>3. ReadInv'
    BY <1>1, <1>2, <2>1 DEF ReadInv, NoLine
  <2>4. TailInv' /\ WaitInv' /\ EndInv'
    BY <1>1, <2>1 DEF TailInv, WaitInv, EndInv, Tailing
  <2> QED
    BY <2>2, <2>3, <2>4
<1>3. CASE outcome # "PASS" \/ step = N
  <2>1. /\ step' = step /\ pc' = "closeIn" /\ io' = "idle"
        /\ outcome = "PASS" => report' = "PASS" /\ step = N
        /\ outcome # "PASS" => report' # "PASS"
    BY <1>3 DEF Settle
  <2>2. StepsInv'
    BY <1>1, <2>1
  <2>3. ReadInv'
    BY <1>1, <2>1 DEF ReadInv, NoLine
  <2>4. TailInv' /\ WaitInv' /\ EndInv'
    BY <1>1, <2>1 DEF TailInv, WaitInv, EndInv, Tailing
  <2> QED
    BY <2>2, <2>3, <2>4
<1> QED
  BY <1>2, <1>3, ScenarioAssumption

\* The strengthened invariant holds in every reachable state.
THEOREM Inductive == Spec => []IInv
<1>1. Init => IInv
  BY ScenarioAssumption DEF Init, IInv, StepsInv, ReadInv, TailInv, WaitInv, EndInv,
     Looping, Tailing, Launched, Supervising, Steps, NoLine
<1>2. TypeOK /\ TypeOK' /\ IInv /\ [Next]_vars => IInv'
  <2> SUFFICES ASSUME TypeOK, TypeOK', IInv, [Next]_vars PROVE IInv'
    OBVIOUS
  <2> USE DEF TypeOK, Steps, runnerVars, ioVars, pipeVars, adapterVars,
              IInv, StepsInv, ReadInv, TailInv, WaitInv, EndInv, Looping, Tailing,
              Launched, Supervising, Dead, StdoutEOF, EofSeen, NoLine, EOF
  <2>1. CASE Refuse
    BY <2>1 DEF Refuse
  <2>2. CASE Launch
    BY <2>2 DEF Launch
  <2>3. CASE TakeAnswer
    <3> DEFINE a == IF Observed(step, got) THEN got ELSE NoLine
    <3>1. Outcome(step, got) \in Outcomes /\ a \in Int
      BY DEF Outcomes, Outcome
    <3>2. Settle(Outcome(step, got), a) /\ pc = "select" /\ io = "sent"
      BY <2>3 DEF TakeAnswer
    <3>3. ASSUME Observed(step, got)
          PROVE  got = step /\ step <= Len(written) /\ written[step].step = step
      BY <3>2, <3>3 DEF Observed
    <3>4. ASSUME Outcome(step, got) = "PASS"
          PROVE  got = step /\ written[step] = Good(step)
      <4>1. Observed(step, got) /\ written[got].kind = "match"
        BY <3>4 DEF Outcome
      <4>2. written[step] \in Lines
        BY <4>1, <3>3
      <4> QED
        BY <4>1, <4>2, <3>3 DEF Lines, Good, Malformed, Unterminated
    <3> HIDE DEF a
    <3> QED
      BY <3>1, <3>2, <3>3, <3>4, SettleKeepsInv DEF a
  <2>4. CASE TakeTimeout
    BY <2>4 DEF TakeTimeout
  <2>5. CASE TakeDeadline
    BY <2>5 DEF TakeDeadline
  <2>6. CASE Join
    <3>1. Settle("FAIL", NoLine) /\ Looping /\ io = "sent" /\ "FAIL" \in Outcomes /\ NoLine \in Int
      BY <2>6 DEF Join, Outcomes
    <3> QED
      BY <3>1, SettleKeepsInv
  <2>7. CASE CloseInput
    BY <2>7 DEF CloseInput
  <2>8. CASE TakeTail
    BY <2>8 DEF TakeTail
  <2>9. CASE TakeTailDeadline
    BY <2>9 DEF TakeTailDeadline
  <2>10. CASE JoinTail
    BY <2>10 DEF JoinTail
  <2>11. CASE Reap
    BY <2>11 DEF Reap
  <2>12. CASE StopWatcher
    BY <2>12 DEF StopWatcher
  <2>13. CASE DrainStderr
    BY <2>13 DEF DrainStderr
  <2>14. CASE Return
    BY <2>14 DEF Return
  <2>15. CASE Exit
    BY <2>15 DEF Exit
  <2>16. CASE WriteRequest
    BY <2>16 DEF WriteRequest
  <2>17. CASE WriteFails
    BY <2>17 DEF WriteFails
  <2>18. CASE ReadLine
    BY <2>18 DEF ReadLine, Unread
  <2>19. CASE ReadFails
    BY <2>19 DEF ReadFails, Unread
  <2>20. CASE ReadTail
    BY <2>20 DEF ReadTail, Unread
  <2>21. CASE Expire
    BY <2>21 DEF Expire
  <2>22. CASE KillGroup
    BY <2>22 DEF KillGroup
  <2>23. ASSUME NEW line \in Lines, AdapterWrites(line) PROVE IInv'
    BY <2>23 DEF AdapterWrites
  <2>24. ASSUME NEW code \in {"exit0", "exit1"}, AdapterExits(code) PROVE IInv'
    BY <2>24 DEF AdapterExits
  <2>25. ASSUME NEW fds \in SUBSET {"stdout", "stderr"} \ {{}}, AdapterForks(fds) PROVE IInv'
    BY <2>25 DEF AdapterForks
  <2>26. CASE DescendantsExit
    BY <2>26 DEF DescendantsExit
  <2>27. CASE AdapterFloods
    BY <2>27 DEF AdapterFloods
  <2>28. CASE UNCHANGED vars
    BY <2>28 DEF vars
  <2>29. CASE AdapterShuts
    BY <2>29 DEF AdapterShuts
  <2>30. CASE WriteBreaks
    BY <2>30 DEF WriteBreaks, NoLine
  <2> HIDE DEF TypeOK, Steps, runnerVars, ioVars, pipeVars, adapterVars, IInv, StepsInv,
               ReadInv, TailInv, WaitInv, EndInv
  <2> QED
    BY <2>1, <2>2, <2>3, <2>4, <2>5, <2>6, <2>7, <2>8, <2>9, <2>10, <2>11, <2>12, <2>13, <2>14,
       <2>15, <2>16, <2>17, <2>18, <2>19, <2>20, <2>21, <2>22, <2>23, <2>24, <2>25, <2>26, <2>27, <2>28,
       <2>29, <2>30
    DEF Next, Runner, Goroutine, Adapter, Terminated
<1> QED
  BY <1>1, <1>2, TypeCorrect, PTL DEF Spec

(***************************************************************************)
(* Exit code 0 is earned: the adapter's whole output was the expected      *)
(* answers, in order, it exited with success and left nobody behind.       *)
(***************************************************************************)
THEOREM ExitZeroIsEarned == Spec => []PassIsEarned
<1>1. TypeOK /\ IInv => PassIsEarned
  <2> SUFFICES ASSUME TypeOK, IInv, exit = 0 PROVE PassIsEarned
    BY DEF PassIsEarned
  <2>1. pc = "exited" /\ Launched /\ report = "PASS"
    BY DEF IInv, EndInv
  <2>2. EofSeen /\ proc = "exit0" /\ ~exceeded /\ held = {}
    BY <2>1 DEF IInv, EndInv
  <2>3. step = N /\ status[N] = "PASS" /\ consumed = N
    BY <2>1 DEF IInv, StepsInv, ReadInv, Looping
  <2>4. \A i \in Steps : status[i] = "PASS"
    BY <2>3, ScenarioAssumption DEF IInv, StepsInv, Steps
  <2>5. Len(written) = N /\ \A i \in Steps : written[i] = Good(i)
    BY <2>2, <2>3, <2>4 DEF IInv, ReadInv, EofSeen
  <2>6. written = [i \in 1..Len(written) |-> written[i]]
    BY DEF TypeOK
  <2>7. written = [i \in Steps |-> Good(i)]
    BY <2>5, <2>6 DEF Steps
  <2> QED
    BY <2>2, <2>4, <2>7 DEF PassIsEarned
<1> QED
  BY <1>1, TypeCorrect, Inductive, PTL

(***************************************************************************)
(* A step that has not passed is followed by no result and no request.     *)
(***************************************************************************)
THEOREM FailureStopsTheRun == Spec => []FailureStops
<1>1. TypeOK /\ IInv => FailureStops
  <2> SUFFICES ASSUME TypeOK, IInv, NEW i \in Steps, status[i] # "PASS"
               PROVE  requests <= i /\ \A j \in Steps : j > i => status[j] = "NOT_RUN"
    BY DEF FailureStops
  <2>1. step <= i
    BY DEF TypeOK, IInv, StepsInv, Steps
  <2> QED
    BY <2>1, ScenarioAssumption DEF TypeOK, IInv, StepsInv, ReadInv, Steps
<1> QED
  BY <1>1, TypeCorrect, Inductive, PTL

(***************************************************************************)
(* The observation recorded for a step is the reply to its own request.    *)
(***************************************************************************)
THEOREM RepliesCorrelate == Spec => []ObservationsCorrelate
<1>1. IInv => ObservationsCorrelate
  BY DEF IInv, ReadInv, ObservationsCorrelate
<1> QED
  BY <1>1, Inductive, PTL

(***************************************************************************)
(* A returned run has left no goroutine, process, watcher or pipe.         *)
(***************************************************************************)
THEOREM EverythingIsReaped == Spec => []NothingLeftRunning
<1>1. IInv => NothingLeftRunning
  BY DEF IInv, TailInv, WaitInv, EndInv, NothingLeftRunning, Looping, Tailing
<1> QED
  BY <1>1, Inductive, PTL

(***************************************************************************)
(* No goroutine starts on the reader while another one may be using it.    *)
(***************************************************************************)
THEOREM ReaderHasOneUser == Spec => OneReader
<1>1. IInv /\ [Next]_vars =>
        [io' \in {"write", "tail"} /\ io' # io => io \in {"idle", "sent"}]_io
  BY DEF IInv, StepsInv, TailInv, Looping, Tailing, Next, Runner, Goroutine, Adapter,
     Terminated, vars, runnerVars, ioVars, pipeVars, adapterVars, Refuse, Launch,
     TakeAnswer, Settle, TakeTimeout, TakeDeadline, Join, CloseInput, TakeTail,
     TakeTailDeadline, JoinTail, Reap, StopWatcher, DrainStderr, Return, Exit,
     WriteRequest, WriteFails, ReadLine, ReadFails, ReadTail, Expire, KillGroup,
     AdapterWrites, AdapterExits, AdapterShuts,
     WriteBreaks, AdapterForks, DescendantsExit, AdapterFloods
<1> QED
  BY <1>1, Inductive, PTL DEF Spec, OneReader

(***************************************************************************)
(* While nobody is to blame the run is the intended one: the adapter has   *)
(* answered a prefix of the requests as expected, nothing was cancelled or *)
(* closed early, and every error flag of the runner is still down.         *)
(***************************************************************************)
CleanInv ==
  blame = {} =>
    /\ pc \notin {"join", "joinTail"} /\ report = "PASS"
    /\ ~trailing /\ ~waitErr /\ ~exceeded /\ held = {}
    /\ pc = "check" \/ Supervising => ctx = "live" /\ ~outClosed
    /\ inClosed => pc \notin {"check", "refused", "select", "closeIn"}
    /\ Len(written) <= requests
    /\ \A i \in 1..Len(written) : written[i] = Good(i)
    /\ proc \in {"none", "running", "exit0"}
    /\ (Dead => inClosed) /\ (shut => Len(written) = N)
    /\ watch # "killed" /\ (watch = "watching" => Supervising)
    /\ pc = "select" /\ io = "sent" => got # NoLine
    /\ pc = "tail" /\ io = "sent" => got = EOF

\* As long as nothing went wrong from the outside, the run has no failure
\* recorded: the invariant behind NoFalseAlarm.
THEOREM CleanRuns == Spec => []CleanInv
<1>1. Init => CleanInv
  BY DEF Init, CleanInv, Supervising, Dead, NoLine
<1>2. TypeOK /\ IInv /\ CleanInv /\ [Next]_vars => CleanInv'
  <2> SUFFICES ASSUME TypeOK, IInv, CleanInv, [Next]_vars, blame' = {} PROVE CleanInv'
    BY DEF CleanInv
  <2> USE DEF TypeOK, Steps, runnerVars, ioVars, pipeVars, adapterVars, IInv, StepsInv,
              ReadInv, TailInv, WaitInv, Looping, Tailing, Launched, Supervising, Dead,
              StdoutEOF, NoLine, EOF, CleanInv
  <2>1. CASE Refuse
    BY <2>1 DEF Refuse
  <2>2. CASE Launch
    BY <2>2 DEF Launch
  <2>3. CASE TakeAnswer
    <3>1. Settle(Outcome(step, got), IF Observed(step, got) THEN got ELSE NoLine)
          /\ pc = "select" /\ io = "sent" /\ blame = {}
      BY <2>3 DEF TakeAnswer, Settle
    <3>2. got = step /\ step \in 1..Len(written)
      BY <3>1
    <3>3. Outcome(step, got) = "PASS"
      <4>1. written[got] = [step |-> step, kind |-> "match"]
        BY <3>1, <3>2 DEF Good
      <4>2. Observed(step, got) /\ written[got].kind = "match"
        BY <3>2, <4>1 DEF Observed
      <4> QED
        BY <4>2 DEF Outcome
    <3>4. /\ report' = report /\ ctx' = ctx
          /\ \/ pc' = "select" /\ io' = "write"
             \/ pc' = "closeIn" /\ io' = "idle"
      BY <3>1, <3>3 DEF Settle
    <3>5. UNCHANGED <<trailing, waitErr, requests, inClosed, outClosed, adapterVars>>
      BY <3>1 DEF Settle
    <3> QED
      BY <3>1, <3>4, <3>5
  <2>4. CASE TakeTimeout
    BY <2>4 DEF TakeTimeout
  <2>5. CASE TakeDeadline
    BY <2>5 DEF TakeDeadline
  <2>6. CASE Join
    BY <2>6 DEF Join, Settle
  <2>7. CASE CloseInput
    BY <2>7 DEF CloseInput
  <2>8. CASE TakeTail
    BY <2>8 DEF TakeTail
  <2>9. CASE TakeTailDeadline
    BY <2>9 DEF TakeTailDeadline
  <2>10. CASE JoinTail
    BY <2>10 DEF JoinTail
  <2>11. CASE Reap
    BY <2>11 DEF Reap
  <2>12. CASE StopWatcher
    BY <2>12 DEF StopWatcher
  <2>13. CASE DrainStderr
    BY <2>13 DEF DrainStderr
  <2>14. CASE Return
    BY <2>14 DEF Return
  <2>15. CASE Exit
    BY <2>15 DEF Exit
  <2>16. CASE WriteRequest
    BY <2>16 DEF WriteRequest
  <2>17. CASE WriteFails
    BY <2>17 DEF WriteFails
  <2>18. CASE ReadLine
    BY <2>18 DEF ReadLine, Unread, Unterminated, Good
  <2>19. CASE ReadFails
    <3>1. io = "read" /\ blame = {} /\ pc = "select"
      BY <2>19 DEF ReadFails
    <3>2. ~outClosed /\ ~Dead /\ consumed = step - 1 /\ step \in 1..N /\ N \in Nat
      BY <3>1, ScenarioAssumption
    <3>3. shut /\ (Unread => written[consumed + 1] = Unterminated)
      BY <2>19, <3>2 DEF ReadFails
    <3>4. Len(written) = N /\ Unread
      BY <3>1, <3>2, <3>3 DEF Unread
    <3>5. written[consumed + 1] = Good(consumed + 1)
      BY <3>1, <3>2, <3>4
    <3>6. Good(consumed + 1) # Unterminated
      BY DEF Good, Unterminated
    <3> QED
      BY <3>3, <3>4, <3>5, <3>6
  <2>20. CASE ReadTail
    BY <2>20 DEF ReadTail, Unread
  <2>21. CASE Expire
    BY <2>21 DEF Expire
  <2>22. CASE KillGroup
    BY <2>22 DEF KillGroup
  <2>23. ASSUME NEW line \in Lines, AdapterWrites(line) PROVE CleanInv'
    BY <2>23 DEF AdapterWrites
  <2>24. ASSUME NEW code \in {"exit0", "exit1"}, AdapterExits(code) PROVE CleanInv'
    BY <2>24 DEF AdapterExits
  <2>25. ASSUME NEW fds \in SUBSET {"stdout", "stderr"} \ {{}}, AdapterForks(fds) PROVE CleanInv'
    BY <2>25 DEF AdapterForks
  <2>26. CASE DescendantsExit
    BY <2>26 DEF DescendantsExit
  <2>27. CASE AdapterFloods
    BY <2>27 DEF AdapterFloods
  <2>28. CASE UNCHANGED vars
    BY <2>28 DEF vars
  <2>29. CASE AdapterShuts
    BY <2>29 DEF AdapterShuts
  <2>30. CASE WriteBreaks
    BY <2>30 DEF WriteBreaks, NoLine
  <2> HIDE DEF TypeOK, Steps, runnerVars, ioVars, pipeVars, adapterVars, IInv, StepsInv,
               ReadInv, TailInv, WaitInv, CleanInv
  <2> QED
    BY <2>1, <2>2, <2>3, <2>4, <2>5, <2>6, <2>7, <2>8, <2>9, <2>10, <2>11, <2>12, <2>13, <2>14,
       <2>15, <2>16, <2>17, <2>18, <2>19, <2>20, <2>21, <2>22, <2>23, <2>24, <2>25, <2>26, <2>27, <2>28,
       <2>29, <2>30
    DEF Next, Runner, Goroutine, Adapter, Terminated
<1> QED
  BY <1>1, <1>2, TypeCorrect, Inductive, PTL DEF Spec

(***************************************************************************)
(* A report that is not PASS has somebody to blame for it.                 *)
(***************************************************************************)
THEOREM NoCleanRunFails == Spec => []NoFalseAlarm
<1>1. CleanInv => NoFalseAlarm
  BY DEF CleanInv, NoFalseAlarm
<1> QED
  BY <1>1, CleanRuns, PTL

-----------------------------------------------------------------------------
(* The run implements its contract, step by step.                          *)

(***************************************************************************)
(* Where the request of the current step is: not sent while the goroutine  *)
(* has still to write it, sent once a line may be read for it.  And after  *)
(* the loop the report says what the last result says.                     *)
(***************************************************************************)
RequestInv ==
  /\ pc = "check" => requests = 0
  /\ io = "write" => requests = step - 1
  /\ io = "read" => requests = step
  /\ Looping /\ io = "sent" /\ got # NoLine => requests = step
  /\ Supervising /\ ~Looping =>
       report = CASE status[step] = "PASS"        -> "PASS"
                  [] status[step] = "UNSUPPORTED" -> "INCOMPLETE"
                  [] OTHER                        -> "FAIL"

\* What the adapter, the watcher and the clock do does not touch a request.
LEMMA OthersKeepRequests ==
  ASSUME \/ Expire \/ KillGroup \/ TakeTail \/ JoinTail \/ CloseInput \/ TakeTailDeadline
         \/ Reap \/ StopWatcher \/ DrainStderr
         \/ \E line \in Lines : AdapterWrites(line)
         \/ \E c \in {"exit0", "exit1"} : AdapterExits(c)
         \/ \E fds \in SUBSET {"stdout", "stderr"} \ {{}} : AdapterForks(fds)
         \/ AdapterShuts \/ DescendantsExit \/ AdapterFloods \/ UNCHANGED vars
  PROVE  /\ UNCHANGED <<step, got, requests, status, report>>
         /\ \/ UNCHANGED <<pc, io>>
            \/ /\ Supervising /\ ~Looping /\ Supervising' /\ ~Looping'
               /\ io' \in {"idle", "tail", io}
  BY DEF Expire, KillGroup, TakeTail, JoinTail, CloseInput, TakeTailDeadline, Reap,
     StopWatcher, DrainStderr, AdapterWrites, AdapterExits, AdapterForks, AdapterShuts,
     DescendantsExit, AdapterFloods, vars, runnerVars, ioVars, pipeVars, adapterVars,
     Supervising, Looping

\* The end of a step: what is recorded and where the runner goes next.
LEMMA SettleMoves ==
  ASSUME TypeOK, NEW outcome \in Outcomes, NEW a, Settle(outcome, a)
  PROVE  /\ status' = [status EXCEPT ![step] = outcome] /\ status'[step] = outcome
         /\ UNCHANGED <<requests, got, exit, proc>>
         /\ \/ /\ outcome = "PASS" /\ step < N /\ step' = step + 1
               /\ pc' = "select" /\ io' = "write"
            \/ /\ outcome = "PASS" => step = N
               /\ step' = step /\ pc' = "closeIn" /\ io' = "idle"
               /\ report' = CASE outcome = "PASS"        -> report
                              [] outcome = "UNSUPPORTED" -> "INCOMPLETE"
                              [] OTHER                   -> "FAIL"
  BY DEF TypeOK, Settle, Outcomes, adapterVars

\* An outcome other than FAIL is read off a line, so its request had gone out.
LEMMA AnswerWasAsked ==
  ASSUME RequestInv, TakeAnswer, Outcome(step, got) # "FAIL"
  PROVE  requests = step
  BY DEF RequestInv, TakeAnswer, Outcome, Observed, Looping

\* Requests and reports stay in step with the loop.
THEOREM RequestsInOrder == Spec => []RequestInv
<1>1. Init => RequestInv
  BY DEF Init, RequestInv, Looping, Supervising
<1>2. TypeOK /\ IInv /\ RequestInv /\ [Next]_vars => RequestInv'
  <2> SUFFICES ASSUME TypeOK, IInv, RequestInv, [Next]_vars PROVE RequestInv'
    OBVIOUS
  <2> USE DEF RequestInv, Looping, Supervising
  <2>1. /\ io \in {"write", "read"} => pc \in {"select", "join"}
        /\ step \in Int /\ requests \in Int
    BY DEF IInv, TailInv, Tailing, TypeOK, Steps
  <2>2. CASE Refuse \/ Launch
    BY <2>1, <2>2 DEF Refuse, Launch, IInv, StepsInv, ioVars
  <2>3. CASE TakeAnswer
    <3>1. Settle(Outcome(step, got), IF Observed(step, got) THEN got ELSE NoLine)
          /\ Outcome(step, got) \in Outcomes /\ pc = "select"
      BY <2>3 DEF TakeAnswer, Outcome, Outcomes
    <3>2. report = "PASS"
      BY <3>1 DEF IInv, StepsInv
    <3> HIDE DEF RequestInv
    <3>3. Outcome(step, got) # "FAIL" => requests = step
      BY <2>3, AnswerWasAsked
    <3> QED
      BY <2>1, <3>1, <3>2, <3>3, SettleMoves DEF RequestInv, Outcomes
  <2>4. CASE TakeTimeout \/ TakeDeadline
    BY <2>1, <2>4 DEF TakeTimeout, TakeDeadline, ioVars
  <2>5. CASE Join
    <3>1. Settle("FAIL", NoLine) /\ "FAIL" \in Outcomes
      BY <2>5 DEF Join, Outcomes
    <3> QED
      BY <2>1, <3>1, SettleMoves
  <2>6. CASE Return \/ Exit
    BY <2>1, <2>6 DEF Return, Exit, ioVars
  <2>7. CASE WriteRequest \/ ReadLine \/ ReadTail
    BY <2>1, <2>7 DEF WriteRequest, ReadLine, ReadTail, runnerVars, IInv, ReadInv
  <2>9. CASE WriteFails \/ WriteBreaks \/ ReadFails
    BY <2>1, <2>9 DEF WriteFails, WriteBreaks, ReadFails, runnerVars
  <2>8. CASE \/ Expire \/ KillGroup \/ TakeTail \/ JoinTail \/ CloseInput \/ TakeTailDeadline
             \/ Reap \/ StopWatcher \/ DrainStderr
             \/ \E line \in Lines : AdapterWrites(line)
             \/ \E c \in {"exit0", "exit1"} : AdapterExits(c)
             \/ \E fds \in SUBSET {"stdout", "stderr"} \ {{}} : AdapterForks(fds)
             \/ AdapterShuts \/ DescendantsExit \/ AdapterFloods \/ UNCHANGED vars
    BY <2>1, <2>8, OthersKeepRequests
  <2> QED
    BY <2>2, <2>3, <2>4, <2>5, <2>6, <2>7, <2>8, <2>9
    DEF Next, Runner, Goroutine, Adapter, Terminated
<1> QED
  BY <1>1, <1>2, TypeCorrect, Inductive, PTL DEF Spec

\* The phase and the verdict the contract sees.
Phase   == CASE pc \in {"check", "refused", "returned", "exited"} -> pc
             [] pc \in {"select", "join"} -> "running"
             [] OTHER -> "closing"
Verdict == IF pc \in {"returned", "exited"} /\ proc # "none" THEN report ELSE "none"

\* A step that leaves phase, step, requests, results, report and exit alone stutters.
LEMMA QuietSteps ==
  ASSUME UNCHANGED <<step, requests, status, exit>>, Phase' = Phase, Verdict' = Verdict
  PROVE  UNCHANGED Contract!vars
  BY DEF Contract!vars, Phase, Verdict

\* The end of a step is the contract's judgement of it.
LEMMA SettleIsJudge ==
  ASSUME TypeOK, Looping, NEW outcome \in Outcomes, NEW a, Settle(outcome, a),
         outcome # "FAIL" => requests = step
  PROVE  Contract!Next
<1>1. /\ Phase = "running" /\ Verdict = "none" /\ Verdict' = "none"
      /\ status' = [status EXCEPT ![step] = outcome] /\ UNCHANGED <<requests, exit>>
      /\ IF outcome = "PASS" /\ step < N
         THEN step' = step + 1 /\ Phase' = "running"
         ELSE Phase' = "closing" /\ step' = step
  BY SettleMoves, ScenarioAssumption DEF Looping, Phase, Verdict, TypeOK, Steps
<1>2. Contract!Judge(outcome)
  BY <1>1 DEF Contract!Judge, Phase, Verdict
<1> QED
  BY <1>2 DEF Contract!Next, Outcomes

\* Every step of the run is a step of the contract or invisible to it.
LEMMA StepImplements ==
  ASSUME TypeOK, IInv, RequestInv, [Next]_vars
  PROVE  [Contract!Next]_(Contract!vars)
<1>1. CASE Refuse \/ Launch
  <2>1. /\ Phase = "check" /\ Verdict = "none" /\ Verdict' = "none"
        /\ Phase' \in {"running", "refused"}
        /\ UNCHANGED <<step, requests, status, exit>>
    BY <1>1 DEF Refuse, Launch, Phase, Verdict, ioVars, adapterVars
  <2>2. Contract!Start(Phase')
    BY <2>1 DEF Contract!Start, Phase, Verdict
  <2> QED
    BY <2>1, <2>2 DEF Contract!Next
<1>2. CASE TakeAnswer
  <2>1. Settle(Outcome(step, got), IF Observed(step, got) THEN got ELSE NoLine)
        /\ Outcome(step, got) \in Outcomes /\ Looping
    BY <1>2 DEF TakeAnswer, Outcome, Outcomes, Looping
  <2>2. Outcome(step, got) # "FAIL" => requests = step
    BY <1>2, AnswerWasAsked
  <2> QED
    BY <2>1, <2>2, SettleIsJudge
<1>3. CASE Join
  <2>1. Settle("FAIL", NoLine) /\ "FAIL" \in Outcomes /\ Looping
    BY <1>3 DEF Join, Outcomes, Looping
  <2> QED
    BY <2>1, SettleIsJudge
<1>4. CASE WriteRequest
  <2>1. /\ pc \in {"select", "join"} /\ requests = step - 1 /\ requests \in Int /\ step \in Int
    BY <1>4 DEF WriteRequest, RequestInv, IInv, TailInv, Looping, Tailing, TypeOK, Steps
  <2>2. /\ Phase = "running" /\ requests' = step /\ UNCHANGED <<step, status, exit>>
        /\ Phase' = Phase /\ Verdict' = Verdict
    BY <1>4, <2>1 DEF WriteRequest, Phase, Verdict, runnerVars, adapterVars
  <2>3. Contract!Ask
    BY <2>1, <2>2 DEF Contract!Ask, Phase, Verdict
  <2> QED
    BY <2>3 DEF Contract!Next
<1>5. CASE Return
  <2>1. /\ Phase = "closing" /\ Phase' = "returned" /\ Verdict' = report'
        /\ UNCHANGED <<step, requests, status, exit>>
    BY <1>5 DEF Return, Phase, Verdict, IInv, StepsInv, Supervising, Launched, ioVars, adapterVars
  <2>2. report = CASE status[step] = "PASS"        -> "PASS"
                   [] status[step] = "UNSUPPORTED" -> "INCOMPLETE"
                   [] OTHER                        -> "FAIL"
    BY <1>5 DEF Return, RequestInv, Supervising, Looping
  <2>3. report' = report \/ (report = "PASS" /\ report' = "FAIL")
    BY <1>5 DEF Return
  <2>4. report' \in CASE status[step] = "PASS"        -> {"PASS", "FAIL"}
                      [] status[step] = "UNSUPPORTED" -> {"INCOMPLETE"}
                      [] OTHER                        -> {"FAIL"}
    BY <2>2, <2>3
  <2>5. Contract!Publish
    BY <2>1, <2>4 DEF Contract!Publish, Phase, Verdict
  <2> QED
    BY <2>5 DEF Contract!Next
<1>6. CASE Exit
  <2>1. /\ Phase \in {"returned", "refused"} /\ Phase' = "exited" /\ Verdict' = Verdict
        /\ Verdict = IF pc = "returned" THEN report ELSE "none"
        /\ UNCHANGED <<step, requests, status>>
    BY <1>6 DEF Exit, Phase, Verdict, IInv, StepsInv, Launched, ioVars, adapterVars
  <2>2. exit' \in CASE Verdict = "PASS"       -> {0, 2}
                    [] Verdict = "INCOMPLETE" -> {3, 2}
                    [] Verdict = "FAIL"       -> {1, 2}
                    [] OTHER                  -> {2}
    BY <1>6, <2>1 DEF Exit, TypeOK
  <2>3. Contract!Leave
    BY <2>1, <2>2 DEF Contract!Leave, Phase, Verdict
  <2> QED
    BY <2>3 DEF Contract!Next
<1>7. CASE TakeTimeout \/ TakeDeadline
  <2>1. /\ UNCHANGED <<step, requests, status, exit>> /\ Phase' = Phase /\ Verdict' = Verdict
    BY <1>7 DEF TakeTimeout, TakeDeadline, Phase, Verdict, ioVars
  <2> QED
    BY <2>1, QuietSteps
<1>8. CASE \/ WriteFails \/ WriteBreaks \/ ReadLine \/ ReadFails \/ ReadTail
           \/ TakeTail \/ JoinTail \/ CloseInput \/ TakeTailDeadline \/ Reap \/ DrainStderr
  <2>1. /\ UNCHANGED <<step, requests, status, exit>> /\ Phase' = Phase /\ Verdict' = Verdict
    BY <1>8 DEF WriteFails, WriteBreaks, ReadLine, ReadFails, ReadTail, TakeTail, JoinTail,
       CloseInput, TakeTailDeadline, Reap, DrainStderr, Phase, Verdict, runnerVars,
       ioVars, adapterVars
  <2> QED
    BY <2>1, QuietSteps
<1>9. CASE \/ StopWatcher \/ Expire \/ KillGroup
           \/ \E line \in Lines : AdapterWrites(line)
           \/ \E c \in {"exit0", "exit1"} : AdapterExits(c)
           \/ \E fds \in SUBSET {"stdout", "stderr"} \ {{}} : AdapterForks(fds)
           \/ AdapterShuts \/ DescendantsExit \/ AdapterFloods \/ UNCHANGED vars
  <2>1. UNCHANGED <<step, requests, status, exit, report>>
    BY <1>9 DEF StopWatcher, Expire, KillGroup, AdapterWrites, AdapterExits, AdapterForks,
       AdapterShuts, DescendantsExit, AdapterFloods, vars, runnerVars, ioVars
  <2>2. Phase' = Phase
    BY <1>9 DEF StopWatcher, Expire, KillGroup, AdapterWrites, AdapterExits, AdapterForks,
       AdapterShuts, DescendantsExit, AdapterFloods, vars, runnerVars, Phase
  <2>3. (proc' = "none") <=> (proc = "none")
    BY <1>9 DEF StopWatcher, Expire, KillGroup, AdapterWrites, AdapterExits, AdapterForks,
       AdapterShuts, DescendantsExit, AdapterFloods, vars, adapterVars
  <2>4. Verdict' = Verdict
    <3>1. pc' = pc \/ (pc = "watch" /\ pc' = "drain")
      BY <1>9 DEF StopWatcher, Expire, KillGroup, AdapterWrites, AdapterExits, AdapterForks,
         AdapterShuts, DescendantsExit, AdapterFloods, vars, runnerVars
    <3> QED
      BY <2>1, <2>3, <3>1 DEF Verdict
  <2> QED
    BY <2>1, <2>2, <2>4, QuietSteps
<1> QED
  BY <1>1, <1>2, <1>3, <1>4, <1>5, <1>6, <1>7, <1>8, <1>9
  DEF Next, Runner, Goroutine, Adapter, Terminated

(***************************************************************************)
(* RunScenario and main implement the safety part of ScenarioContract, for *)
(* every number of steps: a request per step and only after every earlier  *)
(* step has passed, no result but FAIL without its request, one verdict at *)
(* the end that follows the last result and is only ever lowered.  The     *)
(* fairness of the contract stays with the run that checks it.             *)
(***************************************************************************)
THEOREM ContractIsKept == Spec => Contract!Init /\ [][Contract!Next]_(Contract!vars)
<1>1. Init => Contract!Init
  BY DEF Init, Contract!Init, Contract!Steps, Steps
<1>2. TypeOK /\ IInv /\ RequestInv /\ [Next]_vars => [Contract!Next]_(Contract!vars)
  BY StepImplements
<1> QED
  BY <1>1, <1>2, TypeCorrect, Inductive, RequestsInOrder, PTL DEF Spec

-----------------------------------------------------------------------------
(* Progress.  That a run ends needs fairness and stays with the run; what  *)
(* the fairness is applied to is proved: a rank no step raises, and a fair *)
(* action that is awaited while the rank stands still, and lowers it.      *)

Stage ==
  IF pc = "check" THEN 2 * N + 12
  ELSE IF pc = "select" THEN 2 * (N - step) + 11
  ELSE IF pc = "join" THEN 2 * (N - step) + 10
  ELSE IF pc = "closeIn" THEN 9
  ELSE IF pc = "tail" THEN 8
  ELSE IF pc = "joinTail" THEN 7
  ELSE IF pc = "wait" THEN 6
  ELSE IF pc = "watch" THEN 5
  ELSE IF pc = "drain" THEN 4
  ELSE IF pc = "verdict" THEN 3
  ELSE IF pc \in {"refused", "returned"} THEN 2 ELSE 0

\* What the goroutine, the deadline and the watcher have still to do.
Pending == IF io = "write" THEN 2 ELSE IF io \in {"read", "tail"} THEN 1 ELSE 0
Ticking == IF ctx = "live" THEN 1 ELSE 0
Watched == IF watch = "watching" THEN 1 ELSE 0
Rest    == Pending + Ticking + Watched

Rank == 10 * Stage + Rest

\* The guards of the fair actions, where they are awaited.
MayRun ==
  \/ pc \in {"check", "select", "closeIn", "watch", "drain", "verdict", "refused", "returned"}
  \/ pc \in {"join", "tail", "joinTail"} /\ io = "sent"
  \/ pc = "tail" /\ ctx = "done"
  \/ pc = "wait" /\ Dead
MayFail   == \/ pc = "join" /\ io \in {"write", "read"} /\ inClosed /\ outClosed
             \/ pc = "joinTail" /\ io = "tail" /\ outClosed
MayExpire == pc \in {"tail", "wait"} /\ ctx = "live"
MayKill   == watch = "watching" /\ ctx = "done"

SomebodyMay == pc # "exited" => MayRun \/ MayFail \/ MayExpire \/ MayKill

\* What a step does to the rank.
Lowers == Rank' < Rank
Stays  == /\ Rank' = Rank
          /\ MayRun => MayRun'
          /\ MayFail => MayFail'
          /\ MayExpire => MayExpire'
          /\ MayKill => MayKill'

(***************************************************************************)
(* A runner that waits for its goroutine has closed the pipe it is stuck   *)
(* in, and an adapter that lives is watched.                               *)
(***************************************************************************)
ProgressInv ==
  /\ pc = "join" => inClosed /\ outClosed
  /\ pc = "joinTail" => outClosed
  /\ proc = "running" => watch = "watching"

LEMMA ProgressKept ==
  ASSUME WaitInv, ProgressInv, [Next]_vars PROVE ProgressInv'
<1> USE DEF ProgressInv, ioVars, runnerVars, pipeVars, adapterVars
<1>1. CASE Refuse \/ Launch
  BY <1>1 DEF Refuse, Launch
<1>2. ASSUME NEW outcome, NEW a, Settle(outcome, a) PROVE ProgressInv'
  BY <1>2 DEF Settle
<1>3. CASE TakeAnswer \/ Join
  BY <1>2, <1>3 DEF TakeAnswer, Join
<1>4. CASE TakeTimeout \/ TakeDeadline \/ CloseInput
  BY <1>4 DEF TakeTimeout, TakeDeadline, CloseInput
<1>5. CASE TakeTail \/ TakeTailDeadline \/ JoinTail
  BY <1>5 DEF TakeTail, TakeTailDeadline, JoinTail
<1>6. CASE Reap \/ DrainStderr \/ Return \/ Exit
  BY <1>6 DEF Reap, DrainStderr, Return, Exit
<1>7. CASE StopWatcher
  BY <1>7 DEF StopWatcher, WaitInv, Dead
<1>8. CASE Goroutine \/ WriteRequest
  BY <1>8 DEF Goroutine, WriteFails, ReadLine, ReadFails, ReadTail, WriteRequest
<1>9. CASE Expire \/ KillGroup
  BY <1>9 DEF Expire, KillGroup
<1>10. ASSUME NEW line \in Lines, AdapterWrites(line) PROVE ProgressInv'
  BY <1>10 DEF AdapterWrites
<1>11. ASSUME NEW code \in {"exit0", "exit1"}, AdapterExits(code) PROVE ProgressInv'
  BY <1>11 DEF AdapterExits
<1>12. ASSUME NEW fds, AdapterForks(fds) PROVE ProgressInv'
  BY <1>12 DEF AdapterForks
<1>13. CASE AdapterShuts \/ WriteBreaks \/ DescendantsExit \/ AdapterFloods
  BY <1>13 DEF AdapterShuts, WriteBreaks, DescendantsExit, AdapterFloods
<1>14. CASE UNCHANGED vars
  BY <1>14 DEF vars
<1> QED
  BY <1>1, <1>3, <1>4, <1>5, <1>6, <1>7, <1>8, <1>9, <1>10, <1>11, <1>12, <1>13, <1>14
     DEF Next, Runner, Adapter, Terminated

LEMMA RankRange ==
  ASSUME TypeOK PROVE Rank \in Nat /\ Stage \in Nat /\ Rest \in 0..4
<1>1. step \in 1..N /\ N \in Nat
  BY ScenarioAssumption DEF TypeOK, Steps
<1>2. Stage \in Nat
  BY <1>1 DEF Stage
<1>3. Pending \in 0..2 /\ Ticking \in 0..1 /\ Watched \in 0..1
  BY DEF Pending, Ticking, Watched
<1>4. Rest \in 0..4
  BY <1>3 DEF Rest
<1> QED
  BY <1>2, <1>4 DEF Rank

\* The same of the next state, where the rank is a sum of two numbers.
LEMMA RankRangeNext ==
  ASSUME TypeOK' PROVE Stage' \in Nat /\ Rest' \in 0..4 /\ Rank' = 10 * Stage' + Rest'
<1>1. N - step' \in Nat /\ N \in Nat
  <2>1. N \in Nat /\ step' \in 1..N
    BY ScenarioAssumption DEF TypeOK, Steps
  <2>2. \A n \in Nat : \A k \in 1..n : n - k \in Nat
    OBVIOUS
  <2> QED
    BY <2>1, <2>2
<1>2. Stage' \in Nat
  <2>1. 2 * (N - step') + 11 \in Nat /\ 2 * (N - step') + 10 \in Nat /\ 2 * N + 12 \in Nat
    BY <1>1
  <2> QED
    BY <2>1, Zenon DEF Stage
<1>3. Rest' \in 0..4
  BY DEF Rest, Pending, Ticking, Watched
<1> QED
  BY <1>2, <1>3 DEF Rank

\* A later stage outweighs whatever is started for it.
LEMMA Weights ==
  ASSUME NEW s \in Nat, NEW t \in Nat, NEW a \in 0..4, NEW b \in 0..4
  PROVE  /\ t < s => 10 * t + b < 10 * s + a
         /\ b < a => 10 * s + b < 10 * s + a
<1>1. a \in Int /\ b \in Int /\ 0 <= a /\ b <= 4
  OBVIOUS
<1> QED
  BY <1>1

LEMMA StageFalls ==
  ASSUME TypeOK, TypeOK', Stage' < Stage PROVE Lowers
<1>1. Stage \in Nat /\ Rest \in 0..4 /\ Rank = 10 * Stage + Rest
  BY RankRange DEF Rank
<1>2. Stage' \in Nat /\ Rest' \in 0..4 /\ Rank' = 10 * Stage' + Rest'
  BY RankRangeNext
<1>3. 10 * Stage' + Rest' < 10 * Stage + Rest
  BY <1>1, <1>2, Weights
<1> QED
  BY <1>1, <1>2, <1>3 DEF Lowers

\* In the same stage the rank counts what is pending.
LEMMA SameStage ==
  ASSUME TypeOK, TypeOK', UNCHANGED <<pc, step>>
  PROVE  /\ Rest' < Rest => Lowers
         /\ UNCHANGED <<io, ctx, watch>> => Rank' = Rank
<1>1. Stage' = Stage
  BY DEF Stage
<1>2. UNCHANGED <<io, ctx, watch>> => Rest' = Rest
  BY DEF Rest, Pending, Ticking, Watched
<1>3. Rest' < Rest => Lowers
  BY <1>1, RankRange, RankRangeNext, Weights DEF Rank, Lowers
<1> QED
  BY <1>1, <1>2, <1>3 DEF Rank

LEMMA RunnerLowers ==
  ASSUME TypeOK, TypeOK', Runner PROVE Lowers
<1>0. step \in 1..N /\ step' \in 1..N /\ N \in 1..128
  BY ScenarioAssumption DEF TypeOK, Steps
<1>1. CASE Refuse \/ Launch
  <2>1. pc = "check" /\ pc' \in {"refused", "select"} /\ step' = step
    BY <1>1 DEF Refuse, Launch
  <2>2. Stage' < Stage
    BY <1>0, <2>1 DEF Stage
  <2> QED
    BY <2>2, StageFalls
<1>2. ASSUME NEW outcome, NEW a, Settle(outcome, a), pc \in {"select", "join"} PROVE Lowers
  <2>1. \/ pc' = "select" /\ step' = step + 1
        \/ pc' = "closeIn"
    BY <1>2 DEF Settle
  <2>2. Stage >= 2 * (N - step) + 10
    BY <1>0, <1>2 DEF Stage
  <2>3. CASE pc' = "select" /\ step' = step + 1
    <3>1. Stage' = 2 * (N - (step + 1)) + 11
      BY <2>3 DEF Stage
    <3>2. Stage' < Stage
      BY <1>0, <2>2, <3>1, RankRange
    <3> QED
      BY <3>2, StageFalls
  <2>4. CASE pc' = "closeIn"
    <3>1. Stage' = 9
      BY <2>4 DEF Stage
    <3>2. Stage' < Stage
      BY <1>0, <2>2, <3>1, RankRange
    <3> QED
      BY <3>2, StageFalls
  <2> QED
    BY <2>1, <2>3, <2>4
<1>3. CASE TakeAnswer \/ Join
  BY <1>2, <1>3 DEF TakeAnswer, Join
<1>4. CASE TakeTimeout \/ TakeDeadline
  <2>1. pc = "select" /\ pc' = "join" /\ step' = step
    BY <1>4 DEF TakeTimeout, TakeDeadline
  <2>2. Stage' < Stage
    BY <1>0, <2>1 DEF Stage
  <2> QED
    BY <2>2, StageFalls
<1>5. CASE CloseInput \/ TakeTail \/ TakeTailDeadline \/ JoinTail
  <2>1. \/ pc = "closeIn" /\ pc' = "tail"
        \/ pc = "tail" /\ pc' \in {"wait", "joinTail"}
        \/ pc = "joinTail" /\ pc' = "wait"
    BY <1>5 DEF CloseInput, TakeTail, TakeTailDeadline, JoinTail
  <2>2. Stage' < Stage
    BY <2>1 DEF Stage
  <2> QED
    BY <2>2, StageFalls
<1>6. CASE Reap \/ StopWatcher \/ DrainStderr \/ Return \/ Exit
  <2>1. \/ pc = "wait" /\ pc' = "watch"
        \/ pc = "watch" /\ pc' = "drain"
        \/ pc = "drain" /\ pc' = "verdict"
        \/ pc = "verdict" /\ pc' = "returned"
        \/ pc \in {"refused", "returned"} /\ pc' = "exited"
    BY <1>6 DEF Reap, StopWatcher, DrainStderr, Return, Exit
  <2>2. Stage' < Stage
    BY <2>1 DEF Stage
  <2> QED
    BY <2>2, StageFalls
<1> QED
  BY <1>1, <1>3, <1>4, <1>5, <1>6 DEF Runner

\* So does each step of the goroutine, the deadline and the watcher.
LEMMA HelpersLower ==
  ASSUME TypeOK, TypeOK', Goroutine \/ WriteRequest \/ WriteBreaks \/ Expire \/ KillGroup
  PROVE  Lowers
<1> USE DEF ioVars, runnerVars, pipeVars, adapterVars
<1>1. CASE Goroutine \/ WriteRequest \/ WriteBreaks
  <2>1. /\ UNCHANGED <<pc, step, ctx, watch>>
        /\ \/ io = "write" /\ io' \in {"read", "sent"}
           \/ io \in {"read", "tail"} /\ io' = "sent"
    BY <1>1 DEF Goroutine, WriteFails, ReadLine, ReadFails, ReadTail, WriteRequest, WriteBreaks
  <2>2. Pending' < Pending /\ Ticking' = Ticking /\ Watched' = Watched
    BY <2>1 DEF Pending, Ticking, Watched
  <2>3. Rest' < Rest
    BY <2>2 DEF Rest, Pending, Ticking, Watched
  <2> QED
    BY <2>1, <2>3, SameStage
<1>2. CASE Expire
  <2>1. UNCHANGED <<pc, step, io, watch>> /\ ctx = "live" /\ ctx' = "done"
    BY <1>2 DEF Expire
  <2>2. Pending' = Pending /\ Ticking = 1 /\ Ticking' = 0 /\ Watched' = Watched
    BY <2>1 DEF Pending, Ticking, Watched
  <2>3. Rest' < Rest
    BY <2>2 DEF Rest, Pending, Watched
  <2> QED
    BY <2>1, <2>3, SameStage
<1>3. CASE KillGroup
  <2>1. UNCHANGED <<pc, step, io, ctx>> /\ watch = "watching" /\ watch' = "killed"
    BY <1>3 DEF KillGroup
  <2>2. Pending' = Pending /\ Ticking' = Ticking /\ Watched = 1 /\ Watched' = 0
    BY <2>1 DEF Pending, Ticking, Watched
  <2>3. Rest' < Rest
    BY <2>2 DEF Rest, Pending, Ticking
  <2> QED
    BY <2>1, <2>3, SameStage
<1> QED
  BY <1>1, <1>2, <1>3

\* The adapter changes neither the rank nor what may be done about it.
LEMMA AdapterDoesNoHarm ==
  ASSUME TypeOK, TypeOK', Adapter \/ UNCHANGED vars PROVE Lowers \/ Stays
<1> USE DEF ioVars, runnerVars, pipeVars, adapterVars
<1>1. CASE WriteBreaks
  BY <1>1, HelpersLower
<1>2. ASSUME UNCHANGED <<pc, step, io, ctx, watch, inClosed, outClosed>>, Dead => Dead'
      PROVE  Stays
  <2>1. Rank' = Rank
    BY <1>2, SameStage
  <2>2. /\ MayRun => MayRun'
        /\ MayFail => MayFail'
        /\ MayExpire => MayExpire'
        /\ MayKill => MayKill'
    BY <1>2 DEF MayRun, MayFail, MayExpire, MayKill
  <2> QED
    BY <2>1, <2>2 DEF Stays
<1>3. ASSUME NEW line \in Lines, AdapterWrites(line) PROVE Stays
  BY <1>2, <1>3 DEF AdapterWrites, Dead
<1>4. ASSUME NEW code \in {"exit0", "exit1"}, AdapterExits(code) PROVE Stays
  BY <1>2, <1>4 DEF AdapterExits, Dead
<1>5. ASSUME NEW fds, AdapterForks(fds) PROVE Stays
  BY <1>2, <1>5 DEF AdapterForks, Dead
<1>6. CASE AdapterShuts \/ DescendantsExit \/ AdapterFloods
  BY <1>2, <1>6 DEF AdapterShuts, DescendantsExit, AdapterFloods, Dead
<1>7. CASE UNCHANGED vars
  BY <1>2, <1>7 DEF vars, Dead
<1> QED
  BY <1>1, <1>3, <1>4, <1>5, <1>6, <1>7 DEF Adapter

(***************************************************************************)
(* What makes RunScenario come back, for every number of steps: until the  *)
(* command has ended one of the fair actions may be taken (the runner's,   *)
(* its goroutine's once the pipe under it is closed, the deadline's or the *)
(* watcher's), each of them lowers the rank, and the adapter can neither   *)
(* raise it nor take the chance away (scenario.go:165-260).                *)
(***************************************************************************)
THEOREM RunComesCloser ==
  Spec => /\ [](Rank \in Nat /\ SomebodyMay)
          /\ [][ /\ Lowers \/ Stays
                 /\ Runner \/ Goroutine \/ Expire \/ KillGroup => Lowers ]_vars
<1>1. Init => ProgressInv
  BY DEF Init, ProgressInv
<1>2. IInv /\ ProgressInv /\ [Next]_vars => ProgressInv'
  BY ProgressKept DEF IInv
<1>3. TypeOK /\ IInv /\ ProgressInv => Rank \in Nat /\ SomebodyMay
  <2> SUFFICES ASSUME TypeOK, IInv, ProgressInv, pc # "exited"
               PROVE  MayRun \/ MayFail \/ MayExpire \/ MayKill
    BY RankRange DEF SomebodyMay
  <2>1. CASE pc \in {"join", "joinTail"}
    BY <2>1 DEF IInv, ReadInv, TailInv, Looping, Tailing, ProgressInv, MayRun, MayFail
  <2>2. CASE pc = "tail"
    BY <2>2 DEF IInv, TailInv, Tailing, TypeOK, MayRun, MayExpire
  <2>3. CASE pc = "wait"
    BY <2>3 DEF IInv, StepsInv, Supervising, Launched, TypeOK, ProgressInv, Dead,
                MayRun, MayExpire, MayKill
  <2> QED
    BY <2>1, <2>2, <2>3 DEF TypeOK, MayRun
<1>4. ASSUME TypeOK, TypeOK', [Next]_vars
      PROVE  /\ Lowers \/ Stays
             /\ Runner \/ Goroutine \/ Expire \/ KillGroup => Lowers
  BY <1>4, RunnerLowers, HelpersLower, AdapterDoesNoHarm DEF Next, Terminated
<1> QED
  BY <1>1, <1>2, <1>3, <1>4, TypeCorrect, Inductive, PTL DEF Spec

=============================================================================
