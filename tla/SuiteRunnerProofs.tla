-------------------------- MODULE SuiteRunnerProofs --------------------------
(***************************************************************************)
(* Theorems of SuiteRunner, for suites of any length.                      *)
(***************************************************************************)
EXTENDS SuiteRunner, TLAPS

(***************************************************************************)
(* What is known of a case that has its result, and of one still to come.  *)
(***************************************************************************)
Judged(c) ==
  /\ results[c] \in Statuses
  /\ results[c] = "FAIL" <=> Failed(c)
  /\ results[c] = "PASS" <=> answer[c] = "match" /\ ~Failed(c)

Untouched(c) == c \notin expired \cup faulty /\ answer[c] = "none"

CasesInv ==
  /\ \A c \in Cases : c < at => Judged(c)
  /\ \A c \in Cases : c > at \/ (c = at /\ pc = "case") => Untouched(c)
  /\ pc = "judge" => at \in faulty \/ answer[at] # "none"

(***************************************************************************)
(* A replaced executable: the case being checked, and every case after it, *)
(* cannot pass.                                                            *)
(***************************************************************************)
ReplacedInv ==
  /\ replaced # -1 =>
       \A c \in Cases : c > replaced /\ c < at => results[c] \notin {"PASS", "UNSUPPORTED"}
  /\ replaced # -1 /\ replaced < at =>
       pc \notin {"launch", "wait", "verify"} /\ (pc = "judge" => at \in faulty)
  /\ \A c \in Cases : c >= at => results[c] = ""

(***************************************************************************)
(* The end of a run, and its files.                                        *)
(***************************************************************************)
EndInv ==
  /\ pc \in Saving \cup {"print", "exit"} => at = N + 1
  /\ exit \notin {-1, 2} => at = N + 1 /\ exit = ExitCode
  /\ pc \notin {"exit", "lost"} => exit = -1
  /\ pc = "exit" => exit # -1
  /\ pc \in {"close", "rename"} => temp = "synced"
  /\ pc \in {"print", "exit", "case"} \cup Observing => temp = "none"
  /\ pc = "print" /\ reporting => path = Status
  /\ pc = "exit" /\ exit # 2 /\ reporting => path = Status
  /\ reporting => caller = "cli"
  /\ synced = TRUE /\ path # "torn"

IInv == TypeOK /\ OneAdapterAtATime /\ CasesInv /\ ReplacedInv /\ EndInv

\* A report has one of three statuses and exit codes.
LEMMA ReportRange == Status \in {"PASS", "FAIL", "INCOMPLETE"} /\ ExitCode \in {0, 1, 3}
BY DEF Status, ExitCode

\* A step keeps the types of the report files.
LEMMA FileTypesKept ==
  ASSUME FileTypes, [Next]_vars PROVE FileTypes'
<1> USE DEF FileTypes, files
<1>1. CASE UNCHANGED <<files, exit>>
  BY <1>1
<1>2. CASE Summarise
  BY <1>2, ReportRange DEF Summarise, Exit
<1>3. CASE Create \/ Write \/ Sync \/ CloseFile
  BY <1>3 DEF Create, Write, Sync, CloseFile, SaveStep, Exit
<1>4. CASE Rename
  BY <1>4, ReportRange DEF Rename, Exit
<1>5. CASE Show
  BY <1>5, ReportRange DEF Show, Exit
<1>6. CASE PowerLoss
  BY <1>6 DEF PowerLoss
<1> QED
  BY <1>1, <1>2, <1>3, <1>4, <1>5, <1>6
     DEF vars, Next, Runner, Timers, Environment, BeginCase, Check, Launch, Return, Verify, Judge,
         Expire, Kill, WaitDelay, Answer, Exceed, Quit, LetGo, Cancel, Replace

\* A replacement names a case, or none that was checked before it.
LEMMA ReplacedRange ==
  ASSUME RunTypes, Replace PROVE replaced' \in (-1)..N
<1>1. N \in Nat
  BY SuiteAssumption
<1>2. CASE pc \in {"case", "check"}
  <2>1. at \in 1..N+1 /\ replaced' = at - 1
    BY <1>2 DEF Replace, RunTypes
  <2> QED
    BY <1>1, <2>1
<1>3. CASE pc \notin {"case", "check"}
  <2>1. at \in 1..N /\ replaced' = at
    BY <1>3 DEF Replace, RunTypes, Cases, Observing
  <2> QED
    BY <1>1, <2>1
<1> QED
  BY <1>2, <1>3

\* A step keeps the types of the per-case facts.
LEMMA CaseTypesKept ==
  ASSUME RunTypes, CaseTypes, OneAdapterAtATime, [Next]_vars PROVE CaseTypes'
<1> USE DEF CaseTypes, world
<1>1. CASE UNCHANGED <<world, answer, faulty, results>>
  BY <1>1
<1>2. ASSUME NEW s \in Statuses, at \in Cases, Record(s), UNCHANGED <<world, answer, faulty>>
      PROVE  CaseTypes'
  BY <1>2 DEF Record
<1>3. CASE BeginCase
  BY <1>1, <1>2, <1>3 DEF BeginCase, Statuses
<1>4. CASE Judge
  BY <1>2, <1>4 DEF Judge, Statuses, RunTypes, Observing
<1>5. ASSUME pc \in Observing, UNCHANGED <<world, answer, results>>, faulty' \in {faulty, faulty \cup {at}}
      PROVE  CaseTypes'
  BY <1>5 DEF RunTypes
<1>6. CASE Check \/ Launch
  BY <1>1, <1>5, <1>6 DEF Check, Launch, Decline, Observing
<1>7. CASE Verify \/ Kill \/ WaitDelay
  BY <1>1, <1>5, <1>7 DEF Verify, Kill, WaitDelay, Observing
<1>8. CASE Exceed \/ Quit
  BY <1>5, <1>8 DEF Exceed, Quit, Observing, OneAdapterAtATime
<1>9. ASSUME NEW a \in Answers \ {"none"}, Answer(a) PROVE CaseTypes'
  BY <1>9 DEF Answer, OneAdapterAtATime, RunTypes, Observing
<1>10. CASE Expire \/ Cancel
  BY <1>10 DEF Expire, Cancel, RunTypes
<1>11. CASE Replace
  <2>1. replaced' \in (-1)..N
    BY <1>11, ReplacedRange
  <2> QED
    BY <1>11, <2>1 DEF Replace
<1> QED
  BY <1>1, <1>3, <1>4, <1>6, <1>7, <1>8, <1>9, <1>10, <1>11
     DEF vars, Next, Runner, Timers, Environment, Return, Summarise, Create, Write, Sync,
         CloseFile, SaveStep, Rename, Show, LetGo, PowerLoss

\* A step keeps the types of the program counter, the case and the child.
LEMMA RunTypesKept ==
  ASSUME RunTypes, [Next]_vars PROVE RunTypes'
<1> USE DEF RunTypes, given, child, Observing, Saving
<1>1. CASE UNCHANGED <<given, pc, at, child>>
  BY <1>1
<1>2. CASE BeginCase
  BY <1>2, SuiteAssumption DEF BeginCase, Record, Cases
<1>3. CASE Check \/ Launch
  BY <1>3 DEF Check, Launch, Decline
<1>4. CASE Return \/ Verify \/ WaitDelay
  BY <1>4 DEF Return, Verify, WaitDelay
<1>5. CASE Judge
  BY <1>5, SuiteAssumption DEF Judge, Record, Cases
<1>6. CASE Summarise \/ Rename \/ Show
  BY <1>6 DEF Summarise, Rename, Show, Exit
<1>7. CASE Create \/ Write \/ Sync \/ CloseFile
  BY <1>7 DEF Create, Write, Sync, CloseFile, SaveStep, Exit
<1>8. CASE Kill \/ Quit \/ LetGo
  BY <1>8 DEF Kill, Quit, LetGo
<1>9. CASE PowerLoss
  BY <1>9 DEF PowerLoss
<1> QED
  BY <1>1, <1>2, <1>3, <1>4, <1>5, <1>6, <1>7, <1>8, <1>9
     DEF vars, Next, Runner, Timers, Environment, Expire, Answer, Exceed, Cancel, Replace

\* A step never leaves a second adapter behind.
LEMMA OneAdapterKept ==
  ASSUME OneAdapterAtATime, [Next]_vars PROVE OneAdapterAtATime'
<1> USE DEF OneAdapterAtATime, child
<1>1. CASE UNCHANGED <<pc, child>>
  BY <1>1
<1>2. CASE BeginCase \/ Judge
  BY <1>2 DEF BeginCase, Judge, Record
<1>3. CASE Check \/ Launch
  BY <1>3 DEF Check, Launch, Decline
<1>4. CASE Return \/ Verify \/ WaitDelay \/ Kill \/ Quit \/ LetGo \/ PowerLoss
  BY <1>4 DEF Return, Verify, WaitDelay, Kill, Quit, LetGo, PowerLoss
<1>5. CASE Summarise \/ Rename \/ Show
  BY <1>5 DEF Summarise, Rename, Show, Exit
<1>6. CASE Create \/ Write \/ Sync \/ CloseFile
  BY <1>6 DEF Create, Write, Sync, CloseFile, SaveStep, Exit
<1> QED
  BY <1>1, <1>2, <1>3, <1>4, <1>5, <1>6
     DEF vars, Next, Runner, Timers, Environment, Expire, Answer, Exceed, Cancel, Replace

(***************************************************************************)
(* A step leaves alone what belongs to the cases not in hand.              *)
(***************************************************************************)
SameFor(c) ==
  /\ results'[c] = results[c] /\ answer'[c] = answer[c]
  /\ c \in expired' <=> c \in expired
  /\ c \in faulty' <=> c \in faulty

\* A step changes nothing about a case other than the current one.
LEMMA OthersAreLeftAlone ==
  ASSUME TypeOK, OneAdapterAtATime, [Next]_vars, NEW c \in Cases, c # at
  PROVE  SameFor(c)
<1> USE DEF SameFor, world
<1>1. CASE UNCHANGED <<world, answer, faulty, results>>
  BY <1>1
<1>2. ASSUME NEW s \in Statuses, Record(s), UNCHANGED <<world, answer, faulty>>
      PROVE  SameFor(c)
  BY <1>2 DEF Record, TypeOK, CaseTypes
<1>3. CASE BeginCase \/ Judge
  BY <1>1, <1>2, <1>3 DEF BeginCase, Judge, Statuses
<1>4. CASE Check \/ Launch
  BY <1>4 DEF Check, Launch, Decline
<1>5. CASE Verify \/ Kill \/ WaitDelay \/ Exceed \/ Quit
  BY <1>5 DEF Verify, Kill, WaitDelay, Exceed, Quit
<1>6. ASSUME NEW a \in Answers \ {"none"}, Answer(a) PROVE SameFor(c)
  BY <1>6 DEF Answer, TypeOK, CaseTypes
<1>7. CASE Expire \/ Cancel
  BY <1>7 DEF Expire, Cancel
<1>8. CASE Replace
  BY <1>8 DEF Replace
<1> QED
  BY <1>1, <1>3, <1>4, <1>5, <1>6, <1>7, <1>8
     DEF vars, Next, Runner, Timers, Environment, Return, Summarise, Create, Write, Sync,
         CloseFile, SaveStep, Rename, Show, LetGo, PowerLoss

(***************************************************************************)
(* The case in hand: the step gives it a status and takes the next one, or *)
(* keeps it.                                                               *)
(***************************************************************************)
JudgedStatus ==
  IF at \in expired \cup faulty THEN "FAIL"
  ELSE IF answer[at] = "match" THEN "PASS"
  ELSE IF answer[at] = "unsupported" THEN "UNSUPPORTED" ELSE "FAIL"

TakesNext ==
  /\ UNCHANGED <<answer, faulty, expired, replaced, reporting, caller, files, exit>>
  /\ \/ pc = "case" /\ at \in Cases /\ Record("NOT_RUN")
     \/ pc = "judge" /\ Record(JudgedStatus)

KeepsCase ==
  /\ at' = at /\ results' = results
  /\ pc' = "case" => pc = "case" /\ UNCHANGED <<answer, faulty, expired>>
  /\ pc' = "judge" =>
       \/ at \in faulty' \/ answer'[at] # "none"
       \/ pc = "judge" /\ UNCHANGED <<answer, faulty>>

\* A step either moves on to the next case or stays with the current one.
LEMMA StepOnCase ==
  ASSUME TypeOK, OneAdapterAtATime, [Next]_vars PROVE TakesNext \/ KeepsCase
<1> USE DEF world, child, given
<1>1. CASE BeginCase
  BY <1>1 DEF BeginCase, TakesNext, KeepsCase
<1>2. CASE Judge
  BY <1>2 DEF Judge, TakesNext, JudgedStatus
<1>3. CASE Check \/ Launch
  BY <1>3 DEF Check, Launch, Decline, KeepsCase
<1>4. CASE Return \/ WaitDelay \/ Kill \/ Exceed \/ Quit \/ LetGo
  BY <1>4 DEF Return, WaitDelay, Kill, Exceed, Quit, LetGo, OneAdapterAtATime, KeepsCase
<1>5. CASE Verify
  BY <1>5 DEF Verify, KeepsCase
<1>6. ASSUME NEW a \in Answers \ {"none"}, Answer(a) PROVE KeepsCase
  BY <1>6 DEF Answer, OneAdapterAtATime, KeepsCase
<1>7. CASE Expire \/ Cancel \/ Replace \/ PowerLoss
  BY <1>7 DEF Expire, Cancel, Replace, PowerLoss, Observing, KeepsCase
<1>8. CASE Summarise \/ Rename \/ Show
  BY <1>8 DEF Summarise, Rename, Show, Exit, KeepsCase
<1>9. CASE Create \/ Write \/ Sync \/ CloseFile
  BY <1>9 DEF Create, Write, Sync, CloseFile, SaveStep, Exit, KeepsCase
<1>10. CASE UNCHANGED vars
  BY <1>10 DEF vars, KeepsCase
<1> QED
  BY <1>1, <1>2, <1>3, <1>4, <1>5, <1>6, <1>7, <1>8, <1>9, <1>10
     DEF Next, Runner, Timers, Environment

(***************************************************************************)
(* What is known of the cases is kept.                                     *)
(***************************************************************************)
LEMMA CasesKept ==
  ASSUME TypeOK, OneAdapterAtATime, CasesInv, [Next]_vars PROVE CasesInv'
<1>1. \A c \in Cases : c # at => SameFor(c)
  BY OthersAreLeftAlone
<1>2. \A c \in Cases : c # at /\ Judged(c) => Judged(c)'
  BY <1>1 DEF SameFor, Judged, Failed
<1>3. \A c \in Cases : c # at /\ Untouched(c) => Untouched(c)'
  BY <1>1 DEF SameFor, Untouched
<1>4. at \in Int /\ Cases \subseteq Int
  BY SuiteAssumption DEF TypeOK, RunTypes, Cases
<1>5. answer \in [Cases -> Answers] /\ results \in [Cases -> Statuses \cup {""}]
  BY DEF TypeOK, CaseTypes
<1>6. CASE TakesNext
  <2>1. at' = at + 1 /\ pc' = "case" /\ at \in Cases
    BY <1>6 DEF TakesNext, Record, TypeOK, RunTypes, Observing
  <2>2. ASSUME NEW c \in Cases, c = at PROVE Judged(c)'
    <3>1. CASE pc = "case" /\ Record("NOT_RUN")
      <4>1. Untouched(c) /\ UNCHANGED <<answer, faulty, expired>>
        BY <1>6, <2>2, <3>1 DEF TakesNext, CasesInv
      <4>2. results'[c] = "NOT_RUN"
        BY <2>2, <3>1, <1>5 DEF Record
      <4> QED
        BY <4>1, <4>2 DEF Untouched, Judged, Failed, Statuses
    <3>2. CASE pc = "judge" /\ Record(JudgedStatus)
      <4>1. /\ UNCHANGED <<answer, faulty, expired>>
            /\ c \in faulty \/ answer[c] # "none"
        BY <1>6, <2>2, <3>2 DEF TakesNext, CasesInv
      <4>2. results'[c] = JudgedStatus
        BY <2>2, <3>2, <1>5 DEF Record
      <4>3. answer[c] \in Answers
        BY <1>5
      <4>4. CASE Failed(c)
        BY <2>2, <4>1, <4>2, <4>4 DEF JudgedStatus, Judged, Failed, Statuses
      <4>5. CASE ~Failed(c) /\ answer[c] \in {"match", "unsupported"}
        BY <2>2, <4>1, <4>2, <4>5 DEF JudgedStatus, Judged, Failed, Statuses
      <4> QED
        BY <4>1, <4>3, <4>4, <4>5 DEF Failed, Answers
    <3> QED
      BY <1>6, <3>1, <3>2 DEF TakesNext
  <2>3. \A c \in Cases : c < at' => Judged(c)'
    BY <1>2, <1>4, <2>1, <2>2 DEF CasesInv
  <2>4. \A c \in Cases : c > at' \/ (c = at' /\ pc' = "case") => Untouched(c)'
    BY <1>3, <1>4, <2>1 DEF CasesInv
  <2> QED
    BY <2>1, <2>3, <2>4 DEF CasesInv
<1>7. CASE KeepsCase
  <2>1. \A c \in Cases : c < at' => Judged(c)'
    BY <1>2, <1>4, <1>7 DEF KeepsCase, CasesInv
  <2>2. \A c \in Cases : c > at' => Untouched(c)'
    BY <1>3, <1>4, <1>7 DEF KeepsCase, CasesInv
  <2>3. \A c \in Cases : c = at' /\ pc' = "case" => Untouched(c)'
    BY <1>7 DEF KeepsCase, CasesInv, Untouched
  <2>4. pc' = "judge" => at' \in faulty' \/ answer'[at'] # "none"
    BY <1>7 DEF KeepsCase, CasesInv
  <2> QED
    BY <2>1, <2>2, <2>3, <2>4 DEF CasesInv
<1> QED
  BY <1>6, <1>7, StepOnCase

\* Case numbers are numbers.
LEMMA Numbers ==
  ASSUME TypeOK PROVE at \in Int /\ replaced \in Int /\ Cases \subseteq Int
<1>1. at \in 1..N+1 /\ replaced \in (-1)..N
  BY DEF TypeOK, RunTypes, CaseTypes
<1>2. Cases \subseteq Int
  BY DEF Cases
<1> QED
  BY <1>1, <1>2

(***************************************************************************)
(* So is what a replaced executable shows.                                 *)
(***************************************************************************)
LEMMA ReplacementBars ==
  ASSUME TypeOK, OneAdapterAtATime, ReplacedInv, [Next]_vars, KeepsCase,
         replaced' # -1, replaced' < at
  PROVE  pc' \notin {"launch", "wait", "verify"} /\ (pc' = "judge" => at \in faulty')
<1>0. ~(at < at)
  <2>1. at \in Int
    BY Numbers
  <2> QED
    BY <2>1
<1> USE DEF ReplacedInv, world
<1>1. CASE UNCHANGED <<pc, replaced, faulty>>
  BY <1>1
<1>2. CASE BeginCase \/ Judge
  BY <1>2 DEF BeginCase, Judge, Record
<1>3. CASE Check \/ Launch
  BY <1>3 DEF Check, Launch, Decline
<1>4. CASE Return \/ Verify \/ WaitDelay
  BY <1>4 DEF Return, Verify, WaitDelay
<1>5. CASE Kill \/ Exceed \/ Quit
  BY <1>5 DEF Kill, Exceed, Quit
<1>6. CASE Replace
  <2>1. CASE pc \in {"case", "check"}
    BY <1>6, <2>1 DEF Replace
  <2>2. CASE pc \notin {"case", "check"}
    <3>1. replaced' = at
      BY <1>6, <2>2 DEF Replace
    <3> QED
      BY <1>0, <3>1
  <2> QED
    BY <2>1, <2>2
<1>7. CASE Summarise \/ Rename \/ Show \/ PowerLoss
  BY <1>7 DEF Summarise, Rename, Show, Exit, PowerLoss
<1>8. CASE Create \/ Write \/ Sync \/ CloseFile
  BY <1>8 DEF Create, Write, Sync, CloseFile, SaveStep, Exit
<1> QED
  BY <1>1, <1>2, <1>3, <1>4, <1>5, <1>6, <1>7, <1>8
     DEF vars, Next, Runner, Timers, Environment, Answer, LetGo, Expire, Cancel

\* A step keeps what the runner knows about a replaced executable.
LEMMA ReplacedKept ==
  ASSUME TypeOK, OneAdapterAtATime, ReplacedInv, [Next]_vars PROVE ReplacedInv'
<1>1. \A c \in Cases : c # at => results'[c] = results[c]
  BY OthersAreLeftAlone DEF SameFor
<1>2. at \in Int /\ Cases \subseteq Int /\ replaced \in Int
  BY Numbers
<1>3. results \in [Cases -> Statuses \cup {""}]
  BY DEF TypeOK, CaseTypes
<1>4. CASE TakesNext
  <2>1. at' = at + 1 /\ pc' = "case" /\ replaced' = replaced
    BY <1>4 DEF TakesNext, Record
  <2>2. \A c \in Cases : c >= at' => results'[c] = ""
    <3>1. \A c \in Cases : c >= at' => c # at /\ c >= at
      BY <1>2, <2>1
    <3> QED
      BY <1>1, <3>1 DEF ReplacedInv
  <2>3. ASSUME replaced' # -1, NEW c \in Cases, c > replaced', c < at'
        PROVE  results'[c] \notin {"PASS", "UNSUPPORTED"}
    <3>1. CASE c # at
      <4>1. c < at /\ c > replaced
        BY <1>2, <2>1, <2>3, <3>1
      <4> QED
        BY <1>1, <2>1, <2>3, <3>1, <4>1 DEF ReplacedInv
    <3>2. CASE c = at /\ pc = "case" /\ Record("NOT_RUN")
      BY <1>3, <3>2 DEF Record
    <3>3. CASE c = at /\ pc = "judge" /\ Record(JudgedStatus)
      <4>1. at \in faulty
        BY <2>1, <2>3, <3>3 DEF ReplacedInv
      <4>2. results'[c] = "FAIL"
        BY <1>3, <3>3, <4>1 DEF Record, JudgedStatus
      <4> QED
        BY <4>2
    <3> QED
      BY <1>4, <3>1, <3>2, <3>3 DEF TakesNext
  <2> QED
    BY <2>1, <2>2, <2>3 DEF ReplacedInv
<1>5. CASE KeepsCase
  <2>1. at' = at /\ results' = results
    BY <1>5 DEF KeepsCase
  <2>2. CASE replaced' = replaced
    BY <1>5, <2>1, <2>2, ReplacementBars DEF ReplacedInv
  <2>3. CASE Replace
    <3>1. replaced' \in {at - 1, at}
      BY <2>3 DEF Replace
    <3>2. ASSUME NEW c \in Cases, c > replaced', c < at' PROVE FALSE
      BY <1>2, <2>1, <3>1, <3>2
    <3> QED
      BY <1>5, <2>1, <3>2, ReplacementBars DEF ReplacedInv
  <2>4. replaced' = replaced \/ Replace
    BY DEF vars, world, Next, Runner, Timers, Environment, BeginCase, Check, Launch, Return,
           Verify, Judge, Summarise, Create, Write, Sync, CloseFile, SaveStep, Rename, Show,
           Expire, Kill, WaitDelay, Answer, Exceed, Quit, LetGo, Cancel, PowerLoss
  <2> QED
    BY <2>2, <2>3, <2>4
<1> QED
  BY <1>4, <1>5, StepOnCase

(***************************************************************************)
(* And what is known of the end of the run and of its files.               *)
(***************************************************************************)
LEMMA EndKept ==
  ASSUME TypeOK, OneAdapterAtATime, EndInv, [Next]_vars PROVE EndInv'
<1>1. CASE TakesNext
  <2>1. pc \in {"case", "judge"} /\ pc' = "case" /\ UNCHANGED <<reporting, caller, files, exit>>
    BY <1>1 DEF TakesNext, Record
  <2> QED
    BY <2>1 DEF EndInv, Observing, Saving, files
<1>2. CASE KeepsCase
  <2>1. at' = at /\ Status' = Status /\ ExitCode' = ExitCode
    BY <1>2 DEF KeepsCase, Status, ExitCode
  <2> USE DEF EndInv, Observing, Saving, given, files
  <2>2. CASE UNCHANGED <<given, pc, files, exit>>
    BY <2>1, <2>2
  <2>3. CASE BeginCase \/ Judge
    <3>1. pc \in {"case", "judge"} /\ pc' \in Observing \cup {"case"} /\ UNCHANGED <<given, files, exit>>
      BY <2>3 DEF BeginCase, Judge, Record
    <3> QED
      BY <2>1, <3>1
  <2>4. CASE Check \/ Launch \/ Return \/ Verify \/ WaitDelay
    <3>1. pc \in Observing /\ pc' \in Observing /\ UNCHANGED <<given, files, exit>>
      BY <2>4 DEF Check, Launch, Decline, Return, Verify, WaitDelay
    <3> QED
      BY <2>1, <3>1
  <2>5. CASE Summarise
    BY <2>1, <2>5, ReportRange DEF Summarise, Exit
  <2>6. CASE Create
    BY <2>1, <2>6 DEF Create, SaveStep, Exit
  <2>7. CASE Write
    BY <2>1, <2>7 DEF Write, SaveStep, Exit
  <2>8. CASE Sync
    BY <2>1, <2>8 DEF Sync, SaveStep, Exit
  <2>9. CASE CloseFile
    BY <2>1, <2>9 DEF CloseFile, SaveStep, Exit
  <2>10. CASE Rename
    <3>1. pc = "rename" /\ temp = "synced" /\ temp' = "none" /\ UNCHANGED given
      BY <2>10 DEF Rename
    <3>2. CASE pc' = "print" /\ path' = Status /\ synced' = (temp = "synced") /\ UNCHANGED exit
      <4>1. synced' = TRUE /\ path' # "torn"
        BY <3>1, <3>2, ReportRange
      <4> QED
        BY <2>1, <3>1, <3>2, <4>1
    <3>3. CASE pc' = "exit" /\ exit' = 2 /\ UNCHANGED <<path, synced>>
      BY <2>1, <3>1, <3>3
    <3> QED
      BY <2>10, <3>2, <3>3 DEF Rename, Exit
  <2>11. CASE Show
    BY <2>1, <2>11, ReportRange DEF Show, Exit
  <2>12. CASE PowerLoss
    BY <2>1, <2>12 DEF PowerLoss
  <2> QED
    BY <2>2, <2>3, <2>4, <2>5, <2>6, <2>7, <2>8, <2>9, <2>10, <2>11, <2>12
       DEF vars, Next, Runner, Timers, Environment, Kill, Answer, Exceed, Quit, LetGo,
           Expire, Cancel, Replace
<1> QED
  BY <1>1, <1>2, StepOnCase

(***************************************************************************)
(* The inductive invariant.                                                *)
(***************************************************************************)
THEOREM Inductive == Spec => []IInv
<1>1. Init => IInv
  <2> SUFFICES ASSUME Init PROVE IInv
    OBVIOUS
  <2>1. N \in Nat /\ N # 0
    BY SuiteAssumption
  <2>2. 1 \in 1..N+1 /\ -1 \in (-1)..N /\ \A c \in 1..N : c >= 1 /\ ~(c < 1)
    BY <2>1
  <2>8. RunTypes
    BY <2>2 DEF Init, RunTypes, Observing
  <2>9. CaseTypes
    BY <2>2 DEF Init, CaseTypes, Answers
  <2>3. FileTypes /\ OneAdapterAtATime
    BY DEF Init, FileTypes, OneAdapterAtATime
  <2>4. at = 1 /\ \A c \in Cases : c >= 1 /\ ~(c < 1)
    BY <2>2 DEF Init, Cases
  <2>5. CasesInv
    <3>1. \A c \in Cases : ~(c < at)
      BY <2>4
    <3>2. \A c \in Cases : Untouched(c)
      BY DEF Init, Untouched
    <3> QED
      BY <3>1, <3>2 DEF Init, CasesInv
  <2>6. ReplacedInv
    BY DEF Init, ReplacedInv
  <2>7. EndInv
    BY DEF Init, EndInv, Saving, Observing
  <2> QED
    BY <2>3, <2>5, <2>6, <2>7, <2>8, <2>9 DEF IInv, TypeOK
<1>2. IInv /\ [Next]_vars => IInv'
  BY RunTypesKept, CaseTypesKept, FileTypesKept, OneAdapterKept, CasesKept, ReplacedKept, EndKept
     DEF IInv, TypeOK
<1> QED
  BY <1>1, <1>2, PTL DEF Spec

(***************************************************************************)
(* Type correctness, and no adapter left over from a case.                 *)
(***************************************************************************)
THEOREM TypeCorrect == Spec => []TypeOK
<1>1. IInv => TypeOK
  BY DEF IInv
<1> QED
  BY <1>1, Inductive, PTL

(***************************************************************************)
(* Adapters never overlap.                                                 *)
(***************************************************************************)
THEOREM AdaptersDoNotOverlap == Spec => []OneAdapterAtATime
<1>1. IInv => OneAdapterAtATime
  BY DEF IInv
<1> QED
  BY <1>1, Inductive, PTL

(***************************************************************************)
(* The exit code tells what happened to every case of the suite.           *)
(***************************************************************************)
THEOREM ExitIsTrue == Spec => []ExitTellsTheTruth
<1>1. IInv => ExitTellsTheTruth
  <2> SUFFICES ASSUME IInv, exit \notin {-1, 2} PROVE ExitTellsTheTruth
    BY DEF ExitTellsTheTruth
  <2>1. at = N + 1 /\ exit = ExitCode
    BY DEF IInv, EndInv
  <2>2. \A c \in Cases : c < at
    BY <2>1, SuiteAssumption DEF Cases
  <2>3. \A c \in Cases : Judged(c)
    BY <2>2 DEF IInv, CasesInv
  <2>4. CASE \E c \in Cases : Failed(c)
    <3>1. Status = "FAIL"
      BY <2>3, <2>4 DEF Status, Judged
    <3> QED
      BY <2>1, <2>4, <3>1 DEF ExitCode, ExitTellsTheTruth
  <2>5. CASE (\A c \in Cases : ~Failed(c)) /\ (\A c \in Cases : answer[c] = "match")
    <3>1. \A c \in Cases : results[c] = "PASS"
      BY <2>3, <2>5 DEF Judged
    <3>2. Status = "PASS"
      BY <3>1 DEF Status
    <3> QED
      BY <2>1, <2>5, <3>2 DEF ExitCode, ExitTellsTheTruth
  <2>6. CASE (\A c \in Cases : ~Failed(c)) /\ (\E c \in Cases : answer[c] # "match")
    <3>1. PICK c \in Cases : answer[c] # "match"
      BY <2>6
    <3>2. results[c] \in {"NOT_RUN", "UNSUPPORTED"}
      BY <2>3, <2>6, <3>1 DEF Judged, Statuses
    <3>3. \A d \in Cases : results[d] # "FAIL"
      BY <2>3, <2>6 DEF Judged
    <3>4. Status = "INCOMPLETE"
      BY <3>2, <3>3 DEF Status
    <3> QED
      BY <2>1, <2>6, <3>4 DEF ExitCode, ExitTellsTheTruth
  <2> QED
    BY <2>4, <2>5, <2>6
<1> QED
  BY <1>1, Inductive, PTL

(***************************************************************************)
(* No case begun after the executable was replaced passes.                 *)
(***************************************************************************)
THEOREM ReplacementShows == Spec => []ReplacedAdapterFails
<1>1. IInv => ReplacedAdapterFails
  <2> SUFFICES ASSUME IInv, replaced # -1, NEW c \in Cases, c > replaced
               PROVE  results[c] \notin {"PASS", "UNSUPPORTED"}
    BY DEF ReplacedAdapterFails
  <2>1. c < at \/ c >= at
    BY Numbers DEF IInv
  <2> QED
    BY <2>1 DEF IInv, ReplacedInv
<1> QED
  BY <1>1, Inductive, PTL

(***************************************************************************)
(* The report path never holds a torn report.                              *)
(***************************************************************************)
THEOREM NoTornReport == Spec => []ReportIsWhole
<1>1. IInv => ReportIsWhole
  BY DEF IInv, EndInv, ReportIsWhole
<1> QED
  BY <1>1, Inductive, PTL

(***************************************************************************)
(* A verdict that leaves the command has been saved where it was asked to. *)
(***************************************************************************)
THEOREM VerdictOnDisk == Spec => []VerdictIsSaved
<1>1. IInv => VerdictIsSaved
  <2> SUFFICES ASSUME IInv, pc = "exit" PROVE VerdictIsSaved
    BY DEF VerdictIsSaved
  <2>1. temp = "none"
    BY DEF IInv, EndInv
  <2>2. ASSUME reporting, exit # 2 PROVE path \in DOMAIN Meaning /\ exit = Meaning[path]
    <3>1. path = Status
      BY <2>2 DEF IInv, EndInv
    <3>2. exit = ExitCode
      BY <2>2 DEF IInv, EndInv
    <3> QED
      BY <3>1, <3>2, ReportRange DEF ExitCode, Meaning
  <2> QED
    BY <2>1, <2>2 DEF VerdictIsSaved
<1> QED
  BY <1>1, Inductive, PTL

-----------------------------------------------------------------------------
(* The contract.                                                           *)

\* A case in hand when the caller cancels has lost its context with it.
CancelInv == cancelled /\ pc \in Observing => at \in expired

LEMMA CancelKept ==
  ASSUME CancelInv, [Next]_vars PROVE CancelInv'
<1> USE DEF CancelInv, Observing, world
<1>1. CASE UNCHANGED <<pc, at, world>>
  BY <1>1
<1>2. CASE BeginCase \/ Judge
  BY <1>2 DEF BeginCase, Judge, Record
<1>3. CASE Check \/ Launch \/ Return \/ Verify \/ WaitDelay
  <2>1. pc \in Observing /\ UNCHANGED <<at, world>>
    BY <1>3 DEF Check, Launch, Return, Verify, WaitDelay
  <2> QED
    BY <2>1
<1>4. CASE Expire \/ Cancel
  <2>1. pc' = pc /\ at' = at /\ (pc \in Observing => expired' = expired \cup {at})
    BY <1>4 DEF Expire, Cancel
  <2> QED
    BY <2>1
<1>5. CASE Replace
  BY <1>5 DEF Replace
<1>6. CASE Summarise \/ Rename \/ Show \/ PowerLoss
  BY <1>6 DEF Summarise, Rename, Show, Exit, PowerLoss
<1>7. CASE Create \/ Write \/ Sync \/ CloseFile
  BY <1>7 DEF Create, Write, Sync, CloseFile, SaveStep, Exit
<1> QED
  BY <1>1, <1>2, <1>3, <1>4, <1>5, <1>6, <1>7
     DEF vars, Next, Runner, Timers, Environment, Kill, Answer, Exceed, Quit, LetGo

\* What the contract sees of the position and of the results.
Phase == CASE pc \in Saving -> "saving"
           [] pc = "print" -> "printing"
           [] pc = "exit" -> "exited"
           [] pc = "lost" -> "lost"
           [] OTHER -> "running"
Seen == {results[c] : c \in 1..(at - 1)}

\* A step that changes neither, nor path, exit code and cancellation, stutters.
LEMMA QuietSteps ==
  ASSUME UNCHANGED <<at, results, cancelled, path, exit>>, Phase' = Phase
  PROVE  UNCHANGED Contract!vars
  BY DEF Contract!vars, Phase

\* A result is added to what was seen.
LEMMA SeenGrows ==
  ASSUME TypeOK, at \in Cases, NEW s \in Statuses, Record(s)
  PROVE  at' - 1 = at /\ Seen' = Seen \cup {s}
<1>1. at \in Nat /\ at >= 1 /\ at' = at + 1
  BY SuiteAssumption DEF Cases, Record
<1>2. \A c \in Cases : results'[c] = IF c = at THEN s ELSE results[c]
  BY DEF TypeOK, CaseTypes, Record
<1>3. 1..(at' - 1) = 1..(at - 1) \cup {at} /\ 1..(at' - 1) \subseteq Cases
  BY <1>1, SuiteAssumption DEF Cases
<1>4. \A c \in 1..(at - 1) : c # at /\ c \in Cases
  BY <1>1, <1>3
<1> QED
  BY <1>1, <1>2, <1>3, <1>4 DEF Seen

\* A judgement of the runner is one of the contract.
LEMMA TakesNextIsJudge ==
  ASSUME TypeOK, CancelInv, TakesNext, UNCHANGED cancelled PROVE Contract!Next
<1>1. PICK s \in Statuses : Record(s) /\ (cancelled => s \in {"FAIL", "NOT_RUN"})
  BY DEF TakesNext, JudgedStatus, Statuses, CancelInv, Observing
<1>2. at \in Cases /\ pc \in {"case", "judge"}
  BY DEF TakesNext, TypeOK, RunTypes, Observing
<1>3. at' - 1 = (at - 1) + 1 /\ at - 1 < N /\ Seen' = Seen \cup {s}
  <2>1. at \in 1..N /\ N \in Nat
    BY <1>2, SuiteAssumption DEF Cases
  <2> QED
    BY <1>1, <1>2, <2>1, SeenGrows
<1>4. Phase = "running" /\ Phase' = "running"
  BY <1>1, <1>2 DEF Phase, Record, Saving
<1>5. path' = path /\ exit' = exit
  BY DEF TakesNext, files
<1>6. Contract!Judge(s)
  BY <1>1, <1>3, <1>4, <1>5 DEF Contract!Judge, Phase, Seen
<1> QED
  BY <1>6 DEF Contract!Next, Contract!Step, Statuses

\* When every case has its result, the verdict of the contract is the report's.
LEMMA SameVerdict ==
  ASSUME IInv, at = N + 1
  PROVE  Contract!Verdict = Status /\ Contract!CodeOf[Contract!Verdict] = ExitCode
<1>1. N \in Nat \ {0} /\ 1..(at - 1) = Cases
  BY SuiteAssumption DEF Cases
<1>2. \A c \in Cases : results[c] \in Statuses
  BY <1>1 DEF IInv, CasesInv, Judged, Cases
<1>3. 1 \in Cases /\ Seen = {results[c] : c \in Cases}
  BY <1>1 DEF Seen, Cases
<1>4. "FAIL" \in Seen <=> \E c \in Cases : results[c] = "FAIL"
  BY <1>3
<1>5. Seen = {"PASS"} <=> \A c \in Cases : results[c] = "PASS"
  BY <1>3
<1>6. Contract!Verdict = Status
  BY <1>2, <1>4, <1>5 DEF Contract!Verdict, Seen, Status, Statuses
<1> QED
  BY <1>6, ReportRange DEF Contract!CodeOf, ExitCode

\* Every step of a run is a step of the contract or invisible to it.
LEMMA StepImplements ==
  ASSUME IInv, CancelInv, [Next]_vars PROVE [Contract!Next]_(Contract!vars)
<1> USE DEF given, world, files, child
<1>0. TypeOK /\ OneAdapterAtATime /\ EndInv
  BY DEF IInv
<1>1. CASE BeginCase
  <2>1. CASE TakesNext
    BY <1>0, <1>1, <2>1, TakesNextIsJudge DEF BeginCase
  <2>2. CASE pc' = "check" /\ UNCHANGED <<at, results>>
    <3>1. UNCHANGED <<at, results, cancelled, path, exit>> /\ Phase' = Phase
      BY <1>1, <2>2 DEF BeginCase, Phase, Saving
    <3> QED
      BY <3>1, QuietSteps
  <2> QED
    BY <1>1, <2>1, <2>2 DEF BeginCase, TakesNext
<1>2. CASE Judge
  <2>1. TakesNext /\ UNCHANGED cancelled
    BY <1>2 DEF Judge, TakesNext, JudgedStatus
  <2> QED
    BY <1>0, <2>1, TakesNextIsJudge
<1>3. CASE Check \/ Launch \/ Return \/ Verify \/ WaitDelay
  <2>1. UNCHANGED <<at, results, cancelled, path, exit>> /\ Phase' = Phase
    BY <1>3 DEF Check, Launch, Decline, Return, Verify, WaitDelay, Phase, Saving
  <2> QED
    BY <2>1, QuietSteps
<1>4. CASE Kill \/ Exceed \/ Quit \/ LetGo \/ Expire \/ Replace \/ UNCHANGED vars
           \/ \E a \in Answers \ {"none"} : Answer(a)
  <2>1. UNCHANGED <<pc, at, results, cancelled, path, exit>>
    BY <1>4 DEF Kill, Exceed, Quit, LetGo, Expire, Replace, Answer, vars
  <2>2. Phase' = Phase
    BY <2>1 DEF Phase
  <2> QED
    BY <2>1, <2>2, QuietSteps
<1>5. CASE Cancel
  <2>1. UNCHANGED <<pc, at, results, path, exit>> /\ cancelled' = TRUE
    BY <1>5 DEF Cancel
  <2>2. Phase' = Phase /\ Phase \notin {"exited", "lost"}
    BY <1>5, <2>1 DEF Phase, Cancel, Saving
  <2>3. Contract!Stop
    BY <2>1, <2>2 DEF Contract!Stop, Phase
  <2> QED
    BY <2>3 DEF Contract!Next
<1>6. CASE Summarise
  <2>1. /\ at - 1 = N /\ Phase = "running" /\ UNCHANGED <<at, results, cancelled, path>>
        /\ \/ Phase' = "exited" /\ exit' = ExitCode
           \/ Phase' \in {"saving", "printing"} /\ exit' = exit
    BY <1>6, SuiteAssumption DEF Summarise, Exit, Phase, Saving
  <2>2. Contract!CodeOf[Contract!Verdict] = ExitCode
    BY <1>6, SameVerdict DEF Summarise
  <2>3. Contract!Conclude
    BY <2>1, <2>2 DEF Contract!Conclude, Phase
  <2> QED
    BY <2>3 DEF Contract!Next, Contract!Step
<1>7. CASE Create \/ Write \/ Sync \/ CloseFile
  <2>1. /\ Phase = "saving" /\ UNCHANGED <<at, results, cancelled, path>>
        /\ \/ Phase' = Phase /\ exit' = exit
           \/ Phase' = "exited" /\ exit' = 2
    BY <1>7 DEF Create, Write, Sync, CloseFile, SaveStep, Exit, Phase, Saving
  <2>2. CASE Phase' = Phase /\ exit' = exit
    BY <2>1, <2>2, QuietSteps
  <2>3. CASE Phase' = "exited" /\ exit' = 2
    <3>1. Contract!Save
      BY <2>1, <2>3 DEF Contract!Save, Phase
    <3> QED
      BY <3>1 DEF Contract!Next, Contract!Step
  <2> QED
    BY <2>1, <2>2, <2>3
<1>8. CASE Rename
  <2>1. /\ Phase = "saving" /\ UNCHANGED <<at, results, cancelled>>
        /\ \/ Phase' = "printing" /\ path' = Status /\ exit' = exit
           \/ Phase' = "exited" /\ exit' = 2 /\ path' = path
    BY <1>8 DEF Rename, Exit, Phase, Saving
  <2>2. Contract!Verdict = Status
    BY <1>0, <1>8, SameVerdict DEF Rename, EndInv, Saving
  <2>3. Contract!Save
    BY <2>1, <2>2 DEF Contract!Save, Phase
  <2> QED
    BY <2>3 DEF Contract!Next, Contract!Step
<1>9. CASE Show
  <2>1. /\ Phase = "printing" /\ Phase' = "exited" /\ exit' \in {ExitCode, 2}
        /\ UNCHANGED <<at, results, cancelled, path>>
    BY <1>9 DEF Show, Exit, Phase, Saving
  <2>2. Contract!CodeOf[Contract!Verdict] = ExitCode
    BY <1>0, <1>9, SameVerdict DEF Show, EndInv
  <2>3. Contract!Show
    BY <2>1, <2>2 DEF Contract!Show, Phase
  <2> QED
    BY <2>3 DEF Contract!Next, Contract!Step
<1>10. CASE PowerLoss
  <2>1. /\ Phase # "lost" /\ Phase' = "lost" /\ path' \in {path, "old"}
        /\ UNCHANGED <<at, results, cancelled, exit>>
    BY <1>0, <1>10 DEF PowerLoss, EndInv, Phase, Saving
  <2>2. Contract!Lose
    BY <2>1 DEF Contract!Lose, Phase
  <2> QED
    BY <2>2 DEF Contract!Next
<1> QED
  BY <1>1, <1>2, <1>3, <1>4, <1>5, <1>6, <1>7, <1>8, <1>9, <1>10
     DEF Next, Runner, Timers, Environment

(***************************************************************************)
(* Command and library keep the safety part of SuiteContract, for suites   *)
(* of any length: each case gets one status, in order; after a cancelled   *)
(* context only FAIL and NOT_RUN are given; the verdict is that of all the *)
(* cases, at the report path as in the exit code; and what stands at the   *)
(* path is replaced in one step.  Its fairness stays with the run.         *)
(***************************************************************************)
THEOREM ContractIsKept == Spec => Contract!Init /\ [][Contract!Next]_(Contract!vars)
<1>1. Init => Contract!Init /\ CancelInv
  <2> SUFFICES ASSUME Init PROVE Contract!Init /\ CancelInv
    OBVIOUS
  <2>0. at = 1
    BY DEF Init
  <2>1. at - 1 = 0 /\ 1..(at - 1) = {}
    BY <2>0
  <2> QED
    BY <2>1 DEF Init, Contract!Init, CancelInv, Saving
<1>2. CancelInv /\ [Next]_vars => CancelInv'
  BY CancelKept
<1>3. IInv /\ CancelInv /\ [Next]_vars => [Contract!Next]_(Contract!vars)
  BY StepImplements
<1> QED
  BY <1>1, <1>2, <1>3, Inductive, PTL DEF Spec

-----------------------------------------------------------------------------
(* Progress.  That the run ends is a matter of fairness and stays with the *)
(* contract's run; what the fairness is applied to is proved here: a rank  *)
(* that no step raises, and one fair action that is awaited as long as the *)
(* rank stands still, and lowers it.                                       *)

\* How far the case in hand, or the report, is from its end.
Waiting == IF proc = "running" THEN IF at \in expired THEN 6 ELSE 7
           ELSE IF piped THEN 5 ELSE 4

Stage ==
  IF pc = "case" THEN 10
  ELSE IF pc \in {"check", "create"} THEN 9
  ELSE IF pc \in {"launch", "write"} THEN 8
  ELSE IF pc = "wait" THEN Waiting
  ELSE IF pc = "sync" THEN 7
  ELSE IF pc = "close" THEN 6
  ELSE IF pc = "rename" THEN 5
  ELSE IF pc = "print" THEN 4
  ELSE IF pc = "verify" THEN 3
  ELSE IF pc = "judge" THEN 2 ELSE 0

Rank == 11 * (N + 1 - at) + Stage

\* The guards of the fair actions.  The deadline is only awaited while the
\* adapter runs.
MayRun ==
  \/ pc \in {"check", "launch", "verify", "judge", "print"} \cup Saving
  \/ pc = "case" /\ at \in 1..N+1
  \/ pc = "wait" /\ proc = "exited" /\ ~piped
MayExpire == pc = "wait" /\ proc = "running" /\ at \notin expired
MayKill   == pc = "wait" /\ proc = "running" /\ at \in expired
MayDelay  == pc = "wait" /\ proc = "exited" /\ piped

\* A case is awaited with a process.
WaitInv == pc = "wait" => proc # "none"

SomebodyMay == ~Done => MayRun \/ MayExpire \/ MayKill \/ MayDelay

\* What a step does to the rank.
Lowers == Rank' < Rank
Stays  == /\ Rank' = Rank
          /\ MayRun' = MayRun /\ MayExpire' = MayExpire
          /\ MayKill' = MayKill /\ MayDelay' = MayDelay

LEMMA WaitKept ==
  ASSUME WaitInv, [Next]_vars PROVE WaitInv'
<1> USE DEF WaitInv, child
<1>1. CASE BeginCase \/ Judge
  BY <1>1 DEF BeginCase, Judge, Record
<1>2. CASE Check \/ Verify \/ Return \/ WaitDelay
  BY <1>2 DEF Check, Decline, Verify, Return, WaitDelay
<1>3. CASE Launch
  BY <1>3 DEF Launch, Decline
<1>4. CASE Kill \/ Quit
  BY <1>4 DEF Kill, Quit
<1>5. CASE Summarise \/ Rename \/ Show \/ PowerLoss
  BY <1>5 DEF Summarise, Rename, Show, Exit, PowerLoss
<1>6. CASE Create \/ Write \/ Sync \/ CloseFile
  BY <1>6 DEF Create, Write, Sync, CloseFile, SaveStep, Exit
<1>7. CASE UNCHANGED <<pc, proc>>
  BY <1>7
<1> QED
  BY <1>1, <1>2, <1>3, <1>4, <1>5, <1>6, <1>7
     DEF vars, Next, Runner, Timers, Environment, Exceed, LetGo, Expire, Cancel, Replace, Answer

\* The rank is a number, and the place of the run is known by its types.
LEMMA RankRange ==
  ASSUME TypeOK PROVE Rank \in Nat /\ Stage \in 0..10 /\ at \in 1..N+1 /\ N \in Nat
<1>1. at \in 1..N+1 /\ N \in Nat
  BY SuiteAssumption DEF TypeOK, RunTypes
<1>2. Stage \in 0..10
  BY DEF Stage, Waiting
<1> QED
  BY <1>1, <1>2 DEF Rank

\* On the same case the rank follows the stage.
LEMMA SameCase ==
  ASSUME TypeOK, TypeOK', at' = at
  PROVE  /\ Stage' < Stage => Lowers
         /\ Stage' = Stage => Rank' = Rank
<1>1. Stage \in Int /\ Stage' \in Int /\ N + 1 - at \in Int
  BY RankRange DEF Stage, Waiting
<1>2. Rank = 11 * (N + 1 - at) + Stage /\ Rank' = 11 * (N + 1 - at) + Stage'
  BY DEF Rank
<1>3. 11 * (N + 1 - at) \in Int
  BY <1>1
<1> QED
  BY <1>1, <1>2, <1>3 DEF Lowers

\* The next case is nearer to the end, wherever it stands.
LEMMA NextCase ==
  ASSUME TypeOK, TypeOK', at' = at + 1, pc' = "case", pc \in {"case", "judge"} PROVE Lowers
<1>1. at \in Int /\ N \in Int
  BY RankRange
<1>2. Stage \in {2, 10} /\ Stage' = 10
  BY DEF Stage
<1> QED
  BY <1>1, <1>2 DEF Rank, Lowers

\* Every step of the runner and of the awaited timers lowers the rank.
LEMMA RunnerLowers ==
  ASSUME TypeOK, TypeOK', EndInv, Runner \/ Kill \/ WaitDelay \/ (Expire /\ MayExpire)
  PROVE  Lowers
<1> USE DEF given
<1>1. CASE BeginCase \/ Judge
  <2>1. CASE pc' = "check" /\ UNCHANGED <<at, results>> /\ pc = "case"
    BY <2>1, SameCase DEF Stage
  <2>2. ASSUME NEW s \in Statuses, Record(s), pc \in {"case", "judge"} PROVE Lowers
    BY <2>2, NextCase DEF Record
  <2> QED
    BY <1>1, <2>1, <2>2 DEF BeginCase, Judge, Statuses
<1>2. CASE Check \/ Launch \/ Verify
  <2>1. /\ at' = at
        /\ \/ pc = "check" /\ pc' \in {"launch", "judge"}
           \/ pc = "launch" /\ (pc' = "judge" \/ (pc' = "wait" /\ proc' = "running"))
           \/ pc = "verify" /\ pc' = "judge"
    BY <1>2 DEF Check, Launch, Verify, Decline
  <2>2. Stage' < Stage
    BY <2>1 DEF Stage, Waiting
  <2> QED
    BY <2>1, <2>2, SameCase
<1>3. CASE Return \/ WaitDelay
  <2>1. at' = at /\ pc = "wait" /\ pc' = "verify" /\ proc = "exited"
    BY <1>3 DEF Return, WaitDelay
  <2>2. Stage' < Stage
    BY <2>1 DEF Stage, Waiting
  <2> QED
    BY <2>1, <2>2, SameCase
<1>4. CASE Kill \/ (Expire /\ MayExpire)
  <2>1. /\ at' = at /\ pc = "wait" /\ pc' = "wait" /\ proc = "running"
        /\ \/ proc' = "exited"
           \/ proc' = "running" /\ at \notin expired /\ at' \in expired'
    BY <1>4 DEF Kill, Expire, MayExpire, child
  <2>2. Stage' < Stage
    BY <2>1 DEF Stage, Waiting
  <2> QED
    BY <2>1, <2>2, SameCase
<1>5. CASE Summarise \/ Rename \/ Show
  <2>1. /\ at' = at /\ pc' \in {"create", "print", "exit"}
        /\ pc \in {"case", "rename", "print"} /\ (pc = "print" => pc' = "exit")
        /\ (pc = "rename" => pc' \in {"print", "exit"})
    BY <1>5 DEF Summarise, Rename, Show, Exit
  <2>2. Stage' < Stage
    BY <2>1 DEF Stage, Waiting
  <2> QED
    BY <2>1, <2>2, SameCase
<1>6. CASE Create \/ Write \/ Sync \/ CloseFile
  <2>1. /\ at' = at
        /\ \/ pc = "create" /\ pc' \in {"write", "exit"}
           \/ pc = "write" /\ pc' \in {"sync", "exit"}
           \/ pc = "sync" /\ pc' \in {"close", "exit"}
           \/ pc = "close" /\ pc' \in {"rename", "exit"}
    BY <1>6 DEF Create, Write, Sync, CloseFile, SaveStep, Exit
  <2>2. Stage' < Stage
    BY <2>1 DEF Stage, Waiting
  <2> QED
    BY <2>1, <2>2, SameCase
<1> QED
  BY <1>1, <1>2, <1>3, <1>4, <1>5, <1>6 DEF Runner

\* The environment, and a deadline nobody waits for, lower the rank or change
\* nothing of who is awaited.
LEMMA OthersDoNoHarm ==
  ASSUME TypeOK, TypeOK', EndInv, OneAdapterAtATime,
         Environment \/ Expire \/ UNCHANGED vars
  PROVE  Lowers \/ Stays \/ Done
<1> USE DEF given, child
<1>1. CASE UNCHANGED <<pc, at, expired, proc, piped>>
  <2>1. Stage' = Stage
    BY <1>1 DEF Stage, Waiting
  <2> QED
    BY <1>1, <2>1, SameCase DEF Stays, MayRun, MayExpire, MayKill, MayDelay
<1>2. CASE Quit \/ LetGo
  <2>1. /\ UNCHANGED <<pc, at, expired>> /\ pc = "wait"
        /\ \/ proc = "running" /\ proc' = "exited"
           \/ proc' = proc /\ piped /\ ~piped'
    BY <1>2 DEF Quit, LetGo, OneAdapterAtATime, world
  <2>2. CASE proc' = proc /\ proc = "running"
    <3>1. Stage' = Stage
      BY <2>1, <2>2 DEF Stage, Waiting
    <3> QED
      BY <2>1, <2>2, <3>1, SameCase DEF Stays, MayRun, MayExpire, MayKill, MayDelay
  <2>3. CASE ~(proc' = proc /\ proc = "running")
    <3>1. Stage' < Stage
      BY <2>1, <2>3 DEF Stage, Waiting
    <3> QED
      BY <2>1, <3>1, SameCase
  <2> QED
    BY <2>2, <2>3
<1>3. CASE Expire \/ Cancel
  <2>1. UNCHANGED <<pc, at, proc, piped>> /\ (expired' = expired \/ expired' = expired \cup {at})
    BY <1>3 DEF Expire, Cancel
  <2>2. CASE pc = "wait" /\ proc = "running" /\ at \notin expired /\ at \in expired'
    <3>1. Stage' < Stage
      BY <2>1, <2>2 DEF Stage, Waiting
    <3> QED
      BY <2>1, <3>1, SameCase
  <2>3. CASE ~(pc = "wait" /\ proc = "running" /\ at \notin expired /\ at \in expired')
    <3>1. Stage' = Stage
      BY <2>1, <2>3 DEF Stage, Waiting
    <3> QED
      BY <2>1, <2>3, <3>1, SameCase DEF Stays, MayRun, MayExpire, MayKill, MayDelay
  <2> QED
    BY <2>2, <2>3
<1>4. CASE PowerLoss
  <2>1. at' = at /\ pc' = "lost"
    BY <1>4 DEF PowerLoss
  <2>2. Done \/ Stage' < Stage
    BY <2>1 DEF Stage, Waiting, Done, TypeOK, RunTypes, Observing, Saving
  <2> QED
    BY <2>1, <2>2, SameCase
<1>5. CASE Replace \/ Exceed \/ UNCHANGED vars \/ \E a \in Answers \ {"none"} : Answer(a)
  BY <1>1, <1>5 DEF Replace, Exceed, Answer, vars, world
<1> QED
  BY <1>2, <1>3, <1>4, <1>5 DEF Environment

(***************************************************************************)
(* What makes every run end, for suites of any length: until it has ended, *)
(* one of the fair actions may be taken (the runner's, or for a process    *)
(* that hangs the deadline's, the kill's or WaitDelay's), its step lowers  *)
(* the rank, and no other step raises the rank or, leaving it as it is,    *)
(* takes the chance away (process.go 62-72, runner.go 114-126).            *)
(***************************************************************************)
THEOREM RunComesCloser ==
  Spec => /\ [](Rank \in Nat /\ SomebodyMay)
          /\ [][ /\ ~Done => Lowers \/ Stays
                 /\ Runner \/ Kill \/ WaitDelay \/ (Expire /\ MayExpire) => Lowers ]_vars
<1>1. Init => WaitInv
  BY DEF Init, WaitInv
<1>2. WaitInv /\ [Next]_vars => WaitInv'
  BY WaitKept
<1>3. IInv /\ WaitInv => Rank \in Nat /\ SomebodyMay
  <2> SUFFICES ASSUME IInv, WaitInv PROVE SomebodyMay
    BY RankRange DEF IInv
  <2> QED
    BY DEF IInv, TypeOK, RunTypes, WaitInv, SomebodyMay, Done, MayRun, MayExpire, MayKill,
           MayDelay, Observing, Saving
<1>4. ASSUME IInv, IInv', [Next]_vars
      PROVE  /\ ~Done => Lowers \/ Stays
             /\ Runner \/ Kill \/ WaitDelay \/ (Expire /\ MayExpire) => Lowers
  <2>1. TypeOK /\ TypeOK' /\ EndInv /\ OneAdapterAtATime
    BY <1>4 DEF IInv
  <2> QED
    BY <1>4, <2>1, RunnerLowers, OthersDoNoHarm DEF Next, Timers
<1> QED
  BY <1>1, <1>2, <1>3, <1>4, Inductive, PTL DEF Spec

=============================================================================
