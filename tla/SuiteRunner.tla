----------------------------- MODULE SuiteRunner -----------------------------
(***************************************************************************)
(* A run of a suite: pkg/conformance/runner.go observes the cases one by   *)
(* one through an adapter process (pkg/conformance/process.go), each under *)
(* its own deadline, and sums them up; internal/conformancecli/run.go then *)
(* saves the report, prints it and exits.  The environment may replace the *)
(* executable, cancel a library run, fail an I/O call, or lose power.      *)
(***************************************************************************)
EXTENDS Integers

CONSTANT N            \* cases of the suite

ASSUME SuiteAssumption == N \in Nat \ {0}

VARIABLES
  caller,     \* "cli", whose context is never cancelled, or "library"
  selected,   \* the cases named by the caller, {} for all
  reporting,  \* a report path is given
  pc,         \* where the run stands
  at,         \* the case in hand
  cancelled,  \* the caller's context
  expired,    \* cases whose own context ended before they were judged
  replaced,   \* the last case whose check may have come before the executable
              \* was replaced, -1 while it is the listed one
  proc,       \* the adapter process of the case
  piped,      \* a descendant outlives it and holds its output open
  answer,     \* what the adapter wrote for each case
  faulty,     \* cases whose Observe returns an error
  results,    \* the status recorded for each case
  temp, path, synced,   \* the temporary report, the report path, and
                        \* whether the contents at the path are on disk
  exit        \* the exit code

given == <<caller, selected, reporting>>
world == <<cancelled, expired, replaced>>
child == <<proc, piped>>
files == <<temp, path, synced>>
vars  == <<given, pc, at, world, child, answer, faulty, results, files, exit>>

Cases     == 1..N
Answers   == {"none", "match", "differ", "unsupported", "invalid"}
Statuses  == {"PASS", "FAIL", "UNSUPPORTED", "NOT_RUN"}
Observing == {"check", "launch", "wait", "verify", "judge"}
Saving    == {"create", "write", "sync", "close", "rename"}

RunTypes ==
  /\ caller \in {"cli", "library"} /\ selected \subseteq Cases /\ reporting \in BOOLEAN
  /\ pc \in {"case", "print", "exit", "lost"} \cup Observing \cup Saving
  /\ at \in 1..N+1 /\ (pc \in Observing => at \in Cases)
  /\ proc \in {"none", "running", "exited"} /\ piped \in BOOLEAN

CaseTypes ==
  /\ cancelled \in BOOLEAN /\ expired \subseteq Cases /\ replaced \in (-1)..N
  /\ answer \in [Cases -> Answers] /\ faulty \subseteq Cases
  /\ results \in [Cases -> Statuses \cup {""}]

FileTypes ==
  /\ temp \in {"none", "empty", "whole", "synced"}
  /\ path \in {"old", "torn", "PASS", "FAIL", "INCOMPLETE"} /\ synced \in BOOLEAN
  /\ exit \in {-1, 0, 1, 2, 3}

TypeOK == RunTypes /\ CaseTypes /\ FileTypes

Init ==
  /\ caller \in {"cli", "library"} /\ selected \in SUBSET Cases
  /\ reporting \in BOOLEAN /\ (reporting => caller = "cli")
  /\ pc = "case" /\ at = 1
  /\ cancelled = FALSE /\ expired = {} /\ replaced = -1
  /\ proc = "none" /\ piped = FALSE
  /\ answer = [c \in Cases |-> "none"] /\ faulty = {}
  /\ results = [c \in Cases |-> ""]
  /\ temp = "none" /\ path = "old" /\ synced = TRUE
  /\ exit = -1

-----------------------------------------------------------------------------
(* The runner, case by case.                                               *)

Record(status) ==
  /\ results' = [results EXCEPT ![at] = status]
  /\ at' = at + 1 /\ pc' = "case"

\* Not selected and cancelled cases are NOT_RUN; another gets its own context.
BeginCase ==
  /\ pc = "case" /\ at \in Cases
  /\ IF (selected # {} /\ at \notin selected) \/ cancelled
     THEN Record("NOT_RUN")
     ELSE pc' = "check" /\ UNCHANGED <<at, results>>
  /\ UNCHANGED <<given, world, child, answer, faulty, files, exit>>

\* Observe fails without a process.
Decline == pc' = "judge" /\ faulty' = faulty \cup {at} /\ UNCHANGED child

\* Mutant: the executable is hashed for the first case only.
CheckOnce ==
  /\ pc = "check"
  /\ IF replaced # -1 /\ at = 1 THEN Decline ELSE pc' = "launch" /\ UNCHANGED <<faulty, child>>
  /\ UNCHANGED <<given, at, world, answer, results, files, exit>>

\* The executable must still have the hash it was listed with.
Check ==
  /\ pc = "check"
  /\ IF replaced # -1 THEN Decline ELSE pc' = "launch" /\ UNCHANGED <<faulty, child>>
  /\ UNCHANGED <<given, at, world, answer, results, files, exit>>

\* A context that has ended starts nothing; starting may fail by itself.
Launch ==
  /\ pc = "launch"
  /\ \/ Decline
     \/ at \notin expired /\ pc' = "wait" /\ proc' = "running" /\ UNCHANGED <<faulty, piped>>
  /\ UNCHANGED <<given, at, world, answer, results, files, exit>>

\* Mutant: the watcher stops waiting for the process instead of killing it.
KillForgets ==
  /\ pc = "wait" /\ proc = "running" /\ at \in expired
  /\ pc' = "verify" /\ faulty' = faulty \cup {at}
  /\ UNCHANGED <<given, at, world, child, answer, results, files, exit>>

\* The watcher of the context kills the process group; a descendant that has
\* left the group may keep the output open.
Kill ==
  /\ pc = "wait" /\ proc = "running" /\ at \in expired
  /\ proc' = "exited" /\ piped' \in BOOLEAN /\ faulty' = faulty \cup {at}
  /\ UNCHANGED <<given, pc, at, world, answer, results, files, exit>>

\* Run returns when the process is gone and its output closed ...
Return ==
  /\ pc = "wait" /\ proc = "exited" /\ ~piped
  /\ pc' = "verify" /\ proc' = "none"
  /\ UNCHANGED <<given, at, world, piped, answer, faulty, results, files, exit>>

\* Mutant: without WaitDelay the output of a descendant is awaited for ever.
NoWaitDelay == FALSE /\ UNCHANGED vars

\* ... or, with an error, when WaitDelay has passed since it went.
WaitDelay ==
  /\ pc = "wait" /\ proc = "exited" /\ piped
  /\ pc' = "verify" /\ proc' = "none" /\ piped' = FALSE /\ faulty' = faulty \cup {at}
  /\ UNCHANGED <<given, at, world, answer, results, files, exit>>

\* Observe: the context first, then limits and exit status, then the JSON, which
\* may decode to a response the runner will find invalid.
Verify ==
  /\ pc = "verify" /\ pc' = "judge"
  /\ faulty' = IF at \in expired \/ answer[at] = "none" THEN faulty \cup {at} ELSE faulty
  /\ UNCHANGED <<given, at, world, child, answer, results, files, exit>>

\* Mutant: what was observed counts although the context has ended since.
JudgeLate ==
  /\ pc = "judge"
  /\ Record(IF at \in faulty THEN "FAIL"
            ELSE IF answer[at] = "match" THEN "PASS"
            ELSE IF answer[at] = "unsupported" THEN "UNSUPPORTED" ELSE "FAIL")
  /\ UNCHANGED <<given, world, child, answer, faulty, files, exit>>

\* An ended context outweighs any observation.
Judge ==
  /\ pc = "judge"
  /\ Record(IF at \in expired \cup faulty THEN "FAIL"
            ELSE IF answer[at] = "match" THEN "PASS"
            ELSE IF answer[at] = "unsupported" THEN "UNSUPPORTED" ELSE "FAIL")
  /\ UNCHANGED <<given, world, child, answer, faulty, files, exit>>

-----------------------------------------------------------------------------
(* The report.                                                             *)

Status ==
  IF \E c \in Cases : results[c] = "FAIL" THEN "FAIL"
  ELSE IF \E c \in Cases : results[c] \in {"NOT_RUN", "UNSUPPORTED"} THEN "INCOMPLETE"
  ELSE "PASS"

ExitCode == IF Status = "PASS" THEN 0 ELSE IF Status = "INCOMPLETE" THEN 3 ELSE 1

Exit(code) == pc' = "exit" /\ exit' = code

\* All cases have a result: the library hands its report over, the command goes on.
Summarise ==
  /\ pc = "case" /\ at = N + 1
  /\ \/ caller = "library" /\ Exit(ExitCode)
     \/ caller = "cli" /\ reporting /\ pc' = "create" /\ UNCHANGED exit
     \/ caller = "cli" /\ ~reporting /\ pc' = "print" /\ UNCHANGED exit
  /\ UNCHANGED <<given, at, world, child, answer, faulty, results, files>>

\* A step of save; when it fails the temporary file is removed and the command
\* exits with 2.
SaveStep(step, next, file) ==
  /\ pc = step
  /\ \/ pc' = next /\ temp' = file /\ UNCHANGED exit
     \/ Exit(2) /\ temp' = "none"
  /\ UNCHANGED <<given, at, world, child, answer, faulty, results, path, synced>>

Create == SaveStep("create", "write", "empty")

Write == SaveStep("write", "sync", "whole")

\* Mutant: nothing is flushed before the rename.
NoSync == SaveStep("sync", "close", "whole")

Sync == SaveStep("sync", "close", "synced")

CloseFile == SaveStep("close", "rename", temp)

\* Mutant: a failed rename is not reported.
RenameQuietly ==
  /\ pc = "rename"
  /\ \/ pc' = "print" /\ path' = Status /\ synced' = (temp = "synced") /\ UNCHANGED exit
     \/ pc' = "print" /\ UNCHANGED <<path, synced, exit>>
  /\ temp' = "none"
  /\ UNCHANGED <<given, at, world, child, answer, faulty, results>>

\* The whole report takes the place of what was at the path.
Rename ==
  /\ pc = "rename"
  /\ \/ pc' = "print" /\ path' = Status /\ synced' = (temp = "synced") /\ UNCHANGED exit
     \/ Exit(2) /\ UNCHANGED <<path, synced>>
  /\ temp' = "none"
  /\ UNCHANGED <<given, at, world, child, answer, faulty, results>>

\* The report goes to standard output, whatever was saved.
Show ==
  /\ pc = "print" /\ (Exit(ExitCode) \/ Exit(2))
  /\ UNCHANGED <<given, at, world, child, answer, faulty, results, files>>

-----------------------------------------------------------------------------
(* The environment.                                                        *)

\* The adapter, or a descendant with its output, writes its response, whole or not.
Answer(a) ==
  /\ proc = "running" \/ piped
  /\ answer[at] = "none"
  /\ answer' = [answer EXCEPT ![at] = a]
  /\ UNCHANGED <<given, pc, at, world, child, faulty, results, files, exit>>

\* It writes beyond a limit: the run fails however it ends.
Exceed ==
  /\ proc = "running" \/ piped
  /\ faulty' = faulty \cup {at}
  /\ UNCHANGED <<given, pc, at, world, child, answer, results, files, exit>>

\* It exits, well or not, and may leave a descendant with its output.
Quit ==
  /\ proc = "running" /\ proc' = "exited" /\ piped' \in BOOLEAN
  /\ faulty' \in {faulty, faulty \cup {at}}
  /\ UNCHANGED <<given, pc, at, world, answer, results, files, exit>>

\* The descendant lets go of it.
LetGo ==
  /\ piped /\ piped' = FALSE
  /\ UNCHANGED <<given, pc, at, world, proc, answer, faulty, results, files, exit>>

\* The deadline of the case passes.
Expire ==
  /\ pc \in Observing /\ at \notin expired /\ expired' = expired \cup {at}
  /\ UNCHANGED <<given, pc, at, cancelled, replaced, child, answer, faulty, results, files, exit>>

\* The caller of the library cancels, and with it the case in hand.
Cancel ==
  /\ caller = "library" /\ pc \notin {"exit", "lost"} /\ ~cancelled /\ cancelled' = TRUE
  /\ expired' = IF pc \in Observing THEN expired \cup {at} ELSE expired
  /\ UNCHANGED <<given, pc, at, replaced, child, answer, faulty, results, files, exit>>

\* Somebody replaces the executable of the adapter.
Replace ==
  /\ pc \in {"case"} \cup Observing /\ replaced = -1
  /\ replaced' = IF pc \in {"case", "check"} THEN at - 1 ELSE at
  /\ UNCHANGED <<given, pc, at, cancelled, expired, child, answer, faulty, results, files, exit>>

\* The power goes.  The directory is not flushed, so the old report may come
\* back, and contents that were not flushed may be torn.
PowerLoss ==
  /\ pc # "lost" /\ pc' = "lost"
  /\ path' \in {path, "old"} \cup (IF synced THEN {} ELSE {"torn"})
  /\ proc' = "none" /\ piped' = FALSE
  /\ UNCHANGED <<given, at, world, answer, faulty, results, temp, synced, exit>>

-----------------------------------------------------------------------------
Done == pc \in {"exit", "lost"}

Runner ==
  \/ BeginCase \/ Check \/ Launch \/ Return \/ Verify \/ Judge
  \/ Summarise \/ Create \/ Write \/ Sync \/ CloseFile \/ Rename \/ Show

Timers == Expire \/ Kill \/ WaitDelay

Environment ==
  \/ \E a \in Answers \ {"none"} : Answer(a)
  \/ Exceed \/ Quit \/ LetGo \/ Cancel \/ Replace \/ PowerLoss

Next == Runner \/ Timers \/ Environment \/ (Done /\ UNCHANGED vars)

\* The runner runs and its timers fire; the environment owes nothing.
Spec ==
  /\ Init /\ [][Next]_vars
  /\ WF_vars(Runner) /\ WF_vars(Expire) /\ WF_vars(Kill) /\ WF_vars(WaitDelay)

-----------------------------------------------------------------------------
(* Properties.                                                             *)

Failed(c) == c \in expired \cup faulty \/ answer[c] \in {"differ", "invalid"}

(***************************************************************************)
(* The exit code tells what really happened, told from the adapter's side: *)
(* 1 if any observed case went wrong, else 0 only if every case of the     *)
(* suite was answered as expected, in time and by a healthy process, and 3 *)
(* if some were not run or not supported (run.go 22-23).                   *)
(***************************************************************************)
ExitTellsTheTruth ==
  exit \notin {-1, 2} =>
    exit = IF \E c \in Cases : Failed(c) THEN 1
           ELSE IF \A c \in Cases : answer[c] = "match" THEN 0 ELSE 3

(***************************************************************************)
(* A case begun after the executable was replaced does not pass; only the  *)
(* case in hand at the replacement may have been checked before it         *)
(* (process.go 52-57).                                                     *)
(***************************************************************************)
ReplacedAdapterFails ==
  replaced # -1 => \A c \in Cases : c > replaced => results[c] \notin {"PASS", "UNSUPPORTED"}

(***************************************************************************)
(* No process of a case is alive once its case is judged, so no two cases  *)
(* are ever observed by two running adapters (process.go 62-72).           *)
(***************************************************************************)
OneAdapterAtATime == proc # "none" \/ piped => pc = "wait"

(***************************************************************************)
(* What stands at the report path is always the old report or a whole new  *)
(* one, even after a power loss (save, run.go 118-138).                    *)
(***************************************************************************)
ReportIsWhole == path # "torn"

\* The exit code of a report.
Meaning == [PASS |-> 0, INCOMPLETE |-> 3, FAIL |-> 1]

(***************************************************************************)
(* A verdict that leaves the command has been saved where it was asked to, *)
(* with the same meaning, and no exit leaves the temporary file behind.    *)
(***************************************************************************)
VerdictIsSaved ==
  pc = "exit" =>
    /\ reporting /\ exit # 2 => path \in DOMAIN Meaning /\ exit = Meaning[path]
    /\ temp = "none"

\* A run as SuiteContract sees it: no case in hand, no temporary file.
Contract == INSTANCE SuiteContract WITH
  phase   <- CASE pc \in Saving -> "saving"
               [] pc = "print" -> "printing"
               [] pc = "exit" -> "exited"
               [] pc = "lost" -> "lost"
               [] OTHER -> "running",
  done    <- at - 1,
  stopped <- cancelled,
  seen    <- {results[c] : c \in 1..(at - 1)},
  saved   <- path,
  code    <- exit

(***************************************************************************)
(* The command, and the library without it, implement SuiteContract: every *)
(* case gets one status, in order, whatever became of its process; the     *)
(* verdict follows from them alone and is only reached when all are there; *)
(* the report is replaced in one step; and the run ends, even if an        *)
(* adapter hangs or leaves a descendant with its output (conformance.md:   *)
(* 119-124, runner.go 108-157, run.go 95-138).                             *)
(***************************************************************************)
ImplementsContract == Contract!Spec

=============================================================================
