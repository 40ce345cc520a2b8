--------------------------- MODULE ScenarioRunner ---------------------------
(***************************************************************************)
(* One stateful scenario: RunScenario (src/pkg/conformance/scenario.go),   *)
(* the process it supervises and the exit code of cmd/sage-scenario.       *)
(*                                                                         *)
(* Four parties interleave: the runner (pc), the goroutine it starts for   *)
(* each request and for the trailing read (io), the context watcher that   *)
(* os/exec runs beside it (watch), and the adapter with the descendants    *)
(* that may keep its pipes open (proc, held).  The adapter is arbitrary:   *)
(* it may answer early, late, twice, wrongly or never, flood stderr, fork  *)
(* and exit at any moment.                                                 *)
(*                                                                         *)
(* A line of stdout is abstracted to the step id it carries and to how it  *)
(* compares with that step's expectation.  `written' is everything that    *)
(* reached the pipe, `consumed' how much of it the runner has read.        *)
(***************************************************************************)
EXTENDS Integers, Sequences

CONSTANTS
  N,          \* number of steps of the scenario
  MaxLines    \* bound: lines the adapter writes in one behaviour

\* LoadScenario accepts 1 to 128 steps.
ASSUME ScenarioAssumption == N \in 1..128 /\ MaxLines \in Nat

VARIABLES
  pc,         \* where RunScenario is
  step,       \* index of the step being executed
  io,         \* the request goroutine, later the trailing-byte goroutine
  got,        \* what that goroutine put in its channel
  ctx,        \* "live" until the 60 s deadline, a cancellation or cancel()
  inClosed,   \* in.Close() was called
  outClosed,  \* out.Close() was called
  trailing,   \* stdout did not end with the last response
  waitErr,    \* cmd.Wait returned an error
  status,     \* report.Steps[i].Status
  actual,     \* report.Steps[i].Actual: position of the line, NoLine for nil
  report,     \* report.Status
  exit,       \* exit code of sage-scenario, -1 while it runs
  requests,   \* requests written so far
  watch,      \* os/exec's watchCtx goroutine
  proc,       \* the adapter process
  shut,       \* the adapter closed its own stdout
  held,       \* pipe ends still open in descendants of the adapter
  written,    \* lines written to stdout, in order
  consumed,   \* how many of them were read
  exceeded,   \* stderr went over its limit
  blame       \* history: who departed from a clean run

runnerVars  == <<pc, step, status, actual, report, trailing, waitErr, exit>>
ioVars      == <<io, got, requests, consumed>>
pipeVars    == <<ctx, inClosed, outClosed>>
adapterVars == <<watch, proc, shut, held, written, exceeded, blame>>
vars        == <<runnerVars, ioVars, pipeVars, adapterVars>>

Steps  == 1..N
NoLine == 0
EOF    == -1

Malformed    == [step |-> 0, kind |-> "malformed"]
Unterminated == [step |-> 0, kind |-> "unterminated"]
Good(i)      == [step |-> i, kind |-> "match"]
Lines == [step : Steps, kind : {"match", "mismatch", "unsupported"}]
           \cup {Malformed, Unterminated}

Supervising == pc \notin {"check", "refused", "returned", "exited"}
Dead        == proc \in {"exit0", "exit1", "killed"}
StdoutEOF   == (Dead \/ shut) /\ "stdout" \notin held

TypeOK ==
  /\ pc \in {"check", "refused", "select", "join", "closeIn", "tail", "joinTail",
             "wait", "watch", "drain", "verdict", "returned", "exited"}
  /\ step \in Steps
  /\ io \in {"idle", "write", "read", "tail", "sent"}
  /\ got \in Int
  /\ ctx \in {"live", "done"}
  /\ inClosed \in BOOLEAN /\ outClosed \in BOOLEAN
  /\ trailing \in BOOLEAN /\ waitErr \in BOOLEAN
  /\ status \in [Steps -> {"NOT_RUN", "PASS", "FAIL", "UNSUPPORTED"}]
  /\ actual \in [Steps -> Int]
  /\ report \in {"PASS", "FAIL", "INCOMPLETE"}
  /\ exit \in {-1, 0, 1, 2, 3}
  /\ requests \in Nat
  /\ watch \in {"none", "watching", "killed", "gone"}
  /\ proc \in {"none", "running", "exit0", "exit1", "killed"}
  /\ shut \in BOOLEAN /\ held \in SUBSET {"stdout", "stderr"}
  /\ written \in Seq(Lines) /\ Len(written) <= MaxLines
  /\ consumed \in Nat /\ consumed <= Len(written)
  /\ exceeded \in BOOLEAN
  /\ blame \in SUBSET {"adapter", "clock"}

Init ==
  /\ pc = "check" /\ step = 1
  /\ io = "idle" /\ got = NoLine /\ requests = 0 /\ consumed = 0
  /\ ctx = "live" /\ inClosed = FALSE /\ outClosed = FALSE
  /\ trailing = FALSE /\ waitErr = FALSE
  /\ status = [i \in Steps |-> "NOT_RUN"]
  /\ actual = [i \in Steps |-> NoLine]
  /\ report = "PASS" /\ exit = -1
  /\ watch = "none" /\ proc = "none" /\ shut = FALSE /\ held = {}
  /\ written = <<>> /\ exceeded = FALSE /\ blame = {}

-----------------------------------------------------------------------------
(* The runner: preparation and the step loop.                              *)

\* A changed scenario, a changed executable or a failed start: no report.
Refuse ==
  /\ pc = "check"
  /\ pc' = "refused"
  /\ UNCHANGED <<step, status, actual, report, trailing, waitErr, exit,
                 ioVars, pipeVars, adapterVars>>

\* cmd.Start, and the goroutine of the first request.
Launch ==
  /\ pc = "check"
  /\ pc' = "select" /\ io' = "write"
  /\ proc' = "running" /\ watch' = "watching"
  /\ UNCHANGED <<step, status, actual, report, trailing, waitErr, exit, got,
                 requests, consumed, pipeVars, shut, held, written, exceeded, blame>>

\* Mutant: the correlation of the reply with its step is not checked.
UncorrelatedObserved(i, a) == a # NoLine /\ written[a].step # 0

\* A decoded observation that names this step (an undecodable line names none).
Observed(i, a) == a # NoLine /\ written[a].step = i

Outcome(i, a) ==
  CASE Observed(i, a) /\ written[a].kind = "match"       -> "PASS"
    [] Observed(i, a) /\ written[a].kind = "unsupported" -> "UNSUPPORTED"
    [] OTHER                                             -> "FAIL"

\* The rest of the loop body once the channel has been received from.
Settle(outcome, a) ==
  /\ status' = [status EXCEPT ![step] = outcome]
  /\ actual' = [actual EXCEPT ![step] = a]
  /\ \/ /\ outcome = "PASS" /\ step < N
        /\ step' = step + 1 /\ pc' = "select" /\ io' = "write"
        /\ UNCHANGED <<report, ctx>>
     \/ /\ outcome = "PASS" /\ step = N
        /\ pc' = "closeIn" /\ io' = "idle"
        /\ UNCHANGED <<step, report, ctx>>
     \/ /\ outcome # "PASS"
        /\ report' = IF outcome = "UNSUPPORTED" THEN "INCOMPLETE" ELSE "FAIL"
        /\ ctx' = "done"
        /\ pc' = "closeIn" /\ io' = "idle"
        /\ UNCHANGED step
  /\ UNCHANGED <<trailing, waitErr, exit, got, requests, consumed, inClosed,
                 outClosed, adapterVars>>

TakeAnswer ==
  /\ pc = "select" /\ io = "sent"
  /\ Settle(Outcome(step, got), IF Observed(step, got) THEN got ELSE NoLine)

\* Mutant: a timeout cancels but leaves stdout open.
TimeoutKeepsStdout ==
  /\ pc = "select"
  /\ ctx' = "done" /\ inClosed' = TRUE
  /\ pc' = "join"
  /\ blame' = blame \cup {"clock"}
  /\ UNCHANGED <<step, status, actual, report, trailing, waitErr, exit, ioVars,
                 outClosed, watch, proc, shut, held, written, exceeded>>

\* <-timer.C: cancel, close both pipes, then join the goroutine.
TakeTimeout ==
  /\ pc = "select"
  /\ ctx' = "done" /\ inClosed' = TRUE /\ outClosed' = TRUE
  /\ pc' = "join"
  /\ blame' = blame \cup {"clock"}
  /\ UNCHANGED <<step, status, actual, report, trailing, waitErr, exit, ioVars,
                 watch, proc, shut, held, written, exceeded>>

\* <-ctx.Done() in the step's select.
TakeDeadline ==
  /\ pc = "select" /\ ctx = "done"
  /\ inClosed' = TRUE /\ outClosed' = TRUE
  /\ pc' = "join"
  /\ UNCHANGED <<step, status, actual, report, trailing, waitErr, exit, ctx, ioVars,
                 adapterVars>>

\* Mutant: the timeout branch does not wait for the goroutine.
NoJoin ==
  /\ pc = "join"
  /\ status' = [status EXCEPT ![step] = "FAIL"]
  /\ report' = "FAIL" /\ ctx' = "done" /\ pc' = "closeIn"
  /\ UNCHANGED <<step, actual, trailing, waitErr, exit, ioVars, inClosed, outClosed,
                 adapterVars>>

\* `<-done' after either of them: whatever arrived is dropped.
Join ==
  /\ pc = "join" /\ io = "sent"
  /\ Settle("FAIL", NoLine)

-----------------------------------------------------------------------------
(* The runner: end of input, trailing output, cmd.Wait and the verdict.    *)

\* Mutant: both pipes are closed when input ends.
CloseBoth ==
  /\ pc = "closeIn"
  /\ inClosed' = TRUE /\ outClosed' = TRUE
  /\ pc' = "tail" /\ io' = "tail"
  /\ UNCHANGED <<step, status, actual, report, trailing, waitErr, exit, got,
                 requests, consumed, ctx, adapterVars>>

CloseInput ==
  /\ pc = "closeIn"
  /\ inClosed' = TRUE
  /\ pc' = "tail" /\ io' = "tail"
  /\ UNCHANGED <<step, status, actual, report, trailing, waitErr, exit, got,
                 requests, consumed, ctx, outClosed, adapterVars>>

\* Mutant: a byte after the last response is taken for the end of stdout.
TakeTailLenient ==
  /\ pc = "tail" /\ io = "sent"
  /\ trailing' = (got = NoLine)
  /\ pc' = "wait" /\ io' = "idle"
  /\ UNCHANGED <<step, status, actual, report, waitErr, exit, got, requests,
                 consumed, pipeVars, adapterVars>>

TakeTail ==
  /\ pc = "tail" /\ io = "sent"
  /\ trailing' = (got # EOF)
  /\ pc' = "wait" /\ io' = "idle"
  /\ UNCHANGED <<step, status, actual, report, waitErr, exit, got, requests,
                 consumed, pipeVars, adapterVars>>

\* Mutant: the deadline during the trailing read abandons the goroutine.
AbandonTail ==
  /\ pc = "tail" /\ ctx = "done"
  /\ trailing' = TRUE /\ outClosed' = TRUE
  /\ pc' = "wait"
  /\ UNCHANGED <<step, status, actual, report, waitErr, exit, ioVars, ctx,
                 inClosed, adapterVars>>

TakeTailDeadline ==
  /\ pc = "tail" /\ ctx = "done"
  /\ trailing' = TRUE /\ outClosed' = TRUE
  /\ pc' = "joinTail"
  /\ UNCHANGED <<step, status, actual, report, waitErr, exit, ioVars, ctx,
                 inClosed, adapterVars>>

JoinTail ==
  /\ pc = "joinTail" /\ io = "sent"
  /\ pc' = "wait" /\ io' = "idle"
  /\ UNCHANGED <<step, status, actual, report, trailing, waitErr, exit, got,
                 requests, consumed, pipeVars, adapterVars>>

\* cmd.Wait, first part: the process has exited.
Reap ==
  /\ pc = "wait" /\ Dead
  /\ waitErr' = (proc # "exit0")
  /\ pc' = "watch"
  /\ UNCHANGED <<step, status, actual, report, trailing, exit, ioVars, pipeVars,
                 adapterVars>>

\* Second part: receive the watcher's result; a kill that found nobody is no error.
StopWatcher ==
  /\ pc = "watch"
  /\ \E killErr \in BOOLEAN :
       waitErr' = (waitErr \/ (watch = "killed" /\ killErr))
  /\ watch' = "gone"
  /\ pc' = "drain"
  /\ UNCHANGED <<step, status, actual, report, trailing, exit, ioVars, pipeVars,
                 proc, shut, held, written, exceeded, blame>>

\* Third part: the copy of stderr ends, or WaitDelay closes it.
DrainStderr ==
  /\ pc = "drain"
  /\ waitErr' = (waitErr \/ exceeded \/ "stderr" \in held)
  /\ pc' = "verdict"
  /\ UNCHANGED <<step, status, actual, report, trailing, exit, ioVars, pipeVars,
                 adapterVars>>

\* The last comparison, then the deferred cancel and closes.
Return ==
  /\ pc = "verdict"
  /\ report' = IF /\ report = "PASS"
                  /\ waitErr \/ exceeded \/ trailing \/ ctx = "done"
               THEN "FAIL" ELSE report
  /\ ctx' = "done" /\ inClosed' = TRUE /\ outClosed' = TRUE
  /\ pc' = "returned"
  /\ UNCHANGED <<step, status, actual, trailing, waitErr, exit, ioVars, adapterVars>>

\* Mutant: an incomplete report exits with success.
ExitZeroWhenIncomplete ==
  /\ \/ pc = "refused" /\ exit' = 2
     \/ pc = "returned" /\ exit' = IF report = "FAIL" THEN 1 ELSE 0
  /\ pc' = "exited"
  /\ UNCHANGED <<step, status, actual, report, trailing, waitErr, ioVars, pipeVars,
                 adapterVars>>

\* main: an error or an unwritable report is 2.
Exit ==
  /\ \/ pc = "refused" /\ exit' = 2
     \/ /\ pc = "returned"
        /\ \/ exit' = CASE report = "PASS" -> 0
                        [] report = "INCOMPLETE" -> 3
                        [] OTHER -> 1
           \/ exit' = 2
  /\ pc' = "exited"
  /\ UNCHANGED <<step, status, actual, report, trailing, waitErr, ioVars, pipeVars,
                 adapterVars>>

-----------------------------------------------------------------------------
(* The goroutines.                                                         *)

WriteRequest ==
  /\ io = "write" /\ ~inClosed
  /\ requests' = requests + 1
  /\ io' = "read"
  /\ UNCHANGED <<runnerVars, got, consumed, pipeVars, adapterVars>>

WriteFails ==
  /\ io = "write" /\ (inClosed \/ Dead)
  /\ got' = NoLine /\ io' = "sent"
  /\ UNCHANGED <<runnerVars, requests, consumed, pipeVars, adapterVars>>

\* The adapter closed its stdin: the write breaks although the process lives.
WriteBreaks ==
  /\ io = "write" /\ proc = "running"
  /\ got' = NoLine /\ io' = "sent"
  /\ blame' = blame \cup {"adapter"}
  /\ UNCHANGED <<runnerVars, requests, consumed, pipeVars, watch, proc, shut, held,
                 written, exceeded>>

Unread == consumed < Len(written)

\* ReadSlice('\n'): a buffered line is returned even after out.Close().
ReadLine ==
  /\ io = "read" /\ Unread /\ written[consumed + 1] # Unterminated
  /\ consumed' = consumed + 1
  /\ got' = consumed + 1 /\ io' = "sent"
  /\ UNCHANGED <<runnerVars, requests, pipeVars, adapterVars>>

\* End of file, whose unterminated rest is dropped, or a pipe closed underneath.
ReadFails ==
  /\ io = "read"
  /\ outClosed \/ (StdoutEOF /\ (Unread => written[consumed + 1] = Unterminated))
  /\ consumed' = IF Unread /\ ~outClosed THEN consumed + 1 ELSE consumed
  /\ got' = NoLine /\ io' = "sent"
  /\ UNCHANGED <<runnerVars, requests, pipeVars, adapterVars>>

\* ReadByte after the last step.
ReadTail ==
  /\ io = "tail"
  /\ \/ Unread /\ got' = consumed + 1
     \/ ~Unread /\ StdoutEOF /\ ~outClosed /\ got' = EOF
     \/ outClosed /\ got' = NoLine
  /\ io' = "sent"
  /\ UNCHANGED <<runnerVars, requests, consumed, pipeVars, adapterVars>>

-----------------------------------------------------------------------------
(* Time, os/exec and the adapter.                                          *)

\* The 60 s deadline, or the caller's cancellation.
Expire ==
  /\ Supervising /\ ctx = "live"
  /\ ctx' = "done"
  /\ blame' = blame \cup {"clock"}
  /\ UNCHANGED <<runnerVars, ioVars, inClosed, outClosed, watch, proc, shut, held,
                 written, exceeded>>

\* watchCtx calls cmd.Cancel, which kills the group; a descendant outside the
\* group keeps its pipes.
KillGroup ==
  /\ watch = "watching" /\ ctx = "done"
  /\ watch' = "killed"
  /\ proc' = IF proc = "running" THEN "killed" ELSE proc
  /\ held' \in {held, {}}
  /\ UNCHANGED <<runnerVars, ioVars, pipeVars, shut, written, exceeded, blame>>

\* Any line; it is the answer the contract asks for only if it comes after its
\* request, in its place and as expected.
AdapterWrites(line) ==
  /\ (proc = "running" /\ ~shut) \/ "stdout" \in held
  /\ ~outClosed /\ Len(written) < MaxLines
  /\ written # <<>> => written[Len(written)] # Unterminated
  /\ written' = Append(written, line)
  /\ blame' = IF line = Good(Len(written) + 1) /\ Len(written) < requests
              THEN blame ELSE blame \cup {"adapter"}
  /\ UNCHANGED <<runnerVars, ioVars, pipeVars, watch, proc, shut, held, exceeded>>

AdapterExits(code) ==
  /\ proc = "running"
  /\ proc' = code
  /\ blame' = IF code = "exit0" /\ inClosed /\ Len(written) = N
              THEN blame ELSE blame \cup {"adapter"}
  /\ UNCHANGED <<runnerVars, ioVars, pipeVars, watch, shut, held, written, exceeded>>

\* It may close its stdout and live on, which is no fault after its last answer.
AdapterShuts ==
  /\ proc = "running" /\ ~shut
  /\ shut' = TRUE
  /\ blame' = IF Len(written) = N THEN blame ELSE blame \cup {"adapter"}
  /\ UNCHANGED <<runnerVars, ioVars, pipeVars, watch, proc, held, written, exceeded>>

AdapterForks(fds) ==
  /\ proc = "running" /\ held = {} /\ (shut => fds = {"stderr"})
  /\ held' = fds
  /\ blame' = blame \cup {"adapter"}
  /\ UNCHANGED <<runnerVars, ioVars, pipeVars, watch, proc, shut, written, exceeded>>

DescendantsExit ==
  /\ held # {}
  /\ held' = {}
  /\ UNCHANGED <<runnerVars, ioVars, pipeVars, watch, proc, shut, written, exceeded, blame>>

\* More than 64 KiB on stderr while it is still being copied.
AdapterFloods ==
  /\ proc = "running" \/ "stderr" \in held
  /\ Supervising /\ pc # "verdict" /\ ~exceeded
  /\ exceeded' = TRUE
  /\ blame' = blame \cup {"adapter"}
  /\ UNCHANGED <<runnerVars, ioVars, pipeVars, watch, proc, shut, held, written>>

-----------------------------------------------------------------------------
Runner ==
  \/ Refuse \/ Launch \/ TakeAnswer \/ TakeTimeout \/ TakeDeadline \/ Join
  \/ CloseInput \/ TakeTail \/ TakeTailDeadline \/ JoinTail
  \/ Reap \/ StopWatcher \/ DrainStderr \/ Return \/ Exit

\* What the goroutine does without the adapter's help.
Goroutine == WriteFails \/ ReadLine \/ ReadFails \/ ReadTail

Adapter ==
  \/ \E line \in Lines : AdapterWrites(line)
  \/ \E code \in {"exit0", "exit1"} : AdapterExits(code)
  \/ \E fds \in SUBSET {"stdout", "stderr"} \ {{}} : AdapterForks(fds)
  \/ AdapterShuts \/ WriteBreaks \/ DescendantsExit \/ AdapterFloods

Terminated == pc = "exited" /\ UNCHANGED vars

Next == Runner \/ Goroutine \/ WriteRequest \/ Expire \/ KillGroup \/ Adapter \/ Terminated

(***************************************************************************)
(* The Go scheduler runs the runner, a goroutine whose call can return and *)
(* the watcher; timers fire.  Nothing is assumed of the adapter: neither   *)
(* that it answers or exits nor that it drains its stdin (WriteRequest).   *)
(***************************************************************************)
Fairness ==
  /\ WF_vars(Runner) /\ WF_vars(Goroutine)
  /\ WF_vars(KillGroup) /\ WF_vars(Expire)

Spec == Init /\ [][Next]_vars /\ Fairness

-----------------------------------------------------------------------------
(* Properties.                                                             *)

(***************************************************************************)
(* Exit code 0 is earned by the whole conversation: everything the adapter *)
(* ever wrote is the expected answer of each step, once and in order, it   *)
(* exited with success, stayed within the stderr limit and left nobody     *)
(* holding its pipes (scenario.go:203-259, main.go:50-52).                 *)
(***************************************************************************)
PassIsEarned ==
  exit = 0 =>
    /\ written = [i \in Steps |-> Good(i)]
    /\ \A i \in Steps : status[i] = "PASS"
    /\ proc = "exit0" /\ ~exceeded /\ held = {}

(***************************************************************************)
(* The converse: a report that is not PASS means that the adapter left its *)
(* contract or that a clock or the caller interrupted it; no interleaving  *)
(* of the runner's own goroutines fails a clean run.                       *)
(***************************************************************************)
NoFalseAlarm == pc = "returned" /\ report # "PASS" => blame # {}

(***************************************************************************)
(* A recorded observation is the reply to its own request: the observation *)
(* of step i is the i-th line of stdout and names step i, so a duplicate,  *)
(* early or late line never shifts the others (scenario.go:187-220).       *)
(***************************************************************************)
ObservationsCorrelate ==
  \A i \in Steps : actual[i] # NoLine => actual[i] = i /\ written[i].step = i

(***************************************************************************)
(* "A failed/unsupported step stops the scenario; subsequent steps remain  *)
(* NOT_RUN" (scenario.go:122-123): the step after a step that has not      *)
(* passed has neither a result nor a request on the wire.                  *)
(***************************************************************************)
FailureStops ==
  \A i \in Steps : status[i] # "PASS" =>
    /\ requests <= i
    /\ \A j \in Steps : j > i => status[j] = "NOT_RUN"

(***************************************************************************)
(* When the report is handed back no goroutine, process or watcher of the  *)
(* run is left, and both pipes are closed (scenario.go:142-160, 194-199,   *)
(* 243-255).                                                               *)
(***************************************************************************)
NothingLeftRunning ==
  pc = "returned" =>
    io = "idle" /\ Dead /\ watch = "gone" /\ inClosed /\ outClosed

(***************************************************************************)
(* The bufio.Reader has one user at a time: a goroutine is started only    *)
(* after the previous one put its answer in the channel, on the timeout    *)
(* and cancellation branches too (scenario.go:176-200, 246).               *)
(***************************************************************************)
OneReader ==
  [][io' \in {"write", "tail"} /\ io' # io => io \in {"idle", "sent"}]_io

(***************************************************************************)
(* RunScenario comes back whatever the adapter and its descendants do,     *)
(* even if they never answer, exit or close a pipe: the step timers and    *)
(* the 60 s deadline bound it (docs/stateful-scenarios.md:18-21).          *)
(***************************************************************************)
Terminates == <>(pc = "exited")

\* RunScenario implements the report contract.
Contract == INSTANCE ScenarioContract WITH
  phase  <- CASE pc \in {"check", "refused", "returned", "exited"} -> pc
              [] pc \in {"select", "join"} -> "running"
              [] OTHER -> "closing",
  pos    <- step,
  asked  <- requests,
  result <- status,
  verdict <- IF pc \in {"returned", "exited"} /\ proc # "none" THEN report ELSE "none",
  code   <- exit

(***************************************************************************)
(* RunScenario and main are an implementation of ScenarioContract: one     *)
(* request per step, judged in order, the verdict published once at the    *)
(* end and only ever lowered (scenario.go:165-260, main.go:41-57).         *)
(***************************************************************************)
ImplementsContract == Contract!Spec

=============================================================================
