# sage-inspector in TLA+

sage-inspector runs other people's implementations of the SAGE protocol and says
what it saw.  Its value is that its verdicts can be believed: a PASS must not come
from a late answer, a shifted line, a replaced binary or a torn report, and a run
must end whatever the inspected program does.  These modules state that and check
it; the theorems hold for every number of steps, cases, lines and clock samples.

Paths are relative to the repository, with its root called `src/`.

## The system

| Part | State | Operations | Talks to |
|---|---|---|---|
| Stateful scenario runner, `pkg/conformance/scenario.go`, `cmd/sage-scenario` | report, one live adapter process, two pipes, buffered reader, 60 s context | load, start, one request per step, judge, wind up, exit code | adapter over stdin/stdout/stderr, os/exec |
| Suite runner, `pkg/conformance/runner.go`, `process.go`, `process_unix.go` | results so far, the case in hand, its process and deadline | select, hash check, start, wait, kill, judge, sum up | one adapter process per case |
| Command line, `internal/conformancecli/run.go` | temporary report, report path, exit code | parse flags, run, save atomically, print | suite runner, file system |
| Owner admission model, `scripts/mcp_owner_model.py` | transport phase, operation, ledger entry, clock, deadline | eleven kinds of event | its own explorer and monitor |
| Setup admission model, `scripts/mcp_setup_model.py` | phase, pending output, deferred frame, evidence, id and replay history | receives, sends, send reports, ticks, calls | its own explorer and monitor |
| Exchange runners, `pkg/conformance/*exchange.go`, `cmd/sage-exchange` | counts, producer and check results | produce, positive control, mutations, parallel receptions | two adapters, one process per request |
| Session adapters, `adapters/go/sequence.go`, `parallel.go`, `adapters/rust/src/*` | one external session core per batch | open, parallel open behind a start gate, close | external core |
| Record session adapter, `adapters/go/cmd/sage-record010-state` | one core, effect counters, seen steps | create, open, seal, close | scenario runner |
| Close race probe, `adapters/go/cmd/sage-close-probe`, `scripts/inspect_close_race.py` | eight opens and one close with their time intervals | race, evaluate | external core |
| Protected pair, `scripts/run_mcp_setup_interop.py`, `mcp_protected_support.py` | two peers, two relay threads, captured frames, rendezvous files, fixture clock | launch, relay, settle a reply, collect, kill | two external bridges |
| Case evidence, `scripts/run_current_spec_cases.py`, `current_spec_evidence.py` | bindings, fixtures, observations, manifest, report | capture one track, join manifests, assess | adapter, files, reviewers |
| Design-baseline evidence, `scripts/run_design_baseline_cases.py`, `design_baseline_evidence.py` | output directory, observations, contracts, report | capture, review, assess | bridge, files, reviewers |
| Suites, JSON, reference primitives, legacy inspector, external-core drivers, other evidence scripts | none that lives between steps | parse, hash, compare, write JSON | files |

What is hard here, and hard to test:

- the scenario runner, its goroutine, the context watcher, the adapter and the
  adapter's descendants interleave freely, and a timer may fire at any point;
- an answer can be early, late, doubled or for another step;
- pipes outlive the process that opened them, so an end of file may never come;
- an executable can be replaced between two cases, a context can end between
  an observation and its judgement, the power can go between flush and rename;
- eight opens contend for one record, or race one close, and the only evidence is
  what each worker read off a clock before and after its call;
- a rejection may be a defence, a lost answer, or a record nobody could have opened;
- a relay that holds a reply, a responder that must mark it settled and an initiator
  that moves the clock share only frames and files, and peers exit when they like;
- evidence is captured in several runs, while executables, fixtures and evidence
  files may be changed under it;
- an owner can close, expire or crash between reservation, admission, effect and
  response, and a setup frame can come while an output is pending.

What makes each part correct is stated below with the run that checks it.
`PROJECT.json` lists every hazard at its line, those no property covers included.

## The modules

| Module | What it is |
|---|---|
| `ScenarioRunner` | RunScenario, os/exec around it, the adapter, main's exit code |
| `ScenarioContract` | what RunScenario promises, without processes, pipes and clocks |
| `ScenarioRunnerProofs` | theorems about `ScenarioRunner` |
| `SuiteRunner` | Run, Process.Observe, save, exit code, and an unfriendly environment |
| `SuiteContract` | what a run of a suite promises, without adapters, deadlines and temporary files |
| `SuiteRunnerProofs` | theorems about `SuiteRunner` |
| `McpOwner` | the owner admission model |
| `McpSetup`, `McpSetupProofs` | the setup admission model and its theorems |
| `Exchange` | RunExchange and RunReplayExchange, call by call |
| `ContentionRound` | a batch of RunConcurrentExchange: parallel opens of one receiver, their clock and their judgement |
| `SageExchange` | cmd/sage-exchange: composes the two above, adds the exit code |
| `SageExchangeProofs` | theorems about the composition |
| `CloseRace` | the close probe in both modes, the core behind it, and the script that judges |
| `CloseProofs` | theorems about `McpOwner` and `CloseRace` |
| `ProtectedPair`, `ProtectedPairProofs` | one pair of run_mcp_setup_interop.py, and its theorems |
| `CaseEvidence`, `CaseEvidenceProofs` | capture and assessment of case evidence, and its theorems |
| `BaselineEvidence`, `BaselineEvidenceProofs` | capture and assessment of design-baseline evidence, and its theorems |
| `MC...` | the instances TLC checks |

Each module defines, next to an action, the *mutants* of it: the action with a
plausible bug.  No specification uses them; put in place of the action, each makes
TLC find the property it is listed with in `PROJECT.json` violated.

### ScenarioRunner

`pc` is the position in RunScenario, `io` the goroutine it started last, `watch` the
goroutine of os/exec that calls `cmd.Cancel`, `proc`, `shut` and `held` the adapter,
its own stdout and the pipe ends its descendants hold.  `written` is all that ever
reached stdout and `consumed` how much of it was read.  A line is abstracted to the
step it names and to whether it matches, differs or says UNSUPPORTED; a malformed or
oversized line names no step, an unterminated one is only ever dropped.

One action per step of the code that another party can observe: `Launch`, the three
branches of the step's select (`TakeAnswer`, `TakeTimeout`, `TakeDeadline`), the join
`<-done`, closing stdin, the trailing read and its two outcomes, and cmd.Wait in its
three parts: the process has exited (`Reap`), the watcher's result is received
(`StopWatcher`), the copy of stderr ends or WaitDelay cuts it (`DrainStderr`).
Judging a response and recording it is one action (`Settle`), because nothing else
reads the report.  The adapter may write any line at any time, stop reading, close a
stream, flood stderr, leave descendants, and exit with any code.  `blame` is a
history variable: it remembers whether the adapter or a clock departed from a clean
run, and only `NoFalseAlarm` reads it.

| Property | What it says |
|---|---|
| `PassIsEarned` | exit code 0: the whole output is the expected answers, once and in order; the adapter exited well and left nobody behind |
| `NoFalseAlarm` | a report that is not PASS has an adapter or a clock to blame, never an interleaving of the runner's own goroutines |
| `ObservationsCorrelate` | the observation of step *i* is line *i* and names step *i* |
| `NothingLeftRunning` | a returned run leaves no goroutine, process, watcher or pipe |
| `OneReader` | the buffered reader never has two users |
| `Terminates` | the run ends, whatever the adapter does |
| `ImplementsContract` | the run implements `ScenarioContract`, its fairness included |

### SuiteRunner

`pc` walks through the loop of Run, Process.Observe and save.  What the code keeps in
locals of one case is kept per case here (`answer`, `faulty`, `expired`), so that the
exit code can be compared with what the adapters did.  `caller` separates the command,
whose context is never cancelled, from a library caller, who may cancel but does not
save.  `replaced` is the last case whose hash check may have come before the
replacement of the executable: the code itself says that it does not defend against
a replacement between check and start of the same case.  `temp`, `path` and `synced`
are the report files; contents that were not flushed may be torn after a power loss.

| Property | What it says |
|---|---|
| `ExitTellsTheTruth` | the exit code is what the adapters did: 1 if an observed case went wrong, 0 only if every case was answered well, in time and by a healthy process, else 3 |
| `ReplacedAdapterFails` | no case begun after a replacement passes |
| `OneAdapterAtATime` | a process lives only while its case is awaited |
| `ReportIsWhole` | the report path holds the old report or a whole new one |
| `VerdictIsSaved` | a verdict that leaves the command stands at the path with the same meaning; no temporary file is left |
| `ImplementsContract` | the run implements `SuiteContract`: cases in order, one status each, no observation after a cancellation, a verdict of all cases only, a report replaced as a whole; and, by the contract's fairness, the run ends even with hanging adapters and descendants |

### McpOwner and McpSetup

These two are themselves finite models, written in Python with an explorer and a
monitor.  The modules restate their transition functions; an event the script ignores
is a stuttering step.  The parameters of the scripts are constants here, so that the
theorems hold for all clocks, durations and capacities.  On the domain of the scripts
TLC finds exactly the states the scripts find: 603, and 202 + 226 + 180 + 204.  The
monitors are stated as relations between several steps: `LedgerTellsTheEffect` and
`ResponseInTime` for the owner; `ReadyIsEarned`, `CapacityHolds`,
`SetupInTime`, `DeferredFrameIsKept` and `AdmissionAfterSetup` for setup.  That an
expired owner is closed and that ids and slots agree are theorems only.

### Exchange, ContentionRound and SageExchange

`Exchange` follows one trial after the other: `Produce`, the positive control and six
mutations (`Check`), or a fresh control and nine actions on one receiver (`Receive`),
then `Fold`, which counts.  Each call may be lost, refused as UNSUPPORTED, or answered
as the core would; after the three minutes (`Expire`) every call is lost.  The core of a
subject is correct or has one named fault: as a producer, a malformed record (`liar`) or
one nobody can open (`sealed`); as a receiver, no record opened (`deaf`), a wrong
plaintext (`mumbles`), one bound context ignored, accepted records forgotten, a record
burnt by a damaged copy, late records refused (`strict`), or opens after the close.

`ContentionRound` has the goroutines of adapters/go/parallel.go as they are: workers
report ready, the gate opens, each reads the clock, makes its call, reads the clock
again; the clock may stand still or tick at any moment after the gate.  The core may be
atomic, check and mark in two steps (`racy`), turn a record away while another call is
under way (`shy`), accept a damaged copy (`lax`), burn or forget.  `wins` and `met` are history variables: what
really happened, against which the judgement of judgeParallel is held.

| Property | What it says |
|---|---|
| `ExitZeroIsEarned` | exit code 0: two distinct subjects, every call answered, and no fault that the vector of this mode is there to find |
| `NoFalseAlarm` | exit code 1 is never the harness: a call was lost, a reading was 0, or a core is at fault |
| `DefenceIsIsolated` | a rejection that passes beside a positive control that passes is the receiver's own defence of that context |
| `OneWinnerEach` | a round of seven PASSes had one winner per record and contended in both groups; an overlap is only reported of calls that met |
| `NeverStuck` | workers, gate and join never all wait for each other |

### CloseRace

The probe runs once in order (control) and for several rounds behind a gate (race); the
evaluator sees clock readings, verdicts and an exit status.  The six cores are correct,
close only after their close has returned (`lagging`), never (`deaf`) or without a lock
(`unsynchronised`, which the race detector notices), answer the close with REJECT
(`stubborn`), or let close and opens wait for each other (`stuck`).  `tardy`, `met`, `missed` and `harm` remember what
happened, whatever the readings say.

| Property | What it says |
|---|---|
| `PassIsEarned` | an open accepted after the close fails the mode and the script; a race that passes overlapped in every round |
| `NoFalseAlarm` | no schedule makes a correct core fail, only a process fault, a reading of 0 or two equal readings |
| `ScriptEnds` | the script ends, even when close and opens wait for each other |

### ProtectedPair

The peers write frames into `wire`, the relay threads capture them and forward them into
`out`; `files`, `marker` and `clock` are the files of the pair's directory.  A relay
that has captured the reply to a pending call holds it until `marker` says that the
responder has settled it; the initiator advances `clock` before a retry.  `main` and
`poll` are the position in pair and in wait_file, whose look at the file and poll of
the process are two actions.  Four modes (setup only, protected, recovery of server or
client), six cores (correct, one that answers pending once more, one that does so for
ever, one that reserves and executes every call, one that leaves out a row of the
journal, one that calls again in a client recovery) and crashes of either peer.

| Property | What it says |
|---|---|
| `ClockWaits` | the clock never overtakes the cleanup of a captured reply |
| `PassIsEarned` | a pair that passes executed once, journalled its three states and delivered every captured frame; a recovery executed nothing |
| `NoFalseAlarm` | correct peers that are in time pass, whatever the order of frames, files and exits |
| `PairEnds` | every pair ends, both peers gone and both relays ended |

### CaseEvidence and BaselineEvidence

Here the other party is whoever changes files.  In `CaseEvidence` a run pins an
executable, observes every bound case of a track and seals a manifest if the executable
is still the same; between and during runs an executable can be replaced, a fixture
amended or an evidence file altered, and the manifests of two runs can be joined.  In
`BaselineEvidence` a run may fail (its directory is removed), be killed, or meet a
replacement; reviewers add observations, sound or not, simulated or real.  Both end with
the assessment as the code does it, status by status.

| Module | Property | What it says |
|---|---|---|
| `CaseEvidence` | `OneSubject` | every observation was made on the executable the manifest names |
| | `PassIsEarned` | a PASS rests on a complete fixture as it is now, and an unaltered match, for every track and mandatory child |
| | `MismatchShows` | nothing missing, partial or unsupported hides an observed mismatch |
| `BaselineEvidence` | `PassIsEarned` | a PASS has a sound, real match for every full contract, and no bounded fixture of the subject contradicts it |
| | `FailIsReal` | a case fails exactly when the subject itself contradicted a contract of it |
| | `OutputWhole` | the directory of an ended run is complete or gone |

## The runs

| Run | Bounds | Distinct states | Checks |
|---|---|---|---|
| `ScenarioSafety` | 2 steps, 3 lines | 5,448,131 | the safety properties of `ScenarioRunner` |
| `ScenarioLiveness` | 2 steps, 2 lines | 748,643 | `Terminates`, `ImplementsContract` |
| `SuiteRunner` | 3 cases | 1,612,142 | safety and `ImplementsContract` |
| `McpOwner` | the domain of the script | 603 | invariants and action properties |
| `McpSetup` | the domain of the script | 812 | invariants and action properties |
| `SageExchange` | 12 kinds of subject, 3 modes; 3 workers, 2 rounds, clock 0..2, 6 cores | 1.28 million | the five properties above |
| `CloseRace` | 2 opens, 2 rounds, clock 1..2, 6 cores | 376,996 | the three properties above |
| `ProtectedPair` | 1 setup frame a side, 3 calls, 4 modes, 6 cores, both may crash | 176,492 | the four properties above |
| `PairRendezvous` | the same, correct core, no crash | stops at the first violation | `ExitedBeforeRendezvous`, which the code violates |
| `CaseEvidence` | 2 cases and a child, 2 executables, 4 plans, 2 changes, 2 runs | 2,282,594 | the three properties above |
| `BaselineEvidence` | 2 cases, 3 items, 1 subcondition, 2 reviews | 1,028,448 | the three properties above |
| `BaselineSupport` | 1 case | stops at the first violation | `SupportIsReal`, which the code violates |

Why the bounds are enough:

- Two steps are one step whose successor matters, and one that is last; three lines
  leave room for one line too many, which is where shifted and trailing lines come from.
  The liveness run drops that line: it needs stuck interleavings, not more lines.
- Three cases are a first, a middle and a last, so that a replacement or cancellation
  has cases before and after it.
- Three workers are two on one record and one on another; a fourth would repeat one of
  them.  Two rounds are one whose receiver must not leak into the next, and a last one.
  A clock of three values has readings that are equal, adjacent and apart, and its
  0 is the reading the code refuses.  A batch stands for the four a concurrent exchange
  runs: they share nothing but the sum of their statuses.  The kinds leave out `seed`,
  `direction` and `sid`, which are checked by the same code as the other three contexts.
- `CloseRace` starts its clock at 1: a reading of 0 only makes a row invalid.
- Three calls are the first, a retry of what was done, and one more, so that the clock
  moves twice; one setup frame a side has a first and a last frame.  `Setup` and `Calls`
  are 4 in the code.
- Two changes are enough to replace an executable and put it back, or to replace it and
  amend a fixture; two runs are enough to join manifests.

No run has a state constraint.  `McpSetup` and `SageExchange` switch the deadlock check
off because a closed owner and a command that returned stop for good; `NeverStuck` says
of the workers what the deadlock check would have said.  It speaks of the guards of their
actions, which `ContentionRound` names (`MayReady`, `MayEnd`, ...) and the actions use, so
that it can be proved as well as checked.  The other models stutter
explicitly where they end, or keep taking clock samples.

Fairness is what the runtimes give: a goroutine or thread whose call can return does
return, the watcher runs, timers fire.  In `ScenarioRunner` that is `Runner`,
`Goroutine`, `KillGroup` and `Expire`, in `SuiteRunner` `Runner`, `Expire`, `Kill` and
`WaitDelay`, in `ProtectedPair` `Relay`, `Runner` and `Expire`, and in `CloseRace` only
the timeout of subprocess.run.  Nothing is assumed of an adapter, a peer, a core or the
clock: they need not read, answer, settle or exit.  That is why the runs end by their
timers, by closing pipes and sockets, and by WaitDelay.

### What the two violations say

- `PairRendezvous`: wait_file looks for the file and then polls the process.  A peer that
  writes its file and exits in between is reported with "bridge exited before
  rendezvous", although it reached it; the comment in pair says that peers finish
  independently and that a finished sibling must not invalidate a pending observation
  (`src/scripts/run_mcp_setup_interop.py`:149, 218-219).  `ProtectedPair!NoFalseAlarm`
  excepts exactly this.
- `BaselineSupport`: parent_status accepts PARTIAL as support, and a unit simulation is
  PARTIAL whatever it showed.  A case can pass whose only local fixture was simulated,
  even with a contradicting outcome; `src/docs/first-stage-completion.md`:41-43 demands a
  matching local fixture (`src/scripts/design_baseline_evidence.py`:225, 106-107).

### Limits of the code that the properties except

The models show these, and the properties name them; they are what the code chose.

- A core that rejects opens before the close passes the race: rejection is only a fault
  in the control.
- Two equal clock readings make the evaluator see an order that was not there, and a
  reading of 0 is refused; both can fail a correct core (`blame`).
- An executable that is replaced and put back within one run is not noticed.
- A peer that exits between look and poll (above).

## The proofs

The TLA+ proof system checks every theorem for all values of the constants, from the
named assumptions only: 1 to 128 steps (`LoadScenario` accepts no others), at least
one case, clock samples and deadlines that are natural numbers, capacities of at
least one, at least two workers and one round (one open will do for the close race), at least one
setup frame and one call (`GoodPairPasses` alone asks for more than one),
and for the evidence that every child has a parent and every case a track or contract.

- `ScenarioRunnerProofs`.  Type correctness comes first.  None of the properties is
  inductive: that a passed step stands on its own line is only preserved because the
  goroutine has read exactly one line per passed step, which in turn needs the results
  to be a prefix of PASS.  `IInv` says so in five parts: `StepsInv` (the shape of the
  results), `ReadInv` (results, lines and requests), `TailInv` (what an accepted end of
  file means), `WaitInv` (what a nil error of cmd.Wait means) and `EndInv` (what a PASS
  that leaves has behind it).  `NoFalseAlarm` needs a second invariant, `CleanInv`:
  while nobody is to blame, no error flag is up and nothing was closed early.
  `ContractIsKept` is the refinement of `ScenarioContract` step by step, without its
  fairness: `RequestInv` says where the requests stand when an answer is taken and that
  the report follows the last result, and each action of the runner is then a step of
  the contract or changes nothing the contract sees.
- `SuiteRunnerProofs`.  The types of runner, cases and files are preserved separately;
  then one adapter at a time, which shows that a step touches the case in hand only;
  then that each recorded status is what happened to its case, and that temporary
  file and report path are in step with the position in save.  `ContractIsKept` is the
  refinement of `SuiteContract` step by step, without its fairness.  Its mapping counts
  the cases before the one in hand, so a case is judged in the contract at the step
  that moves on to the next; `CancelInv` is what the cancellation needs: once the
  caller has cancelled, the expiry of a case under way is on record until it is judged.
- `McpSetupProofs`.  `HistoryInv` says which evidence, ids and replay markers each
  phase implies, per role; readiness, time and slots follow from it.  The capacity
  argument is about cardinalities: a step adds at most one id, and only below the limit.
- `CloseProofs` is about what a close does to work under way, and extends both models
  of that, which share no name.  For the owner, `IInv` adds to the properties where an
  operation can stand for a given transport and ledger; an expired owner being closed,
  every admission and response of an open owner is in time.  For the close race, the
  evaluator sees clock readings and verdicts and the properties speak of what happened,
  so `RaceInv` relates the two: `Readings` and `History` say that an open that began
  after the close returned has the readings of one, and that an open and the close that
  never met have readings that do not overlap; `Noted` and `Rounded` carry harm and
  missed rounds from the round to the status of the mode.  `CorrectCoreNeverFails` needs
  `CleanInv` beside it: in a round of a correct core with no shared reading, the session
  is closed exactly once the close has answered, and an accepted open began strictly
  before the close returned.
- `CaseEvidenceProofs`.  `IInv` is the two wanted invariants with `RunInv` (rows of the
  run in hand are of the pinned executable, unless it was replaced), `ReportInv` (what
  a report was derived from) and `VersionInv` (no row has a fixture from the future).
- `BaselineEvidenceProofs`.  The properties are inductive with `TypeOK` and `Frozen`:
  after the assessment nothing that it read changes.
- `ProtectedPairProofs`.  The argument is that there is at most one token: a frame on its
  way, a frame a relay holds, or a peer at work.  `OneToken` and
  `Contents` place it, `Turns` and `Counts` tie attempts, replies, marker and clock to
  its place, `Quiet` and `Exits` say what follows when a stream has ended, and `RunnerInv`
  and `Passed` what the runner has checked.  `ClockWaits` follows for every number of
  setup frames and calls, every set of cores, crashes included.  For `GoodPairPasses`
  the count of the token must be exact: `Flow` balances, for each direction, what was
  sent, captured, held and read; `Rows` and `Talk` tie the ledger and the replies to
  the attempts, `Stations` and `Ends` say that nobody fails or exits too soon; together
  they hold until the pair is decided, and it is decided well.  Its hypothesis
  `Calls > 1` is needed: the first reply of a correct responder may be a pending one,
  and with a single call the initiator could not ask again (the script allows four).
- `SageExchangeProofs`.  `RejectionIsDefence` needs `Isolation`, where each trial stands
  and what its last step meant.  `WinnersAreUnique` holds for every number of workers and
  rounds and every clock: `Meetings` says that clock readings order calls that did not
  meet, `Tally` that the wins of each record are what the passed checks imply; a lemma
  about counting turns "one ACCEPT in this group" into "one winner".
  `CodeZeroEarned` and `CodeOneEarned` rest on `ExchangeInv`: `TrialInv` says what the
  trials so far show of the two cores, and what they cannot show of good ones;
  `BatchInv` does the same for the rounds (`CoreSeen`: a faulty core has left its mark;
  `AtomicClean`: a correct one has spoilt nothing without blame), with `RoundInv` of the
  theorem before; `ExitInv` ties the exit code to the outcome.
  `SomeoneCanGoOn` is `NeverStuck`, the absence of deadlock among the goroutines.

### How far the proofs go towards termination

A liveness property under fairness is beyond the prover.  What makes it true is not:
the rule by which a program ends has premises that are invariants and step properties.
`RunComesCloser` (one for the scenario runner, one for the suite runner),
`PairComesCloser` and `ScriptComesCloser` prove these premises for all constants:

- a rank is a natural number, and until the end the guard of one of the fair actions
  holds (`SomebodyMay`): runner, goroutine, timer, watcher or relay;
- every step lowers the rank, or leaves it as it is and takes no chance away (`Stays`):
  whatever was possible before is still possible, so that weak fairness is enough;
- the awaited actions lower it.  Adapters, peers, cores and clock are not awaited.

In the protected pair what the deadline does is enough: relays and runner need to lower
the rank only after it.  In the close race only the timeout is awaited, whose guard is
that no exit code stands yet, so its theorem says that directly, without `SomebodyMay`.

The rank is a position in the program and, for the suite, the number of cases left; beside
it stands an invariant (`WaitInv`, `ProgressInv`) saying who is waited for: a process that
nobody has killed has a deadline ahead of it, a closed pipe has a goroutine that may
fail, a relay whose socket is shut may end.  What is not proved is the last step from
these premises to "eventually", and that the guards, written out as state predicates,
are where the actions are ENABLED.  The guards were compared with ENABLED on the
instances of the runs of the first three, and TLC checks the properties themselves.

Model-checked only: `Terminates`, `PairEnds`, `ScriptEnds`, and the fairness of the
contract in each of the two `ImplementsContract`; the theorems above are their provable
part.  Every other property of the runs that pass is stated by a theorem.

## Not modelled

`map` in `PROJECT.json` covers about two thousand lines of Go and Python: nearly all of
the code that keeps state between steps or meets another party.  It is a small share of
the repository, because most of the rest are scripts that run from top to bottom over
fixed files, and modelling them would only write their text again.

- Parsing, canonical JSON, hashing and fixtures: stateless, on unbounded text.  Where
  the runners use them, their outcome is a nondeterministic choice.
- The legacy inspector and the drivers of external cores (A2A, DID, hop, guard,
  registry): one-shot programs; the state machines are in the cores.
- The pending contract classifiers: one function per case from recorded facts to a list
  of clauses; what matters in them is the wording of each clause.
- Checks of design-baseline primitives: comparisons of files with a catalog.  What the
  assessment takes from the catalog is a constant of `BaselineEvidence`.
- Observers of live hosts and services: a fixed list of requests in order; the protocol
  state is in services that are not in the repository.
- Inspectors of external consumers: tests patched into foreign cores, and scripts that
  build and run them once.
- The other check_, observe_, generate_ and test_ scripts: one pass over static input.
- The record session adapter is planned (below).  Of the session adapters the Rust twin
  is not mapped, and neither are the Rust peer of the protected pair and the matrix of
  pairs in main.
- The refusals of a command line before it runs, and the in-process reference adapter.
- That the runner itself is killed while an adapter lives, and descendants that left
  the process group without holding a pipe: the code does not deal with either.
- Durability of a report whose directory was not flushed: a power loss may bring the
  old report back.  The model has that behaviour, and no property denies it.

## Plan

1. Done: `ScenarioRunner` with its contract, the two admission models, `SuiteRunner`;
   `Exchange`, `ContentionRound` and their composition `SageExchange`; `CloseRace`;
   `ProtectedPair`; `CaseEvidence`; `BaselineEvidence`; the contracts of both runners;
   the theorems above.
2. `RecordAdapter`, composed with `ScenarioRunner` in place of the arbitrary adapter:
   effect counters and step headers through a whole scenario.
