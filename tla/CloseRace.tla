------------------------------ MODULE CloseRace ------------------------------
(***************************************************************************)
(* The close race diagnostic: the probe adapters/go/cmd/sage-close-probe,  *)
(* which opens W records against one close of the same session, first in   *)
(* order (control) and then behind a start gate (race), and the evaluator  *)
(* scripts/inspect_close_race.py, which knows only the clock readings and  *)
(* the verdicts of each round.  The session core is external.              *)
(*                                                                         *)
(* CloseProofs extends this module and McpOwner, hence `race' in names     *)
(* that both would have; `time' is the clock of the round.                 *)
(***************************************************************************)
EXTENDS Integers, FiniteSets

CONSTANTS
  W,        \* opens of a round (8)
  Rounds,   \* rounds of a race (16 per direction)
  Origin,   \* what the clock shows when a round starts: 0 if it is coarse
  MaxTime,  \* bound on the clock of one round
  Cores     \* the cores that are tried

CoreKinds == {"correct", "lagging", "deaf", "unsynchronised", "stubborn", "stuck"}

ASSUME CloseRaceAssumption ==
  /\ W \in Nat \ {0} /\ Rounds \in Nat \ {0}
  /\ Origin \in Nat /\ MaxTime \in Nat /\ Origin <= MaxTime
  /\ Cores \subseteq CoreKinds

VARIABLES
  core,
  mode,      \* the probe run in hand: control, race, or over
  stage,     \* of the probe: idle between two rounds, or calls
  round,     \* rounds this run has printed
  pc,        \* of each participant; W is the one that closes
  gate, time,
  started, finished, verdict,   \* what the participants note
  fresh,     \* when the positive control of the round ended
  closed,    \* the session accepts nothing any more
  raced,     \* the race detector saw an unsynchronised access in this run
  bad,       \* evaluate: some row so far is invalid
  hits,      \* evaluate: rows whose close overlaps an open
  result,    \* status of each mode
  code,      \* exit code of the script, -1 while it runs
  tardy,     \* history: the opens of the round that began after the close returned
  met,       \* history: an open and the close were under way together, this round
  missed,    \* history: race rounds in which they were not
  harm,      \* history: modes in which the core did what it must not
  blame      \* history: a process fault, a reading of 0, or two equal readings

raceVars == <<core, mode, stage, round, pc, gate, time, started, finished, verdict, fresh,
          closed, raced, bad, hits, result, code, tardy, met, missed, harm, blame>>

judged == <<bad, hits, result, code>>
batch == <<core, mode, round, judged, missed>>
clock == <<gate, time, fresh>>

Modes == {"control", "race"}
Workers == 0..(W - 1)
Closer == W
Parties == 0..W
Busy == {"began", "looked", "answered"}

RoundsOf(m) == IF m = "control" THEN 1 ELSE Rounds

RaceInit ==
  /\ core \in Cores /\ mode = "control" /\ stage = "idle" /\ round = 0
  /\ pc = [p \in Parties |-> "new"] /\ gate = FALSE /\ time = Origin /\ fresh = Origin
  /\ started = [p \in Parties |-> 0] /\ finished = [p \in Parties |-> 0]
  /\ verdict = [p \in Parties |-> "NONE"] /\ closed = FALSE /\ raced = FALSE
  /\ bad = FALSE /\ hits = 0
  /\ result = [m \in Modes |-> "NONE"] /\ code = -1
  /\ tardy = {} /\ met = FALSE /\ missed = 0 /\ harm = {} /\ blame = FALSE

-----------------------------------------------------------------------------
(* The probe.                                                              *)

\* A new session and a new clock; the positive control has a session of its own.
Positive ==
  /\ mode # "over" /\ stage = "idle" /\ round < RoundsOf(mode)
  /\ time' \in Origin..MaxTime /\ fresh' = time'
  /\ blame' = (blame \/ Origin = 0)
  /\ stage' = "calls" /\ closed' = FALSE /\ gate' = FALSE
  /\ pc' = [p \in Parties |-> "new"]
  /\ started' = [p \in Parties |-> 0] /\ finished' = [p \in Parties |-> 0]
  /\ verdict' = [p \in Parties |-> "NONE"]
  /\ tardy' = {} /\ met' = FALSE
  /\ UNCHANGED <<batch, raced, harm>>

ClockTicks ==
  /\ stage = "calls" /\ time < MaxTime /\ time' = time + 1
  /\ UNCHANGED <<batch, stage, pc, gate, fresh, started, finished, verdict, closed,
                 raced, tardy, met, harm, blame>>

Ready(p) ==
  /\ stage = "calls" /\ mode = "race" /\ pc[p] = "new"
  /\ pc' = [pc EXCEPT ![p] = "ready"]
  /\ UNCHANGED <<batch, clock, stage, started, finished, verdict, closed,
                 raced, tardy, met, harm, blame>>

OpenGate ==
  /\ stage = "calls" /\ ~gate /\ \A p \in Parties : pc[p] = "ready"
  /\ gate' = TRUE
  /\ UNCHANGED <<batch, stage, pc, time, fresh, started, finished, verdict, closed,
                 raced, tardy, met, harm, blame>>

\* In control mode the opens and then the close come one after the other.
Turn(p) ==
  IF mode = "control"
  THEN pc[p] = "new" /\ \A q \in Parties : q < p => pc[q] = "done"
  ELSE pc[p] = "ready" /\ gate

\* The calls under way that p races with: opens with the close.
Rivals(p) == {q \in Parties : pc[q] \in Busy /\ (p = Closer <=> q # Closer)}

Begin(p) ==
  /\ stage = "calls" /\ Turn(p)
  /\ pc' = [pc EXCEPT ![p] = "began"] /\ started' = [started EXCEPT ![p] = time]
  /\ tardy' = IF pc[Closer] = "done" THEN tardy \cup {p} ELSE tardy
  /\ met' = (met \/ Rivals(p) # {})
  /\ LET race == core = "unsynchronised" /\ Rivals(p) # {}
     IN  raced' = (raced \/ race) /\ harm' = IF race THEN harm \cup {mode} ELSE harm
  /\ UNCHANGED <<batch, clock, stage, finished, verdict, closed, blame>>

\* Blame: an open that began before the close returned shares its reading.
End(p) ==
  /\ stage = "calls" /\ pc[p] = "answered"
  /\ pc' = [pc EXCEPT ![p] = "done"] /\ finished' = [finished EXCEPT ![p] = time]
  /\ blame' = (blame \/ (p = Closer /\ \E w \in Workers :
                                   pc[w] \in Busy \cup {"done"} /\ started[w] = time))
  /\ UNCHANGED <<batch, clock, stage, started, verdict, closed, raced, tardy, met, harm>>

-----------------------------------------------------------------------------
(* The session core, external.                                             *)

\* An open asks whether the session is closed; a stuck one waits for the close.
Look(w) ==
  /\ stage = "calls" /\ w # Closer /\ pc[w] = "began"
  /\ ~(core = "stuck" /\ pc[Closer] = "began")
  /\ pc' = [pc EXCEPT ![w] = "looked"]
  /\ verdict' = [verdict EXCEPT ![w] = IF closed THEN "REJECT" ELSE "ACCEPT"]
  /\ UNCHANGED <<batch, clock, stage, started, finished, closed, raced, tardy, met,
                 harm, blame>>

\* It returns, and may do so long after the close.
Answer(w) ==
  /\ stage = "calls" /\ pc[w] = "looked"
  /\ pc' = [pc EXCEPT ![w] = "answered"]
  /\ harm' = IF w \in tardy /\ verdict[w] = "ACCEPT" THEN harm \cup {mode} ELSE harm
  /\ UNCHANGED <<batch, clock, stage, started, finished, verdict, closed, raced,
                 tardy, met, blame>>

\* The close; a stuck one waits for the opens under way.
Shut ==
  /\ stage = "calls" /\ pc[Closer] = "began"
  /\ ~(core = "stuck" /\ Rivals(Closer) # {})
  /\ pc' = [pc EXCEPT ![Closer] = "answered"]
  /\ verdict' = [verdict EXCEPT ![Closer] = IF core = "stubborn" THEN "REJECT" ELSE "ACCEPT"]
  /\ closed' = (core \notin {"lagging", "deaf"})
  /\ UNCHANGED <<batch, clock, stage, started, finished, raced, tardy, met, harm, blame>>

\* A lagging core closes after its close returned.
Settle ==
  /\ stage = "calls" /\ core = "lagging" /\ pc[Closer] = "done" /\ ~closed
  /\ closed' = TRUE
  /\ UNCHANGED <<batch, clock, stage, pc, started, finished, verdict, raced, tardy,
                 met, harm, blame>>

-----------------------------------------------------------------------------
(* The evaluator.                                                          *)

StartsAfterClose(w) == verdict[w] = "ACCEPT" /\ started[w] >= finished[Closer]

RowBad(last) ==
  \/ \E p \in Parties : started[p] = 0 \/ started[p] > finished[p]
  \/ verdict[Closer] # "ACCEPT"
  \/ last # "REJECT"
  \/ \E w \in Workers : started[w] < fresh \/ StartsAfterClose(w)
  \/ mode = "control" /\ \E w \in Workers :
       verdict[w] = "REJECT" \/ finished[w] > started[Closer]

\* Mutant: intervals that only touch count.
HitTouching == \E w \in Workers : started[w] <= finished[Closer] /\ started[Closer] <= finished[w]

Hit == \E w \in Workers : started[w] < finished[Closer] /\ started[Closer] < finished[w]

\* Mutant: the open after the close is made before the others are back.
JoinNobody ==
  /\ stage = "calls" /\ pc[Closer] = "done"
  /\ LET last == IF closed THEN "REJECT" ELSE "ACCEPT"
     IN  /\ bad' = (bad \/ RowBad(last))
         /\ harm' = IF last = "ACCEPT" THEN harm \cup {mode} ELSE harm
  /\ hits' = hits + (IF Hit THEN 1 ELSE 0)
  /\ missed' = missed + (IF mode = "race" /\ ~met THEN 1 ELSE 0)
  /\ stage' = "idle" /\ round' = round + 1
  /\ UNCHANGED <<core, mode, pc, clock, started, finished, verdict, closed, raced,
                 result, code, tardy, met, blame>>

\* done.Wait returned: the open after the close, and the row is printed.
Emit ==
  /\ stage = "calls" /\ \A p \in Parties : pc[p] = "done"
  /\ LET last == IF closed THEN "REJECT" ELSE "ACCEPT"
     IN  /\ bad' = (bad \/ RowBad(last))
         /\ harm' = IF last = "ACCEPT" THEN harm \cup {mode} ELSE harm
  /\ hits' = hits + (IF Hit THEN 1 ELSE 0)
  /\ missed' = missed + (IF mode = "race" /\ ~met THEN 1 ELSE 0)
  /\ stage' = "idle" /\ round' = round + 1
  /\ UNCHANGED <<core, mode, pc, clock, started, finished, verdict, closed, raced,
                 result, code, tardy, met, blame>>

\* The process is gone: its verdict stands, and the next one starts.
Conclude(status) ==
  LET all == [result EXCEPT ![mode] = status]
  IN  /\ result' = all
      /\ mode' = IF mode = "control" THEN "race" ELSE "over"
      /\ code' = IF mode = "control" THEN code
                 ELSE IF "FAIL" \in {all[m] : m \in Modes} THEN 1 ELSE 3
      /\ stage' = "idle" /\ round' = 0 /\ bad' = FALSE /\ hits' = 0 /\ raced' = FALSE
      /\ UNCHANGED <<core, pc, clock, started, finished, verdict, closed, tardy, met,
                     missed, harm>>

Evaluate ==
  IF raced \/ bad THEN "FAIL"
  ELSE IF mode = "control" \/ hits = round THEN "PASS" ELSE "INCOMPLETE"

ProbeExits ==
  /\ mode # "over" /\ stage = "idle" /\ round = RoundsOf(mode)
  /\ Conclude(Evaluate) /\ UNCHANGED blame

\* A crash.
ProbeFails == mode # "over" /\ Conclude("FAIL") /\ blame' = TRUE

\* The executable is not the one whose hash was taken: no run, no report.
ProbeChanged ==
  /\ mode # "over" /\ stage = "idle" /\ round = 0
  /\ mode' = "over" /\ code' = 1
  /\ UNCHANGED <<core, stage, round, pc, clock, started, finished, verdict, closed,
                 raced, bad, hits, result, tardy, met, missed, harm, blame>>

\* Mutant: no limit for the probe.
NoTimeOut == FALSE /\ UNCHANGED raceVars

\* 30 seconds are over.
TimeOut == mode # "over" /\ Conclude("FAIL") /\ blame' = TRUE

Done == mode = "over" /\ UNCHANGED raceVars

Step(p) == Ready(p) \/ Begin(p) \/ Look(p) \/ Answer(p) \/ End(p)

Main == Positive \/ OpenGate \/ Emit \/ ProbeExits

RaceNext ==
  \/ \E p \in Parties : Step(p)
  \/ Shut \/ Settle \/ ClockTicks \/ Main \/ ProbeFails \/ ProbeChanged \/ TimeOut \/ Done

(* The timer of subprocess.run fires; nothing is assumed of the probe.     *)
RaceSpec == RaceInit /\ [][RaceNext]_raceVars /\ WF_raceVars(TimeOut)

-----------------------------------------------------------------------------
(* Properties.                                                             *)

(***************************************************************************)
(* What passes is earned, though the evaluator has only clock readings and *)
(* an exit status to go by: an open that began after the close had         *)
(* returned and was accepted, an accepted open after everything was        *)
(* joined, and an unsynchronised access each make that mode FAIL and the   *)
(* script exit 1 (lines 19-27, 52-61, 116-118); and a race that passes was *)
(* one: in every round the close and some open were under way together     *)
(* (lines 66-70).                                                          *)
(***************************************************************************)
PassIsEarned ==
  /\ \A m \in harm : result[m] \in {"NONE", "FAIL"}
  /\ harm # {} => code \in {-1, 1}
  /\ result["race"] = "PASS" => missed = 0

(***************************************************************************)
(* No schedule makes a correct core fail, an open that ends long after the *)
(* close included; only a process fault, a clock reading of 0 or an open   *)
(* that starts in the very instant in which the close returns does.        *)
(***************************************************************************)
NoFalseAlarm ==
  core = "correct" /\ ~blame => ~bad /\ \A m \in Modes : result[m] # "FAIL"

(***************************************************************************)
(* The script ends, even when close and opens wait for each other.         *)
(***************************************************************************)
ScriptEnds == <>(code # -1)

=============================================================================
