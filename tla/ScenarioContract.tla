-------------------------- MODULE ScenarioContract --------------------------
(***************************************************************************)
(* What RunScenario promises of a scenario of N steps, without processes,  *)
(* pipes or clocks (src/docs/stateful-scenarios.md, "Execution and         *)
(* isolation" and "Results and command"; the code is scenario.go:124-261   *)
(* and cmd/sage-scenario/main.go:41-57).                                   *)
(***************************************************************************)
EXTENDS Integers

CONSTANT N          \* number of steps

VARIABLES
  phase,      \* check, running, closing, returned, refused or exited
  pos,        \* the step being executed
  asked,      \* requests sent
  result,     \* the result recorded for each step
  verdict,    \* the status of the report, "none" until it is returned
  code        \* the exit code, -1 until main ends

vars == <<phase, pos, asked, result, verdict, code>>

Steps == 1..N

Init ==
  /\ phase = "check" /\ pos = 1 /\ asked = 0 /\ code = -1
  /\ result = [i \in Steps |-> "NOT_RUN"]
  /\ verdict = "none"

Start(to) ==
  /\ phase = "check" /\ phase' = to
  /\ UNCHANGED <<pos, asked, result, verdict, code>>

\* The request of a step goes out once, after every earlier step has passed.
Ask ==
  /\ phase = "running" /\ asked = pos - 1
  /\ asked' = pos
  /\ UNCHANGED <<phase, pos, result, verdict, code>>

\* A step ends; only a step whose request went out can be anything but FAIL.
Judge(outcome) ==
  /\ phase = "running"
  /\ outcome # "FAIL" => asked = pos
  /\ result' = [result EXCEPT ![pos] = outcome]
  /\ IF outcome = "PASS" /\ pos < N
     THEN pos' = pos + 1 /\ UNCHANGED phase
     ELSE phase' = "closing" /\ UNCHANGED pos
  /\ UNCHANGED <<asked, verdict, code>>

\* The verdict is the last result's; a PASS may still be lowered to FAIL.
Publish ==
  /\ phase = "closing"
  /\ verdict' \in CASE result[pos] = "PASS"        -> {"PASS", "FAIL"}
                    [] result[pos] = "UNSUPPORTED" -> {"INCOMPLETE"}
                    [] OTHER                       -> {"FAIL"}
  /\ phase' = "returned"
  /\ UNCHANGED <<pos, asked, result, code>>

\* 0 only for PASS; 2 whenever there is no report, or none could be written.
Leave ==
  /\ phase \in {"returned", "refused"}
  /\ code' \in CASE verdict = "PASS"       -> {0, 2}
                 [] verdict = "INCOMPLETE" -> {3, 2}
                 [] verdict = "FAIL"       -> {1, 2}
                 [] OTHER                  -> {2}
  /\ phase' = "exited"
  /\ UNCHANGED <<pos, asked, result, verdict>>

Next ==
  \/ \E to \in {"running", "refused"} : Start(to)
  \/ Ask
  \/ \E outcome \in {"PASS", "FAIL", "UNSUPPORTED"} : Judge(outcome)
  \/ Publish
  \/ Leave

Spec == Init /\ [][Next]_vars /\ WF_vars(Next)

=============================================================================
