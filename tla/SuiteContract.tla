---------------------------- MODULE SuiteContract ----------------------------
(***************************************************************************)
(* What a run of a suite of N cases promises, without adapters, processes, *)
(* deadlines and temporary files (src/docs/conformance.md:115-124; the     *)
(* code is pkg/conformance/runner.go:96-178 and                            *)
(* internal/conformancecli/run.go:95-138).                                 *)
(***************************************************************************)
EXTENDS Integers

CONSTANT N          \* cases of the suite

VARIABLES
  phase,      \* running, saving, printing, exited or lost
  done,       \* cases that have their result
  stopped,    \* the caller has cancelled
  seen,       \* the statuses given so far: the Counts that are not 0
  saved,      \* what stands at the report path
  code        \* the exit code, -1 until the run ends

vars == <<phase, done, stopped, seen, saved, code>>

Init ==
  /\ phase = "running" /\ done = 0 /\ stopped = FALSE /\ seen = {}
  /\ saved = "old" /\ code = -1

\* The next case in order gets its only status; once the caller has cancelled
\* nothing is observed any more.
Judge(status) ==
  /\ phase = "running" /\ done < N
  /\ stopped => status \in {"FAIL", "NOT_RUN"}
  /\ done' = done + 1 /\ seen' = seen \cup {status}
  /\ UNCHANGED <<phase, stopped, saved, code>>

\* "Overall FAIL if any case fails; otherwise INCOMPLETE if any is
\* UNSUPPORTED/NOT_RUN; otherwise PASS".
Verdict == IF "FAIL" \in seen THEN "FAIL"
           ELSE IF seen = {"PASS"} THEN "PASS" ELSE "INCOMPLETE"

CodeOf == [PASS |-> 0, INCOMPLETE |-> 3, FAIL |-> 1]

\* There is a verdict only when every case has its result.
Conclude ==
  /\ phase = "running" /\ done = N
  /\ \/ phase' \in {"saving", "printing"} /\ UNCHANGED code
     \/ phase' = "exited" /\ code' = CodeOf[Verdict]
  /\ UNCHANGED <<done, stopped, seen, saved>>

\* A report is replaced as a whole, or not at all and the exit code is 2.
Save ==
  /\ phase = "saving"
  /\ \/ phase' = "printing" /\ saved' = Verdict /\ UNCHANGED code
     \/ phase' = "exited" /\ code' = 2 /\ UNCHANGED saved
  /\ UNCHANGED <<done, stopped, seen>>

Show ==
  /\ phase = "printing" /\ phase' = "exited" /\ code' \in {CodeOf[Verdict], 2}
  /\ UNCHANGED <<done, stopped, seen, saved>>

Stop ==
  /\ phase \notin {"exited", "lost"} /\ stopped' = TRUE
  /\ UNCHANGED <<phase, done, seen, saved, code>>

\* The power goes, and may take the last replacement with it.
Lose ==
  /\ phase # "lost" /\ phase' = "lost" /\ saved' \in {saved, "old"}
  /\ UNCHANGED <<done, stopped, seen, code>>

Step ==
  \/ \E status \in {"PASS", "FAIL", "UNSUPPORTED", "NOT_RUN"} : Judge(status)
  \/ Conclude \/ Save \/ Show

Next == Step \/ Stop \/ Lose

\* A case that has begun ends, and so does the run.
Spec == Init /\ [][Next]_vars /\ WF_vars(Step)

=============================================================================
